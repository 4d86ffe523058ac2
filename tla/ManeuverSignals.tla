--------------------------- MODULE ManeuverSignals ---------------------------
(***************************************************************************)
(* Maneuvers and the signals that stand for them: what the TCM sends for a *)
(* maneuver the client asks for (setInputManeuverSignals and the           *)
(* DeviceControlMode of the handler that serves it), and which maneuver    *)
(* the active signals of the ASPM are read as (getManeuverFromASP).        *)
(*                                                                         *)
(* A maneuver is a family, a side and a direction: its name in the API is  *)
(* the three put together, "OutLftFwd", "StrRvs" and so on.                *)
(***************************************************************************)
LOCAL INSTANCE Naturals

CONSTANT NoManeuver  \* the empty name: the signals describe no maneuver

ParkManeuvers ==
    [family : {"Out"}, side : {"Left", "Right"}, dir : {"Fwd", "Rvs", "Prl"}]
    \cup [family : {"In"}, side : {"Left", "Right"}, dir : {"Fwd", "Rvs"}]
Maneuvers == ParkManeuvers \cup [family : {"Str", "Ndg"}, side : {"Center"}, dir : {"Fwd", "Rvs"}]

-----------------------------------------------------------------------------
(* From the TCM to the ASPM.                                                *)

Selections == [type      : {"None", "Parallel", "Perpendicular"},
               direction : {"None", "NoseFirst", "RearFirst"},
               gear      : {"Park", "Forward", "Reverse"},
               side      : {"None", "Left", "Right", "Center"}]

NoSelection == [type |-> "None", direction |-> "None", gear |-> "Park", side |-> "None"]

\* ExploreModeSelect and NudgeSelect are set too; the ASPM does not read them.
InputSignals(m) ==
    [type      |-> IF m \notin ParkManeuvers THEN "None"
                   ELSE IF m.dir = "Prl" THEN "Parallel" ELSE "Perpendicular",
     direction |-> IF m \notin ParkManeuvers \/ m.dir = "Prl" THEN "None"
                   ELSE IF m.dir = "Fwd" THEN "NoseFirst" ELSE "RearFirst",
     gear      |-> IF m.dir = "Rvs" THEN "Reverse" ELSE "Forward",
     side      |-> m.side]

Modes == {"NoMode", "RCMainMenu", "RCParkOutSpaceSlctn", "RCParkIn",
          "RCAdjust", "RCParkOut", "RCPushPull"}

\* The mode of the handler maneuver_init calls for a maneuver.
ModeOf(m) == CASE m.family = "Str" -> "RCPushPull"
               [] m.family = "In"  -> "RCParkIn"
               [] m.family = "Out" -> "RCParkOut"
               [] m.family = "Ndg" -> "RCAdjust"

-----------------------------------------------------------------------------
(* From the ASPM to the TCM.                                                *)

Actives == [type : {"None", "Remote", "PushPull", "LongitudinalAssist"},
            mode : {"None", "ParkIn", "ParkOut"},
            orientation : {"None", "Parallel", "PerpendicularRear", "PerpendicularFront"},
            side : {"None", "Left", "Right", "Center"}]

OrientationOf(dir) == CASE dir = "Fwd" -> "PerpendicularFront"
                        [] dir = "Rvs" -> "PerpendicularRear"
                        [] dir = "Prl" -> "Parallel"

\* Straight and nudge maneuvers have a type of their own and are told by the
\* orientation alone; the type Remote is told apart by mode, orientation, side.
Describes(active, m) ==
    /\ active.orientation = OrientationOf(m.dir)
    /\ \/ m.family = "Str" /\ active.type = "PushPull"
       \/ m.family = "Ndg" /\ active.type = "LongitudinalAssist"
       \/ /\ m \in ParkManeuvers /\ active.type = "Remote"
          /\ active.mode = (IF m.family = "In" THEN "ParkIn" ELSE "ParkOut")
          /\ active.side = m.side

getManeuverFromASP(active) ==
    IF \E m \in Maneuvers : Describes(active, m)
    THEN CHOOSE m \in Maneuvers : Describes(active, m)
    ELSE NoManeuver
==============================================================================
