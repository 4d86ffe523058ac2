--------------------------- MODULE ManeuverOffers ---------------------------
(***************************************************************************)
(* What list_maneuvers answers: which maneuvers, which default and whether *)
(* to continue exploring sendAvailableManeuvers_ reads from the signals of *)
(* the ASPM.                                                               *)
(*                                                                         *)
(* A SideAvailability or DirectionAvailability is the set of the sides or  *)
(* directions it offers, None the empty one.  Nudging has an availability  *)
(* of its own, which no ASPM of this repository ever enables.              *)
(***************************************************************************)
EXTENDS ManeuverSignals

CONSTANT ReturnToOrigin  \* the maneuver "RtnToOgn"

ASSUME ReturnAssumption == ReturnToOrigin \notin Maneuvers

Availabilities == {"None", "OfferEnabled", "OfferDisabled"}

\* Straight ahead or back, where exploring is offered.
OfferedStraights(s) ==
    IF s.explore = "OfferEnabled"
    THEN [family : {"Str"}, side : {"Center"}, dir : s.directions] ELSE {}

OfferedReturn(s) == IF s.returnToStart = "OfferEnabled" THEN {ReturnToOrigin} ELSE {}

\* The park maneuvers of the active mode and orientation, on the sides offered;
\* to park in parallel is descoped.
OfferedAsSensed(s) ==
    {m \in ParkManeuvers : /\ s.active.mode = (IF m.family = "In" THEN "ParkIn" ELSE "ParkOut")
                           /\ s.active.orientation = OrientationOf(m.dir)
                           /\ m.side \in s.sides}

OfferedPark_AsSensed(s, hasVehicleMoved) == OfferedAsSensed(s)
\* Out of a space every maneuver is offered until the vehicle has once moved:
\* up to then the ASPM has sensed nothing.
OfferedPark(s, hasVehicleMoved) ==
    IF s.active.mode = "ParkOut" /\ ~hasVehicleMoved
    THEN {m \in ParkManeuvers : m.family = "Out"} ELSE OfferedAsSensed(s)

OfferedManeuvers(s, hasVehicleMoved) ==
    OfferedStraights(s) \cup OfferedReturn(s) \cup OfferedPark(s, hasVehicleMoved)

checkContinueExploratoryMode(s) == s.explore # "OfferDisabled"

sendAvailableManeuvers(s, hasVehicleMoved) ==
    [default |-> getManeuverFromASP(s.active),
     continue_exploring |-> checkContinueExploratoryMode(s),
     maneuvers |-> OfferedManeuvers(s, hasVehicleMoved)]
==============================================================================
