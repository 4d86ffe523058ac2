------------------------------- MODULE AspTurn -------------------------------
(***************************************************************************)
(* The simulated ASP module (ASPM) that stands for the vehicle: what one   *)
(* turn of its signal loop does with a datagram of TCM signals.  A turn    *)
(* takes up a changed DeviceControlMode (setDeviceControlMode), checks a   *)
(* changed challenge reply (checkResponse_) and updates the signals for    *)
(* the button, the scan, the dead man's handle and the progress            *)
(* (updateSignalsAfterMsgFromTCM_), in this order.                         *)
(*                                                                         *)
(* The state of the ASPM is one record and each part of a turn a function  *)
(* on it: AspSimulator.tla checks the ASPM by itself, RemoteDrive.tla as   *)
(* the other end of the telematics unit.  Messages to the driver (InfoMsg, *)
(* InstructMsg, CancelMsg) are left out.                                   *)
(*                                                                         *)
(* A timeval is 0 when it is zero, otherwise one more than the ticks since *)
(* it was set, as diffTimeval tells them: modulo the range of an unsigned  *)
(* int of microseconds, so that an old start looks fresh again.            *)
(***************************************************************************)
EXTENDS Naturals, ManeuverOffers

CONSTANTS
    Preferred,     \* maneuvers the simulator may be started with
    Complete,      \* the ManeuverProgressBar of a finished maneuver
    ScanTicks,     \* SIM_SCAN_TIME
    DmhTicks,      \* DMH_TIMEOUT_RATE
    TimerWrap,     \* the ticks in 2^32 us, after which a timeval looks fresh again
    ExploreLimit,  \* EXPLORATORY_MODE_LIMIT
    ExploreWrap    \* the number of values of explore_idx_, a uint8_t

ASSUME AspAssumption ==
    /\ Preferred \subseteq Maneuvers \cup {NoManeuver}
    /\ NoManeuver \notin Maneuvers
    /\ Complete \in Nat /\ ScanTicks \in Nat /\ DmhTicks \in Nat /\ TimerWrap \in Nat
    /\ 0 < Complete /\ Complete < 256
    /\ ScanTicks + 1 < TimerWrap /\ DmhTicks + 1 < TimerWrap
    /\ ExploreLimit \in Nat /\ ExploreWrap \in Nat /\ 1 < ExploreWrap /\ ExploreLimit < ExploreWrap

Buttons == {"None", "ConfirmationSelected", "ResumeSelected", "CancellationSelected",
            "EndManouevre", "ReturnToStart"}
Inputs == {"NoScrnInput", "ValidScrnInput"}
\* A reply is checked when it is a new one and its challenge is still pending.
Replies == {"unchecked", "right", "wrong"}
Statuses == {"NotActive", "Scanning", "Selecting", "Confirming", "Maneuvering",
             "Interrupted", "Finishing", "Ended", "Cancelled"}
Explorations == {"None", "StrFwd", "StrRvs", "ReturnToStart"}

AspStates ==
    [mode : Modes, status : Statuses, active : Actives,
     confirm : {"None", "OfferEnabled"}, resume : {"None", "OfferEnabled"},
     explore : Availabilities, returnToStart : Availabilities,
     sides : SUBSET {"Left", "Right"}, directions : SUBSET {"Fwd", "Rvs"},
     progress : 0..Complete, paused : BOOLEAN, challengeWarning : BOOLEAN,
     isManeuveringWithValidDMH : BOOLEAN,
     preferred : Maneuvers \cup {NoManeuver}, opposite : Maneuvers \cup {NoManeuver},
     lastExplore : Explorations, exploreIdx : 0..ExploreWrap - 1, exploreLimitReached : BOOLEAN,
     scanStart : 0..TimerWrap, dmhStart : 0..TimerWrap]

FamilyOf(m) == IF m = NoManeuver THEN "None" ELSE m.family
checkTimeout(start, limit) == start > limit + 1

-----------------------------------------------------------------------------
(* setDeviceControlMode: a change of mode.                                  *)

\* isExploratoryModeDisabled_
Explored(a, direction) ==
    LET again == direction # "ReturnToStart" /\ direction = a.lastExplore
        idx == IF ~again THEN 0
               ELSE IF a.exploreIdx + 1 = ExploreWrap THEN 0 ELSE a.exploreIdx + 1
    IN [a EXCEPT !.lastExplore = direction, !.exploreIdx = idx,
                 !.exploreLimitReached = (idx >= ExploreLimit)]

MainMenu(a) ==
    [a EXCEPT !.status = "Scanning", !.active = [type |-> "None", mode |-> "None",
                                                 orientation |-> "None", side |-> "None"],
              !.confirm = "None", !.resume = "None", !.explore = "None",
              !.returnToStart = "None", !.sides = {}, !.directions = {},
              !.progress = 0, !.paused = FALSE]

SpaceSelection_KeepsReturn(a) ==
    [a EXCEPT !.status = "Selecting", !.confirm = "None", !.resume = "None", !.progress = 0]
SpaceSelection(a) ==
    [a EXCEPT !.status = "Selecting", !.confirm = "None", !.resume = "None",
              !.returnToStart = "None", !.progress = 0]

\* What ParkIn, ParkOut and PushPull have in common.
Offer(a, active) ==
    [a EXCEPT !.active = active, !.confirm = "OfferEnabled", !.resume = "None",
              !.returnToStart = "None", !.progress = 0]

Reversed(m) == [family |-> IF m.family = "In" THEN "Out" ELSE "In", side |-> m.side,
                dir |-> IF m.dir = "Fwd" THEN "Rvs" ELSE "Fwd"]

\* The maneuver parked in is the one the simulator was started with, whatever
\* the client selects; without one, what was active before.
ParkIn(a) ==
    LET found == FamilyOf(a.preferred) = "In"
        active == [type |-> "Remote", mode |-> "ParkIn",
                   orientation |-> IF found THEN OrientationOf(a.preferred.dir) ELSE a.active.orientation,
                   side |-> IF found THEN a.preferred.side ELSE a.active.side]
    IN Explored([Offer(a, active) EXCEPT
                    !.status = "Selecting",
                    !.opposite = IF found THEN Reversed(a.preferred) ELSE a.opposite],
                "ReturnToStart")

\* The status is not set here, nor by PushPull.
ParkOut(a, s) ==
    LET orientation ==
            CASE s.type = "Parallel"                                         -> "Parallel"
              [] s.type = "Perpendicular" /\ s.direction = "NoseFirst" -> "PerpendicularFront"
              [] s.type = "Perpendicular" /\ s.direction = "RearFirst" -> "PerpendicularRear"
              [] OTHER                                                 -> "None"
        back == CASE orientation = "PerpendicularFront" -> {"Rvs"}
                  [] orientation = "PerpendicularRear"  -> {"Fwd"}
                  [] OTHER                              -> {}
        opposites == [family : {"In"}, side : {s.side} \cap {"Left", "Right"}, dir : back]
        active == [type |-> "Remote", mode |-> "ParkOut", orientation |-> orientation, side |-> s.side]
    IN Explored([Offer(a, active) EXCEPT
                    !.opposite = IF opposites = {} THEN a.opposite ELSE CHOOSE m \in opposites : TRUE],
                "ReturnToStart")

PushPull(a, s) ==
    LET Straight(dir) == [family |-> "Str", side |-> "Center", dir |-> dir]
        Pushed(orientation) ==
            Offer(a, [type |-> "PushPull", mode |-> "None", orientation |-> orientation, side |-> s.side])
    IN CASE s.gear = "Forward" ->
              Explored([Pushed("PerpendicularFront") EXCEPT !.opposite = Straight("Rvs")], "StrFwd")
         [] s.gear = "Reverse" ->
              Explored([Pushed("PerpendicularRear") EXCEPT !.opposite = Straight("Fwd")], "StrRvs")
         [] OTHER -> Pushed("None")

EnterMode(a, mode, s) ==
    LET b == [a EXCEPT !.mode = mode]
    IN CASE mode = "RCMainMenu"          -> MainMenu(b)
         [] mode = "RCParkOutSpaceSlctn" -> SpaceSelection(b)
         [] mode = "RCParkIn"            -> ParkIn(b)
         [] mode = "RCParkOut"           -> ParkOut(b, s)
         [] mode = "RCPushPull"          -> PushPull(b, s)
         [] OTHER                        -> b

\* Only a mode that differs from that of the last turn is taken up.
setDeviceControlMode(a, mode, s) ==
    IF mode = a.mode THEN a ELSE EnterMode(a, mode, s)

-----------------------------------------------------------------------------
(* checkResponse_: one wrong reply is let pass, the next one pauses.        *)

checkResponse(a, reply) ==
    CASE reply = "right"     -> [a EXCEPT !.paused = FALSE, !.challengeWarning = FALSE]
      [] reply = "wrong"     -> IF a.challengeWarning THEN [a EXCEPT !.paused = TRUE]
                                                      ELSE [a EXCEPT !.challengeWarning = TRUE]
      [] reply = "unchecked" -> a

-----------------------------------------------------------------------------
(* updateSignalsAfterMsgFromTCM_                                            *)

Cancel(a) == [a EXCEPT !.status = "Cancelled", !.returnToStart = "None",
                       !.isManeuveringWithValidDMH = FALSE]
EndManeuver(a) == [a EXCEPT !.status = "Ended", !.returnToStart = "None",
                            !.isManeuveringWithValidDMH = FALSE]

\* The opposite of a park maneuver becomes the one selected; the turn ends.
CanReturn(a) == a.opposite \in ParkManeuvers
ReturnToStart(a) == EnterMode(a, ModeOf(a.opposite), InputSignals(a.opposite))

\* areWeDoneScanning_: the first turn of a scan starts its clock, unless one
\* that was broken off left it running.
StartScan(a) == [a EXCEPT !.scanStart = 1]

FinishScan(a) ==
    LET family == FamilyOf(a.preferred)
        park == family \in {"In", "Out"}
        active == [a.active EXCEPT
                     !.type = IF family \in {"Str", "Ndg"} THEN "PushPull" ELSE "Remote",
                     !.mode = IF family = "In" THEN "ParkIn" ELSE "ParkOut",
                     !.orientation = IF park THEN OrientationOf(a.preferred.dir) ELSE @]
    IN [a EXCEPT
          !.status = "Selecting", !.progress = 0, !.scanStart = 0,
          !.isManeuveringWithValidDMH = FALSE, !.active = active,
          !.sides = IF park THEN {"Left", "Right"} ELSE @,
          !.directions = IF park THEN @ ELSE {"Fwd", "Rvs"},
          !.explore = IF a.exploreLimitReached THEN "OfferDisabled"
                      ELSE IF park THEN @ ELSE "OfferEnabled"]

Scan_Restarted(a) ==
    IF a.status # "Scanning" THEN a
    ELSE IF checkTimeout(a.scanStart, ScanTicks) THEN FinishScan(a) ELSE StartScan(a)
Scan(a) ==
    IF a.status # "Scanning" THEN a
    ELSE IF a.scanStart = 0 THEN StartScan(a)
    ELSE IF checkTimeout(a.scanStart, ScanTicks) THEN FinishScan(a) ELSE a

\* areWeStillManeuvering_: a button confirms or resumes only while ResumeAvailability
\* is offered; a valid gesture sets the vehicle moving from any of three states.
Waiting == {"Selecting", "Confirming", "Interrupted"}
Confirm(a, button) ==
    LET pressed == \/ button = "ResumeSelected"
                   \/ button = "ConfirmationSelected" /\ a.status # "Interrupted"
    IN IF a.status \in Waiting /\ pressed /\ a.resume = "OfferEnabled"
       THEN [a EXCEPT !.status = "Confirming"] ELSE a

StillManeuvering_Paused(a, input) ==
    \/ a.status = "Maneuvering"
    \/ a.status \in Waiting /\ input = "ValidScrnInput"
StillManeuvering_Over(a, input) ==
    /\ ~a.paused
    /\ \/ a.status = "Maneuvering"
       \/ a.status # "Scanning" /\ input = "ValidScrnInput"
StillManeuvering(a, input) ==
    /\ ~a.paused
    /\ \/ a.status = "Maneuvering"
       \/ a.status \in Waiting /\ input = "ValidScrnInput"

DmhAfter(a, input) ==
    IF input = "ValidScrnInput" THEN 1
    ELSE IF checkTimeout(a.dmhStart, DmhTicks) THEN 0 ELSE a.dmhStart

Interrupt(a) == [a EXCEPT !.status = "Interrupted", !.resume = "OfferEnabled",
                          !.isManeuveringWithValidDMH = FALSE]
Maneuver(a) == [a EXCEPT !.status = "Maneuvering", !.confirm = "None", !.resume = "None",
                         !.returnToStart = "OfferEnabled",
                         !.progress = (@ + 1) % 256, !.isManeuveringWithValidDMH = TRUE]

Drive(a, button, input) ==
    LET b == IF a.paused THEN a ELSE Confirm(a, button)
        c == [b EXCEPT !.dmhStart = DmhAfter(b, input)]
    IN IF ~StillManeuvering(b, input) THEN b
       ELSE IF c.dmhStart = 0 THEN Interrupt(c) ELSE Maneuver(c)

Finish_Late(a) ==
    IF a.progress = Complete /\ a.status # "Maneuvering"
    THEN [a EXCEPT !.status = "Finishing", !.returnToStart = "OfferEnabled",
                   !.isManeuveringWithValidDMH = FALSE] ELSE a
Finish(a) ==
    IF a.progress = Complete
    THEN [a EXCEPT !.status = "Finishing", !.returnToStart = "OfferEnabled",
                   !.isManeuveringWithValidDMH = FALSE] ELSE a

updateSignalsAfterMsgFromTCM(a, button, input) ==
    IF button = "CancellationSelected" THEN Cancel(a)
    ELSE IF button = "ReturnToStart" /\ CanReturn(a) THEN ReturnToStart(a)
    ELSE LET b == IF button = "EndManouevre" THEN EndManeuver(a) ELSE a
         IN Finish(Drive(Scan(b), button, input))

-----------------------------------------------------------------------------
(* A turn of updateSignalEventLoop_, the time between turns, and the start. *)

Turn(a, datagram) ==
    updateSignalsAfterMsgFromTCM(
        checkResponse(setDeviceControlMode(a, datagram.mode, datagram.select), datagram.reply),
        datagram.button, datagram.input)

Older(start) == IF start = 0 THEN 0 ELSE IF start = TimerWrap THEN 1 ELSE start + 1
Aged(a) == [a EXCEPT !.scanStart = Older(@), !.dmhStart = Older(@)]

\* The constructor: a simulator started for parking in has selected it.
Built(preferred) ==
    LET a == [mode |-> "NoMode", status |-> "NotActive",
              active |-> [type |-> "None", mode |-> "None", orientation |-> "None", side |-> "None"],
              confirm |-> "None", resume |-> "None", explore |-> "None",
              returnToStart |-> "None", sides |-> {}, directions |-> {}, progress |-> 0,
              paused |-> FALSE, challengeWarning |-> FALSE, isManeuveringWithValidDMH |-> FALSE,
              preferred |-> preferred, opposite |-> NoManeuver,
              lastExplore |-> "None", exploreIdx |-> 1, exploreLimitReached |-> FALSE,
              scanStart |-> 0, dmhStart |-> 0]
    IN IF FamilyOf(preferred) = "In" THEN EnterMode(a, "RCParkIn", NoSelection) ELSE a

-----------------------------------------------------------------------------
(* History: how long a vehicle that is maneuvering has stood still.         *)

\* After so many ticks in Maneuvering without advancing, the start of the handle's
\* clock may look fresh again.
Forgotten == TimerWrap - DmhTicks

Advances(a, b) == b.progress > a.progress

\* A vehicle that was forgotten and then moves on without a gesture stays forgotten.
StoodAfter(a, b, input, stood) ==
    IF \/ b.status # "Maneuvering"
       \/ Advances(a, b) /\ (input = "ValidScrnInput" \/ stood < Forgotten)
    THEN 0 ELSE stood
StoodLonger(a, stood) ==
    IF a.status = "Maneuvering" /\ stood < Forgotten THEN stood + 1 ELSE stood
==============================================================================
