----------------------------- MODULE AspSimulator -----------------------------
(***************************************************************************)
(* The simulated ASP module by itself: it takes whatever datagrams come,   *)
(* at whatever times.  Nothing is assumed of the sender, so the properties *)
(* are what the ASPM guarantees against any sequence of datagrams.         *)
(***************************************************************************)
EXTENDS AspTurn

CONSTANT Sent  \* the modes and selections that datagrams carry: pairs of them

ASSUME SentAssumption == Sent \subseteq Modes \X Selections

VARIABLES
    asp,      \* the ASPM
    gesture,  \* history: ticks since a datagram last held a valid gesture
    stood     \* history: ticks that a maneuvering vehicle has stood still

vars == <<asp, gesture, stood>>

\* The selection need not be that of a maneuver the mode is for: a datagram may
\* carry the gear of one request with the mode of the next.
Datagrams ==
    {[mode |-> sent[1], select |-> sent[2], button |-> button, input |-> input, reply |-> reply] :
        sent \in Sent, button \in Buttons, input \in Inputs, reply \in Replies}

Init ==
    /\ asp \in {Built(m) : m \in Preferred}
    /\ gesture = DmhTicks + 1 /\ stood = 0

Receive ==
    \E datagram \in Datagrams :
        /\ asp' = Turn(asp, datagram)
        /\ gesture' = IF datagram.input = "ValidScrnInput" THEN 0 ELSE gesture
        /\ stood' = StoodAfter(asp, asp', datagram.input, stood)

Tick ==
    /\ asp' = Aged(asp)
    /\ gesture' = IF gesture > DmhTicks THEN gesture ELSE gesture + 1
    /\ stood' = StoodLonger(asp, stood)

Next == Receive \/ Tick

Spec == Init /\ [][Next]_vars

-----------------------------------------------------------------------------
(* Properties.                                                              *)

TypeOK ==
    /\ asp \in AspStates
    /\ gesture \in 0..DmhTicks + 1 /\ stood \in 0..Forgotten

\* The vehicle advances only in a turn that no mismatch pauses and that comes
\* within the time of the dead man's handle after a valid gesture, whatever
\* modes, buttons and interruptions lie between.  The exception is a vehicle
\* that was left in Maneuvering without a datagram or paused until the age of
\* the handle's clock wrapped (2^32 us, 71.6 minutes): no other start looks fresh.
DriveNeedsGesture ==
    [][Advances(asp, asp') => /\ ~asp'.paused
                              /\ gesture' <= DmhTicks \/ stood = Forgotten]_vars

\* A maneuver that was cancelled, ended or finished is never taken up again by
\* a gesture or a button alone: something else must have been selected.
OverIsOver ==
    [][asp.status \in {"NotActive", "Finishing", "Ended", "Cancelled"} /\ Advances(asp, asp')
       => asp'.mode # asp.mode]_vars

\* The progress bar agrees with the status: it is complete exactly when the
\* maneuver has come to its end, so the 8-bit counter stops there, and whichever
\* maneuver a scan interrupted and whatever is selected during it, it is empty
\* while the simulator scans.
ProgressFitsStatus ==
    /\ asp.progress = Complete => asp.status \in {"Finishing", "Cancelled"}
    /\ asp.status = "Scanning" => asp.progress = 0

\* What is offered agrees with the status.  A vehicle that waits to be set moving
\* again offers to resume, unless another maneuver was selected in the meantime;
\* nothing can be resumed while it scans; and "RtnToOgn" is on the list only of a
\* maneuver that is under way or has come to its end: no cancellation, selection
\* or new scan leaves the offer behind.
OffersFitStatus ==
    /\ asp.status = "Interrupted" => "OfferEnabled" \in {asp.resume, asp.confirm}
    /\ asp.status = "Scanning" => asp.resume = "None"
    /\ ReturnToOrigin \in sendAvailableManeuvers(asp, TRUE).maneuvers
         => asp.status \in {"Maneuvering", "Interrupted", "Confirming", "Finishing"}

\* A scan ends with a list the client can go on from, whatever was selected while
\* it ran and whether or not the vehicle has moved: it is not empty, and until the
\* vehicle has moved a default it names is in it.  Only the limit of exploring
\* may leave nothing to offer.
ScanEndsWithOffers ==
    [][asp.scanStart # 0 /\ asp'.scanStart = 0
       => \/ asp'.exploreLimitReached
          \/ \A hasVehicleMoved \in BOOLEAN :
                LET list == sendAvailableManeuvers(asp', hasVehicleMoved)
                IN /\ list.maneuvers # {}
                   /\ hasVehicleMoved \/ list.default \in list.maneuvers \cup {NoManeuver}
                   /\ list.continue_exploring]_vars
==============================================================================
