---------------------------- MODULE MCAspSimulator ----------------------------
(***************************************************************************)
(* AspSimulator on a small instance: a simulator started for no maneuver   *)
(* or for parking in to the left, a maneuver of two turns, a dead man's    *)
(* handle and a scan that time out after the next tick and clocks that     *)
(* wrap soon after; selections to park in, to park out and to drive        *)
(* straight, and one to drive straight with the gear of before.            *)
(***************************************************************************)
EXTENDS AspSimulator

InLeft == [family |-> "In", side |-> "Left", dir |-> "Fwd"]
OutRight == [family |-> "Out", side |-> "Right", dir |-> "Rvs"]
Straight == [family |-> "Str", side |-> "Center", dir |-> "Fwd"]

MCPreferred == {NoManeuver, InLeft}
\* The selection is read in the modes of the two maneuvers only.
MCSent ==
    {"NoMode", "RCMainMenu", "RCParkOutSpaceSlctn", "RCParkIn"} \X {NoSelection}
    \cup {<<ModeOf(m), InputSignals(m)>> : m \in {OutRight, Straight}}
    \cup {<<ModeOf(Straight), [InputSignals(Straight) EXCEPT !.gear = NoSelection.gear]>>}
==============================================================================
