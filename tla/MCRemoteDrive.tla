---------------------------- MODULE MCRemoteDrive ----------------------------
(***************************************************************************)
(* RemoteDrive on small instances: the vehicle stands before a space to    *)
(* its right, the client asks to leave it again or to return; or it stands *)
(* anywhere and the client only asks to leave a space.                     *)
(***************************************************************************)
EXTENDS RemoteDrive

OutRight == [family |-> "Out", side |-> "Right", dir |-> "Rvs"]
Parked == {[family |-> "In", side |-> "Right", dir |-> "Fwd"]}
Anywhere == {NoManeuver}
LeaveOrReturn == {OutRight, ReturnToOrigin}
Leave == {OutRight}
AnyVerdict == BOOLEAN
CorrectPin == {TRUE}
==============================================================================
