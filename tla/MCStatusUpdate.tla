---------------------------- MODULE MCStatusUpdate ----------------------------
(***************************************************************************)
(* StatusUpdate with two maneuver statuses, so that the status can change  *)
(* and change back, one of them told by a message of its own and the other *)
(* not, and a verdict that the session thread sets and expires.  One       *)
(* InfoMsg is enough: the verdict is compared in the same way.             *)
(***************************************************************************)
EXTENDS StatusUpdate

MCManeuverStatuses == {"NotActive", "Ended"}
MCInfoMsgs == {"None"}
MCVerdicts == {"CorrectPIN", "ExpiredPIN"}
==============================================================================
