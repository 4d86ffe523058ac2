------------------------- MODULE MCChallengeResponse -------------------------
(***************************************************************************)
(* ChallengeResponse with two indices, so that they come round while the   *)
(* client has challenges, and two numbers, so that a challenge may come    *)
(* back as it was or changed.  The numbers are interchangeable.            *)
(***************************************************************************)
EXTENDS ChallengeResponse, TLC

CONSTANTS a, b

MCNumbers == {a, b}
Symmetry == Permutations(MCNumbers)
==============================================================================
