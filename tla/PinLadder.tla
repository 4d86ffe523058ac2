------------------------------ MODULE PinLadder ------------------------------
(***************************************************************************)
(* What PIN validation promises, without the signals, timers and counters  *)
(* the SignalHandler keeps it with.  An attempt that is weighed either     *)
(* authorises the session or climbs one rung of a ladder of lockouts; the  *)
(* third failure in a row starts the first lockout, and while a lockout    *)
(* runs nothing is weighed.  PinAuth.tla is shown to implement this.       *)
(***************************************************************************)
EXTENDS Naturals

CONSTANTS
    Lock60s,    \* how long the lockout of the third failure lasts
    Lock300s,   \* ... of the fourth
    Lock3600s   \* ... of the fifth

VARIABLES
    now,         \* the wall clock
    failures,    \* failed attempts since the last success, 6 for six or more
    authorised,  \* the client may go on to mobile_init
    lockedUntil  \* last instant of the running lockout, 0 when none was set

ladderVars == <<now, failures, authorised, lockedUntil>>

\* The lockout that a number of failures in a row earns.  The sixth earns the
\* last verdict ("Indefinite"), on which every further attempt is weighed.
HoldOf(n) == CASE n = 3 -> Lock60s
               [] n = 4 -> Lock300s
               [] n = 5 -> Lock3600s

LadderInit ==
    /\ now \in Nat
    /\ failures = 0
    /\ authorised = FALSE
    /\ lockedUntil = 0

NotHeld == now > lockedUntil

LadderTick ==
    /\ now' = now + 1
    /\ UNCHANGED <<failures, authorised, lockedUntil>>

Accept ==
    /\ NotHeld
    /\ authorised' = TRUE
    /\ failures' = 0
    /\ lockedUntil' = 0
    /\ UNCHANGED now

Reject ==
    /\ NotHeld
    /\ authorised' = FALSE
    /\ failures' = IF failures < 6 THEN failures + 1 ELSE 6
    /\ lockedUntil' = IF failures' \in 3..5 THEN now + HoldOf(failures') ELSE 0
    /\ UNCHANGED now

\* The client is gone: what it was allowed to do ends with it.
Expire ==
    /\ authorised
    /\ authorised' = FALSE
    /\ UNCHANGED <<now, failures, lockedUntil>>

LadderNext == LadderTick \/ Accept \/ Reject \/ Expire

LadderSpec == LadderInit /\ [][LadderNext]_ladderVars
==============================================================================
