------------------------------- MODULE PinAuth -------------------------------
(***************************************************************************)
(* PIN validation: SignalHandler::setInControlRemotePin with the lockout   *)
(* timer and counter it keeps, and the two places of the session thread    *)
(* (RemoteDeviceHandler::spin) that call it: the send_pin handler, which   *)
(* repeats the call until the verdict is settled, and the disconnection of *)
(* the client.  Nothing else writes the verdict.                           *)
(*                                                                         *)
(* A PIN is the hash the client sends; NotSet is the value "-1" that means *)
(* none.  Time is counted in ticks; TimerWrap is the number of ticks after *)
(* which an unsigned int of microseconds starts again at 0.                *)
(***************************************************************************)
EXTENDS Naturals

CONSTANTS
    Pins,        \* the hashes a client may send
    NotSet,      \* PIN_NOT_SET
    VdcPins,     \* what the vehicle's memory may hold when it is read
    NoRequest,   \* "no send_pin is being handled"
    Lock60s,     \* pinLockoutLimit_ of each timed lockout, in ticks
    Lock300s,
    Lock3600s,
    TimerWrap,   \* 2^32 microseconds, in ticks
    MaxTime      \* bound on the clock

ASSUME PinAssumption ==
    /\ NotSet \notin Pins
    /\ VdcPins \subseteq Pins \cup {NotSet}
    /\ NoRequest \notin Pins \cup {NotSet}

ASSUME TimerAssumption ==
    /\ Lock60s \in Nat /\ Lock300s \in Nat /\ Lock3600s \in Nat
    /\ TimerWrap \in Nat /\ MaxTime \in Nat
    /\ 0 < Lock60s /\ Lock60s < Lock300s /\ Lock300s < Lock3600s
    /\ Lock3600s < TimerWrap - 1

VARIABLES
    now,                   \* gettimeofday
    isClientConnected,     \* the session thread has a client
    pendingPin,            \* the PIN that send_pin is still repeating
    AcknowledgeRemotePIN,  \* the verdict, code 7xx of vehicle_status
    InControlRemotePIN,    \* the last PIN that was taken up
    pinStoredInVDC,        \* the vehicle's own PIN
    pinEntryLockoutTime,   \* when the running lockout began, 0 for none
    pinLockoutLimit,       \* how long it lasts
    pinIncorrectCount      \* counter of failed attempts

pinVars == <<AcknowledgeRemotePIN, InControlRemotePIN, pinEntryLockoutTime,
             pinLockoutLimit, pinIncorrectCount>>
vars == <<now, isClientConnected, pendingPin, pinStoredInVDC, pinVars>>

AnyPin == Pins \cup {NotSet}

\* 4294967295, the limit written for the last rung: the largest unsigned int.
LockForever_OffByOne == TimerWrap
LockForever == TimerWrap - 1

TimedLocks == {"IncorrectPIN3xLock60s", "IncorrectPIN3xLock300s", "IncorrectPIN3xLock3600s"}
Locks == TimedLocks \cup {"IncorrectPIN3xLockIndefinite"}
Verdicts == Locks \cup {"None", "IncorrectPIN", "ExpiredPIN", "NotSetInDCM", "CorrectPIN"}

-----------------------------------------------------------------------------
(* The lockout timer: diffTimeval, checkTimeout and the test that guards    *)
(* the comparison of the PINs.                                              *)

diffTimeval == (now - pinEntryLockoutTime) % TimerWrap

checkTimeout_Early == diffTimeval >= pinLockoutLimit
checkTimeout == diffTimeval > pinLockoutLimit

LockoutRunning_IgnoresZero ==
    /\ AcknowledgeRemotePIN # "IncorrectPIN3xLockIndefinite"
    /\ ~checkTimeout
LockoutRunning_KeepsOld ==
    /\ pinEntryLockoutTime # 0
    /\ AcknowledgeRemotePIN # "IncorrectPIN3xLockIndefinite"
LockoutRunning ==
    /\ pinEntryLockoutTime # 0
    /\ AcknowledgeRemotePIN # "IncorrectPIN3xLockIndefinite"
    /\ ~checkTimeout

\* A lockout that has run out is forgotten before the PIN is compared; the
\* indefinite one is not.
LockoutTimeAfterCheck ==
    IF AcknowledgeRemotePIN = "IncorrectPIN3xLockIndefinite"
    THEN pinEntryLockoutTime ELSE 0

-----------------------------------------------------------------------------
(* The comparison, in setInControlRemotePin once no lockout is running.     *)

\* The verdict that a further failure raises a lockout to.
NextLock_SkipsRung(lock) ==
    IF lock = "IncorrectPIN3xLock60s" THEN "IncorrectPIN3xLock3600s"
                                      ELSE "IncorrectPIN3xLockIndefinite"
NextLock(lock) ==
    CASE lock = "IncorrectPIN3xLock60s"  -> "IncorrectPIN3xLock300s"
      [] lock = "IncorrectPIN3xLock300s" -> "IncorrectPIN3xLock3600s"
      [] OTHER                           -> "IncorrectPIN3xLockIndefinite"

\* The limit that is written with each of them.
LimitOf(lock) ==
    CASE lock = "IncorrectPIN3xLock60s"   -> Lock60s
      [] lock = "IncorrectPIN3xLock300s"  -> Lock300s
      [] lock = "IncorrectPIN3xLock3600s" -> Lock3600s
      [] OTHER                            -> LockForever

EnterLock_KeepsLimit(lock) ==
    /\ AcknowledgeRemotePIN' = lock
    /\ pinEntryLockoutTime' = now
    /\ UNCHANGED pinLockoutLimit
EnterLock(lock) ==
    /\ AcknowledgeRemotePIN' = lock
    /\ pinEntryLockoutTime' = now
    /\ pinLockoutLimit' = LimitOf(lock)

RaiseLock ==
    /\ AcknowledgeRemotePIN \in Locks
    /\ EnterLock(NextLock(AcknowledgeRemotePIN))
    /\ UNCHANGED pinIncorrectCount

\* Below the ladder the attempts are counted, in a uint8_t.  The case of a
\* repeated failure increments the counter, locks when it reaches 3, and
\* otherwise falls through to the default case, which increments it again.
LockOnThird ==
    /\ AcknowledgeRemotePIN = "IncorrectPIN"
    /\ (pinIncorrectCount + 1) % 256 >= 3
    /\ EnterLock("IncorrectPIN3xLock60s")
    /\ pinIncorrectCount' = 2

CountFailure ==
    /\ AcknowledgeRemotePIN \notin Locks
    /\ \/ /\ AcknowledgeRemotePIN # "IncorrectPIN"
          /\ pinIncorrectCount' = (pinIncorrectCount + 1) % 256
       \/ /\ AcknowledgeRemotePIN = "IncorrectPIN"
          /\ (pinIncorrectCount + 1) % 256 < 3
          /\ pinIncorrectCount' = (pinIncorrectCount + 2) % 256
    /\ AcknowledgeRemotePIN' = "IncorrectPIN"
    /\ pinEntryLockoutTime' = LockoutTimeAfterCheck
    /\ UNCHANGED pinLockoutLimit

RejectPin == RaiseLock \/ LockOnThird \/ CountFailure

AcceptPin_KeepsCount ==
    /\ AcknowledgeRemotePIN' = "CorrectPIN"
    /\ pinEntryLockoutTime' = LockoutTimeAfterCheck
    /\ UNCHANGED <<pinLockoutLimit, pinIncorrectCount>>
AcceptPin ==
    /\ AcknowledgeRemotePIN' = "CorrectPIN"
    /\ pinIncorrectCount' = 0
    /\ pinEntryLockoutTime' = LockoutTimeAfterCheck
    /\ UNCHANGED pinLockoutLimit

-----------------------------------------------------------------------------
(* setInControlRemotePin, and RemoteDeviceHandler::setRemoteControlPIN_,    *)
(* which does not pass NotSet on before the first verdict.                  *)

NoPinStored ==
    /\ pinStoredInVDC = NotSet
    /\ AcknowledgeRemotePIN' = "NotSetInDCM"
    /\ UNCHANGED <<InControlRemotePIN, pinEntryLockoutTime, pinLockoutLimit, pinIncorrectCount>>

ResetsAuthorisation(pin) == pin = NotSet /\ AcknowledgeRemotePIN = "CorrectPIN"

ExpirePin ==
    /\ AcknowledgeRemotePIN' = "ExpiredPIN"
    /\ UNCHANGED <<InControlRemotePIN, pinEntryLockoutTime, pinLockoutLimit, pinIncorrectCount>>

TakeUpPin(pin) ==
    /\ InControlRemotePIN' = pin
    /\ \/ /\ LockoutRunning
          /\ UNCHANGED <<AcknowledgeRemotePIN, pinEntryLockoutTime, pinLockoutLimit, pinIncorrectCount>>
       \/ /\ ~LockoutRunning
          /\ pin # pinStoredInVDC
          /\ RejectPin
       \/ /\ ~LockoutRunning
          /\ pin = pinStoredInVDC
          /\ AcceptPin

setInControlRemotePin(pin) ==
    \/ NoPinStored
    \/ pinStoredInVDC # NotSet /\ ResetsAuthorisation(pin) /\ ExpirePin
    \/ pinStoredInVDC # NotSet /\ ~ResetsAuthorisation(pin) /\ TakeUpPin(pin)

setRemoteControlPIN(pin) ==
    \/ /\ pin = NotSet /\ AcknowledgeRemotePIN = "None"
       /\ UNCHANGED pinVars
    \/ /\ ~(pin = NotSet /\ AcknowledgeRemotePIN = "None")
       /\ setInControlRemotePin(pin)

-----------------------------------------------------------------------------
(* The session thread.  send_pin calls setRemoteControlPIN_ once and, while *)
(* the verdict is None or ExpiredPIN, again every ASP_REFRESH_RATE; until   *)
(* that loop ends the thread neither answers nor reads another message.     *)

Init ==
    /\ now = 1
    /\ isClientConnected = FALSE
    /\ pendingPin = NoRequest
    /\ AcknowledgeRemotePIN = "None"
    /\ InControlRemotePIN = NotSet
    /\ pinStoredInVDC \in VdcPins
    /\ pinEntryLockoutTime = 0
    /\ pinLockoutLimit = 0
    /\ pinIncorrectCount = 0

Connect ==
    /\ ~isClientConnected
    /\ isClientConnected' = TRUE
    /\ UNCHANGED <<now, pendingPin, pinStoredInVDC, pinVars>>

Unsettled == AcknowledgeRemotePIN \in {"None", "ExpiredPIN"}

PassPin(pin) ==
    /\ setRemoteControlPIN(pin)
    /\ pendingPin' = IF Unsettled' THEN pin ELSE NoRequest
    /\ UNCHANGED <<now, isClientConnected, pinStoredInVDC>>

SendPin ==
    /\ isClientConnected
    /\ pendingPin = NoRequest
    /\ \E pin \in AnyPin : PassPin(pin)

RepeatPin ==
    /\ pendingPin # NoRequest
    /\ PassPin(pendingPin)

Disconnect ==
    /\ isClientConnected
    /\ pendingPin = NoRequest
    /\ isClientConnected' = FALSE
    /\ setRemoteControlPIN(NotSet)
    /\ UNCHANGED <<now, pendingPin, pinStoredInVDC>>

Tick ==
    /\ now < MaxTime
    /\ now' = now + 1
    /\ UNCHANGED <<isClientConnected, pendingPin, pinStoredInVDC, pinVars>>

Next == Connect \/ SendPin \/ RepeatPin \/ Disconnect \/ Tick

Spec == Init /\ [][Next]_vars

\* The session thread keeps running its loop; nothing is assumed of clients.
FairSpec == Spec /\ WF_vars(RepeatPin)

-----------------------------------------------------------------------------
(* Properties.                                                              *)

TypeOK ==
    /\ now \in Nat \ {0}
    /\ isClientConnected \in BOOLEAN
    /\ pendingPin \in AnyPin \cup {NoRequest}
    /\ AcknowledgeRemotePIN \in Verdicts
    /\ InControlRemotePIN \in AnyPin
    /\ pinStoredInVDC \in AnyPin
    /\ pinEntryLockoutTime \in 0..now
    /\ pinLockoutLimit \in 0..TimerWrap - 1
    /\ pinIncorrectCount \in 0..255

\* A lockout verdict always stands beside the timer and the limit that enforce
\* it; a timer still set under another verdict is what is left of the
\* indefinite lockout.  (Each is assigned in a branch of its own, over several
\* calls, and the early returns skip some of them.)
TimerMatchesVerdict ==
    /\ AcknowledgeRemotePIN \in Locks =>
          /\ pinEntryLockoutTime # 0
          /\ pinLockoutLimit = LimitOf(AcknowledgeRemotePIN)
    /\ AcknowledgeRemotePIN \notin Locks /\ pinEntryLockoutTime # 0 =>
          /\ AcknowledgeRemotePIN \in {"CorrectPIN", "ExpiredPIN"}
          /\ pinLockoutLimit = LockForever

\* The counter, which one case increments twice by falling through, agrees with
\* the verdict: 1 and 3 after one and two failures, 2 in a lockout, 0 otherwise.
CounterMatchesVerdict ==
    /\ AcknowledgeRemotePIN = "IncorrectPIN" => pinIncorrectCount \in {1, 3}
    /\ AcknowledgeRemotePIN \in Locks => pinIncorrectCount = 2
    /\ AcknowledgeRemotePIN \notin Locks \cup {"IncorrectPIN"} => pinIncorrectCount = 0

\* "Correct PIN" is the verdict on the PIN that was passed last, not on an
\* earlier one (unless the indefinite lockout left its timer behind), and never
\* the verdict of a vehicle that has no PIN.
CorrectPinWasPassedLast ==
    /\ AcknowledgeRemotePIN = "CorrectPIN" /\ pinEntryLockoutTime = 0 =>
          InControlRemotePIN = pinStoredInVDC
    /\ pinStoredInVDC = NotSet => AcknowledgeRemotePIN \in {"None", "NotSetInDCM"}

LockoutInForce ==
    /\ AcknowledgeRemotePIN \in TimedLocks
    /\ now - pinEntryLockoutTime <= LimitOf(AcknowledgeRemotePIN)
LockoutOver ==
    /\ AcknowledgeRemotePIN \in TimedLocks
    /\ now - pinEntryLockoutTime > LimitOf(AcknowledgeRemotePIN)
PinPassed == SendPin \/ Disconnect

\* While a timed lockout runs no call changes the verdict, the timer or the
\* counter: neither a wrong nor the right PIN, nor the client's disconnection.
LockoutHeld ==
    [][LockoutInForce => UNCHANGED <<AcknowledgeRemotePIN, pinEntryLockoutTime,
                                     pinLockoutLimit, pinIncorrectCount>>]_vars

\* Once its time is over, a timed lockout gives way to the next PIN passed, as
\* long as the 32-bit difference of the times has not wrapped.
LockoutReleases ==
    [][LockoutOver /\ now - pinEntryLockoutTime < TimerWrap /\ PinPassed
       => AcknowledgeRemotePIN' # AcknowledgeRemotePIN]_vars

\* PIN validation implements the ladder of PinLadder.tla: a lock only on the
\* third failure in a row, one rung at a time, and back to the start only on
\* the right PIN.
Failures ==
    CASE AcknowledgeRemotePIN = "IncorrectPIN" -> IF pinIncorrectCount = 1 THEN 1 ELSE 2
      [] AcknowledgeRemotePIN = "IncorrectPIN3xLock60s" -> 3
      [] AcknowledgeRemotePIN = "IncorrectPIN3xLock300s" -> 4
      [] AcknowledgeRemotePIN = "IncorrectPIN3xLock3600s" -> 5
      [] AcknowledgeRemotePIN = "IncorrectPIN3xLockIndefinite" -> 6
      [] OTHER -> 0

LockedUntil ==
    IF AcknowledgeRemotePIN \in TimedLocks THEN pinEntryLockoutTime + pinLockoutLimit ELSE 0

Ladder == INSTANCE PinLadder WITH
    failures <- Failures,
    authorised <- (AcknowledgeRemotePIN = "CorrectPIN"),
    lockedUntil <- LockedUntil

ImplementsLadder == Ladder!LadderSpec

\* send_pin repeats its call in vain for two reasons and no other: it was given
\* NotSet before the first verdict, or the verdict has expired beside the timer
\* that the indefinite lockout left running.  No other way out of a lockout, an
\* authorisation or a session leaves a verdict on which the handler hangs.
RepeatsInVain ==
    [][RepeatPin /\ Unsettled' =>
         \/ pendingPin = NotSet /\ AcknowledgeRemotePIN = "None"
         \/ /\ AcknowledgeRemotePIN = "ExpiredPIN"
            /\ pinEntryLockoutTime # 0 /\ pinLockoutLimit = LockForever]_vars

-----------------------------------------------------------------------------
(* What is documented and does not hold of the code.                        *)

\* The API answers every send_pin with a vehicle_status.  The handler loops for
\* ever on NotSet before the first verdict, and after the indefinite lockout was
\* left and the session ended.
EverySendPinAnswered == (pendingPin # NoRequest) ~> (pendingPin = NoRequest)
==============================================================================
