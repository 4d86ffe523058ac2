-------------------------- MODULE AuthorisationProofs --------------------------
(***************************************************************************)
(* Theorems about what the TCM asks of a client before the vehicle drives: *)
(* the right PIN (PinAuth), for every set of PINs, every choice of the     *)
(* three limits and of the timer's range, and however long the clock runs; *)
(* and the key fob within range (FobRanging), for every two rates the      *)
(* first of which is the shorter one.                                      *)
(***************************************************************************)
EXTENDS PinAuth, FobRanging, TLAPS

(* The PIN.                                                                 *)

\* The invariant the theorems rest on.  The type alone is not enough: that a
\* lockout is held needs the timer and its limit to match the verdict, and the
\* rung a failure leads to needs the counter to.
PinInv == TypeOK /\ TimerMatchesVerdict /\ CounterMatchesVerdict /\ CorrectPinWasPassedLast

USE DEF PinAssumption, TimerAssumption, AnyPin, LockForever, TimedLocks, Locks, Verdicts

-----------------------------------------------------------------------------
\* A failure leads from a lockout to one of the locks, and each lock's limit is
\* a value an unsigned int can hold.
LEMMA LimitIsUnsigned == ASSUME NEW lock \in Locks
                         PROVE  LimitOf(lock) \in 1..TimerWrap - 1
  BY TimerAssumption DEF LimitOf

LEMMA NextIsLock == ASSUME NEW lock \in Locks
                    PROVE  NextLock(lock) \in Locks
  BY DEF NextLock

LEMMA InitInv == Init => PinInv
<1> SUFFICES ASSUME Init PROVE PinInv
  OBVIOUS
<1> USE DEF Init
<1>1. TypeOK
  <2>1. isClientConnected \in BOOLEAN
    OBVIOUS
  <2>2. pinStoredInVDC \in AnyPin
    BY PinAssumption
  <2>3. pinLockoutLimit \in 0..TimerWrap - 1
    BY TimerAssumption
  <2>4. QED BY <2>1, <2>2, <2>3 DEF TypeOK
<1>2. TimerMatchesVerdict
  BY DEF TimerMatchesVerdict
<1>3. CounterMatchesVerdict /\ CorrectPinWasPassedLast
  BY DEF CounterMatchesVerdict, CorrectPinWasPassedLast
<1>4. QED BY <1>1, <1>2, <1>3 DEF PinInv

\* One call of setRemoteControlPIN_ preserves the invariant, whatever PIN it is
\* given and whoever calls it.
LEMMA CallInv ==
  ASSUME PinInv, NEW pin \in AnyPin, setRemoteControlPIN(pin),
         now' = now, pinStoredInVDC' = pinStoredInVDC,
         isClientConnected' \in BOOLEAN, pendingPin' \in AnyPin \cup {NoRequest}
  PROVE  PinInv'
<1> USE DEF PinInv, TypeOK, TimerMatchesVerdict, CounterMatchesVerdict, CorrectPinWasPassedLast
<1>1. CASE UNCHANGED pinVars
  BY <1>1 DEF pinVars
<1>2. CASE NoPinStored
  BY <1>2 DEF NoPinStored
<1>3. CASE ResetsAuthorisation(pin) /\ ExpirePin
  BY <1>3 DEF ResetsAuthorisation, ExpirePin
<1>4. CASE pinStoredInVDC # NotSet /\ ~ResetsAuthorisation(pin) /\ TakeUpPin(pin)
  <2>1. CASE LockoutRunning /\ InControlRemotePIN' = pin
             /\ UNCHANGED <<AcknowledgeRemotePIN, pinEntryLockoutTime, pinLockoutLimit, pinIncorrectCount>>
    BY <2>1 DEF LockoutRunning
  <2>2. CASE ~LockoutRunning /\ pin # pinStoredInVDC /\ RejectPin /\ InControlRemotePIN' = pin
    <3>1. CASE RaiseLock
      BY <1>4, <2>2, <3>1, LimitIsUnsigned, NextIsLock, TimerAssumption DEF RaiseLock, EnterLock
    <3>2. CASE LockOnThird
      BY <1>4, <2>2, <3>2, LimitIsUnsigned, TimerAssumption DEF LockOnThird, EnterLock
    <3>3. CASE CountFailure
      BY <1>4, <2>2, <3>3 DEF CountFailure, LockoutTimeAfterCheck
    <3>4. QED BY <2>2, <3>1, <3>2, <3>3 DEF RejectPin
  <2>3. CASE ~LockoutRunning /\ pin = pinStoredInVDC /\ AcceptPin /\ InControlRemotePIN' = pin
    BY <1>4, <2>3, TimerAssumption DEF AcceptPin, LockoutTimeAfterCheck, LimitOf
  <2>4. QED BY <1>4, <2>1, <2>2, <2>3 DEF TakeUpPin
<1>5. QED BY <1>1, <1>2, <1>3, <1>4 DEF setRemoteControlPIN, setInControlRemotePin

LEMMA NextInv == PinInv /\ [Next]_vars => PinInv'
<1> SUFFICES ASSUME PinInv, [Next]_vars PROVE PinInv'
  OBVIOUS
<1>1. CASE Connect
  BY <1>1 DEF Connect, pinVars, PinInv, TypeOK, TimerMatchesVerdict, CounterMatchesVerdict,
              CorrectPinWasPassedLast
<1>2. CASE SendPin
  <2>1. PICK pin \in AnyPin : PassPin(pin)
    BY <1>2 DEF SendPin
  <2>2. pendingPin' \in AnyPin \cup {NoRequest} /\ isClientConnected' \in BOOLEAN
    BY <2>1 DEF PassPin, PinInv, TypeOK
  <2>3. QED BY <2>1, <2>2, CallInv DEF PassPin
<1>3. CASE RepeatPin
  <2>1. pendingPin \in AnyPin
    BY <1>3 DEF RepeatPin, PinInv, TypeOK
  <2>2. pendingPin' \in AnyPin \cup {NoRequest} /\ isClientConnected' \in BOOLEAN
    BY <1>3, <2>1 DEF RepeatPin, PassPin, PinInv, TypeOK
  <2>3. QED BY <1>3, <2>1, <2>2, CallInv DEF RepeatPin, PassPin
<1>4. CASE Disconnect
  <2>1. NotSet \in AnyPin /\ pendingPin' \in AnyPin \cup {NoRequest}
    BY <1>4 DEF Disconnect, PinInv, TypeOK
  <2>2. QED BY <1>4, <2>1, CallInv DEF Disconnect
<1>5. CASE Tick
  BY <1>5 DEF Tick, pinVars, PinInv, TypeOK, TimerMatchesVerdict, CounterMatchesVerdict,
              CorrectPinWasPassedLast
<1>6. CASE UNCHANGED vars
  BY <1>6 DEF vars, pinVars, PinInv, TypeOK, TimerMatchesVerdict, CounterMatchesVerdict,
              CorrectPinWasPassedLast
<1>7. QED BY <1>1, <1>2, <1>3, <1>4, <1>5, <1>6 DEF Next

\* Every behaviour keeps the verdict, the timer and the counter in agreement.
THEOREM PinInvariant == Spec => []PinInv
  BY InitInv, NextInv, PTL DEF Spec

\* In every state the verdict's timer, limit and counter are those its rung calls
\* for; the parts of the invariant that the runs check.
THEOREM PinTypeCorrect == Spec => []TypeOK
  BY PinInvariant, PTL DEF PinInv

THEOREM TimerCorrect == Spec => []TimerMatchesVerdict
  BY PinInvariant, PTL DEF PinInv

THEOREM CounterCorrect == Spec => []CounterMatchesVerdict
  BY PinInvariant, PTL DEF PinInv

\* "Correct PIN" never outlives the PIN it was given for.
THEOREM CorrectPinCorrect == Spec => []CorrectPinWasPassedLast
  BY PinInvariant, PTL DEF PinInv

-----------------------------------------------------------------------------
\* What a remainder is, for the wrapping timer.
LEMMA RemainderBelow == ASSUME NEW a \in Nat, NEW w \in Nat, a < w
                        PROVE  a % w = a
  OBVIOUS

LEMMA RemainderAtMost == ASSUME NEW a \in Nat, NEW w \in Nat, w > 0
                         PROVE  a % w <= a
  OBVIOUS

\* Within a timed lockout the 32-bit difference of the times is the true one, so
\* that the guard of the comparison holds.
LEMMA InForceIsRunning == ASSUME PinInv, LockoutInForce
                          PROVE  LockoutRunning /\ pinStoredInVDC # NotSet
<1> DEFINE age == now - pinEntryLockoutTime
<1>1. age \in Nat /\ age <= pinLockoutLimit /\ pinLockoutLimit \in Nat /\ age < TimerWrap
  BY TimerAssumption DEF PinInv, TypeOK, TimerMatchesVerdict, LockoutInForce
<1>2. age % TimerWrap = age
  <2> HIDE DEF age
  <2>1. QED BY <1>1, RemainderBelow, TimerAssumption
<1>3. ~checkTimeout
  BY <1>1, <1>2 DEF checkTimeout, diffTimeval
<1>4. QED
  BY <1>3 DEF LockoutRunning, LockoutInForce, PinInv, TimerMatchesVerdict, CorrectPinWasPassedLast

LEMMA HeldByCall ==
  ASSUME PinInv, LockoutInForce, NEW pin \in AnyPin, setRemoteControlPIN(pin)
  PROVE  UNCHANGED <<AcknowledgeRemotePIN, pinEntryLockoutTime, pinLockoutLimit, pinIncorrectCount>>
<1>1. LockoutRunning /\ pinStoredInVDC # NotSet /\ AcknowledgeRemotePIN \in TimedLocks
  BY InForceIsRunning DEF LockoutInForce
<1>2. ~NoPinStored /\ ~ResetsAuthorisation(pin)
  BY <1>1 DEF NoPinStored, ResetsAuthorisation
<1>3. QED
  BY <1>1, <1>2 DEF setRemoteControlPIN, setInControlRemotePin, TakeUpPin, pinVars

LEMMA HeldByStep ==
  PinInv /\ [Next]_vars =>
    [LockoutInForce => UNCHANGED <<AcknowledgeRemotePIN, pinEntryLockoutTime,
                                   pinLockoutLimit, pinIncorrectCount>>]_vars
<1> SUFFICES ASSUME PinInv, [Next]_vars, LockoutInForce
             PROVE  UNCHANGED <<AcknowledgeRemotePIN, pinEntryLockoutTime,
                                pinLockoutLimit, pinIncorrectCount>>
  OBVIOUS
<1>1. CASE Connect \/ Tick \/ UNCHANGED vars
  BY <1>1 DEF Connect, Tick, vars, pinVars
<1>2. CASE SendPin
  BY <1>2, HeldByCall DEF SendPin, PassPin
<1>3. CASE RepeatPin
  BY <1>3, HeldByCall DEF RepeatPin, PassPin, PinInv, TypeOK
<1>4. CASE Disconnect
  BY <1>4, HeldByCall DEF Disconnect
<1>5. QED BY <1>1, <1>2, <1>3, <1>4 DEF Next

\* No call changes anything while a timed lockout runs, whatever the limits and
\* the width of the timer.
THEOREM LockoutIsHeld == Spec => LockoutHeld
  BY PinInvariant, HeldByStep, PTL DEF Spec, LockoutHeld

\* A timed lockout whose time is over is not held, up to the wrap of the timer.
LEMMA OverIsNotRunning == ASSUME PinInv, LockoutOver, now - pinEntryLockoutTime < TimerWrap
                          PROVE  ~LockoutRunning /\ pinStoredInVDC # NotSet
<1> DEFINE age == now - pinEntryLockoutTime
<1>1. age \in Nat /\ age > pinLockoutLimit /\ age < TimerWrap
  BY TimerAssumption DEF PinInv, TypeOK, TimerMatchesVerdict, LockoutOver
<1>2. age % TimerWrap = age
  <2> HIDE DEF age
  <2>1. QED BY <1>1, RemainderBelow, TimerAssumption
<1>3. checkTimeout
  BY <1>1, <1>2 DEF checkTimeout, diffTimeval
<1>4. QED
  BY <1>3 DEF LockoutRunning, LockoutOver, PinInv, CorrectPinWasPassedLast

\* Each way on from there leads to another verdict: the next rung or CorrectPIN.
LEMMA ReleasedByCall ==
  ASSUME PinInv, LockoutOver, now - pinEntryLockoutTime < TimerWrap,
         NEW pin \in AnyPin, setRemoteControlPIN(pin)
  PROVE  AcknowledgeRemotePIN' # AcknowledgeRemotePIN
<1>1. ~LockoutRunning /\ pinStoredInVDC # NotSet /\ AcknowledgeRemotePIN \in TimedLocks
  BY OverIsNotRunning DEF LockoutOver
<1>2. TakeUpPin(pin)
  BY <1>1 DEF setRemoteControlPIN, setInControlRemotePin, NoPinStored, ResetsAuthorisation
<1>3. RejectPin \/ AcceptPin
  BY <1>1, <1>2 DEF TakeUpPin
<1>4. CASE AcceptPin
  BY <1>1, <1>4 DEF AcceptPin
<1>5. CASE RejectPin
  <2>1. AcknowledgeRemotePIN' = NextLock(AcknowledgeRemotePIN)
    BY <1>1, <1>5 DEF RejectPin, RaiseLock, EnterLock, LockOnThird, CountFailure
  <2>2. NextLock(AcknowledgeRemotePIN) # AcknowledgeRemotePIN
    BY <1>1 DEF NextLock
  <2>3. QED BY <2>1, <2>2
<1>6. QED BY <1>3, <1>4, <1>5

\* Once its time is over, a timed lockout gives way to the next PIN passed, for
\* every length of the lockouts and as long as the timer has not wrapped.
THEOREM LockoutIsReleased == Spec => LockoutReleases
<1>1. PinInv /\ [Next]_vars =>
        [LockoutOver /\ now - pinEntryLockoutTime < TimerWrap /\ PinPassed
           => AcknowledgeRemotePIN' # AcknowledgeRemotePIN]_vars
  BY ReleasedByCall DEF PinPassed, SendPin, PassPin, Disconnect
<1>2. QED
  BY <1>1, PinInvariant, PTL DEF Spec, LockoutReleases

-----------------------------------------------------------------------------
\* A send_pin that is under way has left the verdict unsettled.
LEMMA PendingUnsettled == Spec => [](pendingPin # NoRequest => Unsettled)
<1>1. Init => (pendingPin # NoRequest => Unsettled)
  BY DEF Init
<1>2. (pendingPin # NoRequest => Unsettled) /\ [Next]_vars => (pendingPin # NoRequest => Unsettled)'
  BY DEF Next, vars, pinVars, Unsettled, Connect, SendPin, RepeatPin, PassPin, Disconnect, Tick
<1>3. QED
  BY <1>1, <1>2, PTL DEF Spec

\* Once no lockout runs a call settles the verdict.
LEMMA ComparedIsSettled ==
  ASSUME PinInv, NEW pin, TakeUpPin(pin), ~LockoutRunning PROVE ~Unsettled'
<1>1. CASE RejectPin
  BY <1>1, NextIsLock DEF RejectPin, RaiseLock, LockOnThird, CountFailure, EnterLock, Unsettled
<1>2. CASE AcceptPin
  BY <1>2 DEF AcceptPin, Unsettled
<1>3. QED BY <1>1, <1>2 DEF TakeUpPin

\* send_pin hangs only on NotSet before the first verdict and on the timer that
\* the indefinite lockout left behind, for every length of the lockouts.
THEOREM HangsOnly == Spec => RepeatsInVain
<1> DEFINE InVain ==
      \/ pendingPin = NotSet /\ AcknowledgeRemotePIN = "None"
      \/ /\ AcknowledgeRemotePIN = "ExpiredPIN"
         /\ pinEntryLockoutTime # 0 /\ pinLockoutLimit = LockForever
<1>1. ASSUME PinInv, pendingPin # NoRequest => Unsettled, RepeatPin, Unsettled'
      PROVE  InVain
  <2>1. setRemoteControlPIN(pendingPin) /\ Unsettled /\ pendingPin \in AnyPin
    BY <1>1 DEF RepeatPin, PassPin, PinInv, TypeOK
  <2>2. CASE pendingPin = NotSet /\ AcknowledgeRemotePIN = "None"
    BY <2>2
  <2>3. CASE setInControlRemotePin(pendingPin)
    <3>1. TakeUpPin(pendingPin)
      BY <1>1, <2>1, <2>3 DEF setInControlRemotePin, NoPinStored, ResetsAuthorisation, Unsettled
    <3>2. LockoutRunning
      BY <1>1, <3>1, ComparedIsSettled
    <3>3. QED
      BY <1>1, <2>1, <3>2 DEF LockoutRunning, PinInv, TimerMatchesVerdict, Unsettled
  <2>4. QED
    BY <2>1, <2>2, <2>3 DEF setRemoteControlPIN
<1>2. PinInv /\ (pendingPin # NoRequest => Unsettled) /\ [Next]_vars
        => [RepeatPin /\ Unsettled' => InVain]_vars
  BY <1>1
<1>3. QED
  BY <1>2, PinInvariant, PendingUnsettled, PTL DEF Spec, RepeatsInVain

-----------------------------------------------------------------------------
\* PinAuth implements PinLadder: each step is one of the ladder's, or a stutter.
USE DEF Failures, LockedUntil

LEMMA LadderInitially == Init => Ladder!LadderInit
  BY DEF Init, Ladder!LadderInit

\* Once no lockout runs, the ladder does not hold either.
LEMMA NotHeldWhenWeighed ==
  ASSUME PinInv, ~LockoutRunning PROVE Ladder!NotHeld
<1>1. CASE AcknowledgeRemotePIN \in TimedLocks
  <2> DEFINE age == now - pinEntryLockoutTime
  <2>1. age \in Nat /\ pinLockoutLimit \in Nat /\ age % TimerWrap > pinLockoutLimit
    BY <1>1 DEF PinInv, TypeOK, TimerMatchesVerdict, LockoutRunning, checkTimeout, diffTimeval
  <2>2. age % TimerWrap <= age
    <3> HIDE DEF age
    <3>1. QED BY <2>1, RemainderAtMost, TimerAssumption
  <2>3. age > pinLockoutLimit
    <3> HIDE DEF age
    <3>1. age % TimerWrap \in Nat
      BY <2>1, TimerAssumption
    <3>2. QED BY <2>1, <2>2, <3>1
  <2>4. QED
    BY <1>1, <2>3 DEF Ladder!NotHeld, PinInv, TypeOK
<1>2. CASE AcknowledgeRemotePIN \notin TimedLocks
  BY <1>2 DEF Ladder!NotHeld, PinInv, TypeOK
<1>3. QED BY <1>1, <1>2

LEMMA LadderCall ==
  ASSUME PinInv, PinInv', NEW pin \in AnyPin, setRemoteControlPIN(pin), now' = now
  PROVE  [Ladder!LadderNext]_(Ladder!ladderVars)
<1> USE DEF PinInv, TypeOK, TimerMatchesVerdict, CounterMatchesVerdict, CorrectPinWasPassedLast
<1>1. CASE UNCHANGED pinVars
  BY <1>1 DEF pinVars, Ladder!ladderVars
<1>2. CASE NoPinStored
  BY <1>2 DEF NoPinStored, Ladder!ladderVars
<1>3. CASE ResetsAuthorisation(pin) /\ ExpirePin
  BY <1>3 DEF ResetsAuthorisation, ExpirePin, Ladder!LadderNext, Ladder!Expire
<1>4. CASE pinStoredInVDC # NotSet /\ ~ResetsAuthorisation(pin) /\ TakeUpPin(pin)
  <2>1. CASE LockoutRunning /\ UNCHANGED <<AcknowledgeRemotePIN, pinEntryLockoutTime, pinLockoutLimit, pinIncorrectCount>>
    BY <2>1 DEF Ladder!ladderVars
  <2>2. CASE ~LockoutRunning /\ RejectPin
    <3>1. Ladder!NotHeld
      BY <2>2, NotHeldWhenWeighed
    <3>2. CASE RaiseLock
      BY <3>1, <3>2, LimitIsUnsigned DEF RaiseLock, EnterLock, NextLock, LimitOf, Ladder!LadderNext, Ladder!Reject, Ladder!HoldOf
    <3>3. CASE LockOnThird
      BY <3>1, <3>3 DEF LockOnThird, EnterLock, LimitOf, Ladder!LadderNext, Ladder!Reject, Ladder!HoldOf
    <3>4. CASE CountFailure
      BY <3>1, <3>4 DEF CountFailure, Ladder!LadderNext, Ladder!Reject
    <3>5. QED BY <2>2, <3>2, <3>3, <3>4 DEF RejectPin
  <2>3. CASE ~LockoutRunning /\ AcceptPin
    <3>1. Ladder!NotHeld
      BY <2>3, NotHeldWhenWeighed
    <3>2. QED BY <2>3, <3>1 DEF AcceptPin, Ladder!LadderNext, Ladder!Accept
  <2>4. QED BY <1>4, <2>1, <2>2, <2>3 DEF TakeUpPin
<1>5. QED BY <1>1, <1>2, <1>3, <1>4 DEF setRemoteControlPIN, setInControlRemotePin

LEMMA LadderStep ==
  PinInv /\ PinInv' /\ [Next]_vars => [Ladder!LadderNext]_(Ladder!ladderVars)
<1> SUFFICES ASSUME PinInv, PinInv', [Next]_vars
             PROVE  [Ladder!LadderNext]_(Ladder!ladderVars)
  OBVIOUS
<1>1. CASE Connect \/ UNCHANGED vars
  BY <1>1 DEF Connect, vars, pinVars, Ladder!ladderVars
<1>2. CASE Tick
  BY <1>2 DEF Tick, pinVars, Ladder!LadderNext, Ladder!LadderTick
<1>3. CASE SendPin
  BY <1>3, LadderCall DEF SendPin, PassPin
<1>4. CASE RepeatPin
  BY <1>4, LadderCall DEF RepeatPin, PassPin, PinInv, TypeOK
<1>5. CASE Disconnect
  BY <1>5, LadderCall DEF Disconnect
<1>6. QED BY <1>1, <1>2, <1>3, <1>4, <1>5 DEF Next

\* A lock comes only with the third failure in a row, each further failure raises
\* it by one rung, and only the right PIN leads back to the start.
THEOREM LadderImplemented == Spec => ImplementsLadder
<1>1. Init => Ladder!LadderInit
  BY LadderInitially
<1>2. QED
  BY <1>1, PinInvariant, LadderStep, PTL DEF Spec, ImplementsLadder, Ladder!LadderSpec

HIDE DEF PinAssumption, TimerAssumption, AnyPin, LockForever, TimedLocks, Locks, Verdicts,
         Failures, LockedUntil

-----------------------------------------------------------------------------
(* Key fob ranging.                                                         *)

Going == {"testRate", "testFirst", "testSecond", "deadmanRate", "defaultRate", "request"}

\* A device is approved only while the session serves its client, and all the
\* while there is a rate; the approval's clocks stand still without it.
ApprovalInv ==
    /\ ConnectionApproval = "AllowedDevice" => session \in {"serve", "withdraw"}
    /\ session \in {"serve", "withdraw"} => rangingRequestRate # "None"
    /\ ConnectionApproval # "AllowedDevice" => quiet = 0 /\ underway = 0

\* A round past the test of the approval was begun for an approved device, so
\* it makes the first request after a withdrawal, and the last.
LateInv ==
    /\ ConnectionApproval = "AllowedDevice" \/ ranging \in Going => lateRequests = 0
    /\ lateRequests <= 1

\* No request is further than one DefaultRate period away.
QuietInv ==
    /\ wake # 0 => ranging = "asleep"
    /\ quiet + wake <= DefaultTicks

\* The two reads of the status miss a maneuver only if it has just begun.
UnderwayInv ==
    /\ ManeuverStatus \notin UnderWay => underway = 0
    /\ ranging = "testSecond" /\ ManeuverStatus = "Confirming" => underway = 0
    /\ ranging = "defaultRate" => underway = 0
    /\ ranging = "request" /\ rangingRequestRate # "DeadmanRate" => underway = 0
    /\ rangingRequestRate # "DeadmanRate" => underway + wake <= DefaultTicks

FobInv == FobTypeOK /\ ApprovalInv /\ LateInv /\ QuietInv /\ UnderwayInv

USE DEF RateAssumption, Approvals, Rates, Statuses, UnderWay, Going

-----------------------------------------------------------------------------
LEMMA FobInitInv == FobInit => FobInv
<1> SUFFICES ASSUME FobInit PROVE FobInv
  OBVIOUS
<1> USE RateAssumption DEF FobInit
<1>1. FobTypeOK
  <2>1. 0 \in 0..DefaultTicks /\ 0 \in 0..DefaultTicks + 1 /\ 0 \in 0..2
    OBVIOUS
  <2>2. QED
    BY <2>1 DEF FobTypeOK
<1>2. ApprovalInv /\ LateInv
  BY DEF ApprovalInv, LateInv
<1>3. QuietInv /\ UnderwayInv
  BY DEF QuietInv, UnderwayInv
<1>4. QED
  BY <1>1, <1>2, <1>3 DEF FobInv

\* Every rate sleeps for at most a DefaultRate period, None not at all.
LEMMA SleepBound ==
  ASSUME NEW rate \in Rates
  PROVE  /\ SleepOf(rate) \in 0..DefaultTicks
         /\ rate = "None" => SleepOf(rate) = 0
  BY RateAssumption DEF SleepOf

\* The session thread: an approval always comes with a rate, and withdrawing it
\* stops the clocks.
LEMMA FobSessionInv == FobInv /\ Session => FobInv'
<1> SUFFICES ASSUME FobInv, Session PROVE FobInv'
  OBVIOUS
<1> USE RateAssumption DEF FobInv, FobTypeOK, ApprovalInv, LateInv, QuietInv, UnderwayInv,
        SessionStep, SetApproval, SetRate, signalVars, rangingVars, history
<1>1. CASE ConnectClient
  BY <1>1 DEF ConnectClient
<1>2. CASE NotYetAllowed
  BY <1>2 DEF NotYetAllowed
<1>3. CASE StartRanging
  BY <1>3 DEF StartRanging
<1>4. CASE MobileInit
  BY <1>4 DEF MobileInit
<1>5. CASE LoseClient
  BY <1>5 DEF LoseClient
<1>6. CASE Withdraw
  BY <1>6 DEF Withdraw
<1>7. CASE StopRanging
  BY <1>7 DEF StopRanging
<1>8. CASE DisconnectClient
  BY <1>8 DEF DisconnectClient
<1>9. QED
  BY <1>1, <1>2, <1>3, <1>4, <1>5, <1>6, <1>7, <1>8 DEF Session

\* The signal loop: a maneuver that comes or goes starts its clock anew.
LEMMA FobExchangeInv == FobInv /\ (BeginExchange \/ EndExchange) => FobInv'
<1> SUFFICES ASSUME FobInv, BeginExchange \/ EndExchange PROVE FobInv'
  OBVIOUS
<1> USE RateAssumption DEF FobInv, FobTypeOK, ApprovalInv, LateInv, QuietInv, UnderwayInv,
        sessionVars, rangingVars, history
<1>1. CASE BeginExchange
  BY <1>1 DEF BeginExchange
<1>2. CASE EndExchange
  <2> DEFINE status == ManeuverStatus'
  <2>1. /\ status \in Statuses
        /\ ~(ManeuverStatus = "Maneuvering" /\ status = "Confirming")
        /\ underway' = IF status \in UnderWay THEN underway ELSE 0
    BY <1>2 DEF EndExchange
  <2>2. UNCHANGED <<session, ConnectionApproval, rangingRequestRate, ranging, wake,
                    lateRequests, quiet>> /\ exchange' = FALSE
    BY <1>2 DEF EndExchange
  <2>3. underway' \in {underway, 0} /\ underway' \in 0..DefaultTicks + 1
    BY <2>1
  <2>4. FobTypeOK' /\ ApprovalInv' /\ LateInv' /\ QuietInv'
    BY <2>1, <2>2, <2>3
  <2>5. UnderwayInv'
    BY <2>1, <2>2, <2>3
  <2>6. QED
    BY <2>4, <2>5
<1>3. QED
  BY <1>1, <1>2

\* The ranging thread: a round begun for an approved device makes one request.
LEMMA FobRangingInv == FobInv /\ Ranging => FobInv'
<1> SUFFICES ASSUME FobInv, Ranging PROVE FobInv'
  OBVIOUS
<1> USE RateAssumption DEF FobInv, FobTypeOK, ApprovalInv, LateInv, QuietInv, UnderwayInv,
        RangingStep, Sleep, Silent, sessionVars, signalVars, history
<1>1. CASE TestApproval
  BY <1>1 DEF TestApproval
<1>2. CASE TestRate
  BY <1>2 DEF TestRate
<1>3. CASE TestFirst
  BY <1>3 DEF TestFirst, TestStatus, StatusReads
<1>4. CASE TestSecond
  BY <1>4 DEF TestSecond, TestStatus, StatusReads
<1>5. CASE ChooseRate
  BY <1>5 DEF ChooseRate
<1>6. CASE Request
  <2>1. wake' \in 0..DefaultTicks /\ (rangingRequestRate = "None" => wake' = 0)
    BY <1>6, SleepBound DEF Request
  <2>2. ranging = "request" /\ ranging' = "asleep" /\ quiet' = 0 /\ lateRequests' \in {0, 1}
        /\ (ConnectionApproval = "AllowedDevice" => lateRequests' = 0)
    BY <1>6 DEF Request
  <2>3. QED
    BY <1>6, <2>1, <2>2 DEF Request
<1>7. CASE WakeUp
  BY <1>7 DEF WakeUp
<1>8. QED
  BY <1>1, <1>2, <1>3, <1>4, <1>5, <1>6, <1>7 DEF Ranging

LEMMA FobTickInv == FobInv /\ FobTick => FobInv'
  BY RateAssumption DEF FobTick, Count, FobInv, FobTypeOK, ApprovalInv, LateInv, QuietInv, UnderwayInv,
        sessionVars, signalVars

LEMMA FobNextInv == FobInv /\ [FobNext]_fobVars => FobInv'
<1> SUFFICES ASSUME FobInv, [FobNext]_fobVars PROVE FobInv'
  OBVIOUS
<1>1. CASE UNCHANGED fobVars
  BY <1>1 DEF FobInv, FobTypeOK, ApprovalInv, LateInv, QuietInv, UnderwayInv,
              fobVars, sessionVars, signalVars, rangingVars, history
<1>2. CASE FobNext
  BY <1>2, FobSessionInv, FobExchangeInv, FobRangingInv, FobTickInv DEF FobNext
<1>3. QED
  BY <1>1, <1>2

-----------------------------------------------------------------------------
\* The inductive invariant of ranging holds of every reachable state, however
\* the three threads interleave.
THEOREM RangingInvariant == FobSpec => []FobInv
  BY FobInitInv, FobNextInv, PTL DEF FobSpec

\* Type correctness.
THEOREM FobTypeCorrect == FobSpec => []FobTypeOK
<1>1. FobInv => FobTypeOK
  BY DEF FobInv
<1>2. QED
  BY <1>1, RangingInvariant, PTL

\* At most one request is made for a device that is no longer approved.
THEOREM OneLateRequest == FobSpec => []AtMostOneLateRequest
<1>1. FobInv => AtMostOneLateRequest
  BY DEF FobInv, LateInv, AtMostOneLateRequest
<1>2. QED
  BY <1>1, RangingInvariant, PTL

\* The rate of a maneuver is in force within one DefaultRate period of it.
THEOREM DeadmanRateCorrect == FobSpec => []DeadmanRateInTime
<1>1. FobInv => DeadmanRateInTime
  BY RateAssumption DEF FobInv, FobTypeOK, UnderwayInv, DeadmanRateInTime
<1>2. QED
  BY <1>1, RangingInvariant, PTL

\* An approved device is never without a request for more than one period.
THEOREM NoGap == FobSpec => []RangedWithoutGap
<1>1. FobInv => RangedWithoutGap
  BY RateAssumption DEF FobInv, FobTypeOK, QuietInv, RangedWithoutGap
<1>2. QED
  BY <1>1, RangingInvariant, PTL
==============================================================================
