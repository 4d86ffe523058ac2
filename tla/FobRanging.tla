------------------------------ MODULE FobRanging ------------------------------
(***************************************************************************)
(* Key fob ranging: SignalHandler::rangingRequestEventLoop_ beside the     *)
(* session thread (RemoteDeviceHandler::spin), which grants and withdraws  *)
(* the approval of the device and sets the rate, and beside the signal     *)
(* loop, which brings in the maneuver status.  The three threads share     *)
(* ConnectionApproval, rangingRequestRate_ and ManeuverStatus without a    *)
(* lock, so every read and every write of them is a step of its own.       *)
(*                                                                         *)
(* Time passes in ticks while the ranging thread sleeps: a thread that is  *)
(* due runs before the next tick.                                          *)
(***************************************************************************)
EXTENDS Naturals

CONSTANTS
    DeadmanTicks,  \* FobRangeRequestRate::DeadmanRate, in ticks
    DefaultTicks   \* FobRangeRequestRate::DefaultRate, in ticks

ASSUME RateAssumption ==
    /\ DeadmanTicks \in Nat /\ DefaultTicks \in Nat
    /\ 0 < DeadmanTicks /\ DeadmanTicks < DefaultTicks

VARIABLES
    session,             \* where the session thread is in spin
    ConnectionApproval,
    rangingRequestRate,
    ManeuverStatus,      \* the status last decoded from an ASPM datagram
    exchange,            \* the signal loop has found a device and awaits a datagram
    ranging,             \* where the ranging thread is in its loop
    wake,                \* ticks the ranging thread still sleeps
    \* History, read by the properties only:
    lateRequests,        \* requests since the approval was last withdrawn
    underway,            \* ticks an approved device's maneuver is under way
    quiet                \* ticks since the last request, for an approved device

sessionVars == <<session, ConnectionApproval>>
signalVars == <<exchange, ManeuverStatus>>
rangingVars == <<ranging, wake>>
history == <<lateRequests, underway, quiet>>
fobVars == <<sessionVars, rangingRequestRate, signalVars, rangingVars, history>>

Approvals == {"NoDevice", "NotAllowedDevice", "AllowedDevice"}
Rates == {"None", "DefaultRate", "DeadmanRate"}
\* "Resting" stands for every status but these three.
Statuses == {"Resting", "Confirming", "Maneuvering", "Interrupted"}
UnderWay == {"Confirming", "Maneuvering"}

SleepOf_AfterNone(rate) == DefaultTicks + 1
SleepOf(rate) == CASE rate = "None"        -> 0
                   [] rate = "DeadmanRate" -> DeadmanTicks
                   [] rate = "DefaultRate" -> DefaultTicks

FobInit ==
    /\ session = "accept"
    /\ ConnectionApproval = "NoDevice"
    /\ rangingRequestRate = "None"
    /\ ManeuverStatus = "Resting"
    /\ exchange = FALSE
    /\ ranging = "testApproval"
    /\ wake = 0
    /\ lateRequests = 0 /\ underway = 0 /\ quiet = 0

-----------------------------------------------------------------------------
(* The session thread.                                                      *)

SessionStep(from, to) ==
    /\ session = from
    /\ session' = to
    /\ UNCHANGED <<signalVars, rangingVars>>

SetApproval(approval) ==
    /\ ConnectionApproval' = approval
    /\ UNCHANGED rangingRequestRate
    /\ lateRequests' = IF approval = "AllowedDevice" THEN 0 ELSE lateRequests
    /\ underway' = 0 /\ quiet' = 0

SetRate(rate) ==
    /\ rangingRequestRate' = rate
    /\ UNCHANGED <<ConnectionApproval, history>>

ConnectClient ==
    /\ SessionStep("accept", "approve")
    /\ UNCHANGED <<ConnectionApproval, rangingRequestRate, history>>
NotYetAllowed == SessionStep("approve", "rate") /\ SetApproval("NotAllowedDevice")
StartRanging_Forgotten == SessionStep("rate", "serve") /\ SetRate(rangingRequestRate)
StartRanging == SessionStep("rate", "serve") /\ SetRate("DefaultRate")

\* mobile_init of a device that is not approved yet; for an approved one it
\* writes the same approval again.
MobileInit ==
    /\ ConnectionApproval # "AllowedDevice"
    /\ SessionStep("serve", "serve")
    /\ SetApproval("AllowedDevice")

LoseClient ==
    /\ SessionStep("serve", "withdraw")
    /\ UNCHANGED <<ConnectionApproval, rangingRequestRate, history>>
Withdraw == SessionStep("withdraw", "stop") /\ SetApproval("NoDevice")
StopRanging == SessionStep("stop", "close") /\ SetRate("None")
DisconnectClient ==
    /\ SessionStep("close", "accept")
    /\ UNCHANGED <<ConnectionApproval, rangingRequestRate, history>>

Session ==
    \/ ConnectClient \/ NotYetAllowed \/ StartRanging \/ MobileInit
    \/ LoseClient \/ Withdraw \/ StopRanging \/ DisconnectClient

-----------------------------------------------------------------------------
(* The signal loop: while a device is connected it exchanges datagrams; the *)
(* exchange that was begun ends after a disconnection too.                  *)

BeginExchange ==
    /\ ~exchange /\ ConnectionApproval # "NoDevice"
    /\ exchange' = TRUE
    /\ UNCHANGED <<sessionVars, rangingRequestRate, ManeuverStatus, rangingVars, history>>

\* The ASPM pauses a maneuver before it offers to resume it.
EndExchange ==
    /\ exchange
    /\ exchange' = FALSE
    /\ \E status \in Statuses :
          /\ ~(ManeuverStatus = "Maneuvering" /\ status = "Confirming")
          /\ ManeuverStatus' = status
          /\ underway' = IF status \in UnderWay THEN underway ELSE 0
    /\ UNCHANGED <<sessionVars, rangingRequestRate, rangingVars, lateRequests, quiet>>

-----------------------------------------------------------------------------
(* The ranging thread.                                                      *)

RangingStep(from, to) ==
    /\ ranging = from
    /\ ranging' = to
    /\ UNCHANGED <<sessionVars, signalVars>>

Sleep(from, ticks) ==
    /\ RangingStep(from, "asleep")
    /\ wake' = ticks

Silent == UNCHANGED <<rangingRequestRate, history>>

\* The condition of the inner loop reads the approval, then the rate.
TestApproval_Skipped ==
    /\ RangingStep("testApproval", "testRate")
    /\ UNCHANGED wake
    /\ Silent
TestApproval ==
    /\ \/ /\ ConnectionApproval = "AllowedDevice"
          /\ RangingStep("testApproval", "testRate")
          /\ UNCHANGED wake
       \/ /\ ConnectionApproval # "AllowedDevice"
          /\ Sleep("testApproval", DeadmanTicks)
    /\ Silent

TestRate ==
    /\ \/ /\ rangingRequestRate # "None"
          /\ RangingStep("testRate", "testFirst")
          /\ UNCHANGED wake
       \/ /\ rangingRequestRate = "None"
          /\ Sleep("testRate", DeadmanTicks)
    /\ Silent

\* The maneuver status is read twice, for one value and then for another.
StatusReads_Swapped == <<"Maneuvering", "Confirming">>
StatusReads == <<"Confirming", "Maneuvering">>

TestStatus(from, status, else) ==
    /\ RangingStep(from, IF ManeuverStatus = status THEN "deadmanRate" ELSE else)
    /\ UNCHANGED wake
    /\ Silent

TestFirst == TestStatus("testFirst", StatusReads[1], "testSecond")
TestSecond == TestStatus("testSecond", StatusReads[2], "defaultRate")

ChooseRate ==
    /\ \/ /\ RangingStep("deadmanRate", "request")
          /\ rangingRequestRate' = "DeadmanRate"
       \/ /\ RangingStep("defaultRate", "request")
          /\ rangingRequestRate' = "DefaultRate"
    /\ UNCHANGED <<wake, history>>

\* The place of the request to the vehicle, and usleep with the rate as it is
\* by then.
Request ==
    /\ Sleep("request", SleepOf(rangingRequestRate))
    /\ lateRequests' = IF ConnectionApproval = "AllowedDevice" THEN 0
                       ELSE IF lateRequests < 2 THEN lateRequests + 1 ELSE 2
    /\ quiet' = 0
    /\ UNCHANGED <<rangingRequestRate, underway>>

WakeUp ==
    /\ wake = 0
    /\ RangingStep("asleep", "testApproval")
    /\ UNCHANGED wake
    /\ Silent

Ranging ==
    \/ TestApproval \/ TestRate \/ TestFirst \/ TestSecond
    \/ ChooseRate \/ Request \/ WakeUp

-----------------------------------------------------------------------------

\* Counters of the history stop one above what the properties compare with.
Count(n) == IF n > DefaultTicks THEN n ELSE n + 1

FobTick ==
    /\ ranging = "asleep" /\ wake > 0
    /\ wake' = wake - 1
    /\ \/ /\ ConnectionApproval = "AllowedDevice"
          /\ quiet' = Count(quiet)
          /\ underway' = IF ManeuverStatus \in UnderWay THEN Count(underway) ELSE 0
       \/ /\ ConnectionApproval # "AllowedDevice"
          /\ UNCHANGED <<quiet, underway>>
    /\ UNCHANGED <<sessionVars, rangingRequestRate, signalVars, ranging, lateRequests>>

FobNext == Session \/ BeginExchange \/ EndExchange \/ Ranging \/ FobTick

FobSpec == FobInit /\ [][FobNext]_fobVars

-----------------------------------------------------------------------------
(* Properties.                                                              *)

FobTypeOK ==
    /\ session \in {"accept", "approve", "rate", "serve", "withdraw", "stop", "close"}
    /\ ConnectionApproval \in Approvals
    /\ rangingRequestRate \in Rates
    /\ ManeuverStatus \in Statuses
    /\ exchange \in BOOLEAN
    /\ ranging \in {"testApproval", "testRate", "testFirst", "testSecond",
                    "deadmanRate", "defaultRate", "request", "asleep"}
    /\ wake \in 0..DefaultTicks
    /\ lateRequests \in 0..2
    /\ underway \in 0..DefaultTicks + 1
    /\ quiet \in 0..DefaultTicks + 1

\* However the threads interleave at a disconnection, at most one request is
\* made for a device that is no longer approved, even though the ranging thread
\* may overwrite the rate None with one of its own.
AtMostOneLateRequest == lateRequests <= 1

\* The README's 500 ms "In Maneuver": DeadmanRate is in force at the latest when
\* one DefaultRate period of the maneuver has passed, although the status may
\* change between the two reads of it.
DeadmanRateInTime == underway > DefaultTicks => rangingRequestRate = "DeadmanRate"

\* An approved device is ranged without gaps: never longer than one DefaultRate
\* period without a request, also across a reconnection that finds the ranging
\* thread asleep or on its way to write a rate.
RangedWithoutGap == quiet <= DefaultTicks
==============================================================================
