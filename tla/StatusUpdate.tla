----------------------------- MODULE StatusUpdate -----------------------------
(***************************************************************************)
(* How the client learns of changed signals: the status thread             *)
(* (RemoteDeviceHandler::statusUpdateEventLoop_) compares the TCM signals  *)
(* with the ones it saw last, prevSig_, and sends maneuver_status and      *)
(* vehicle_status; the session thread answers requests with the same two   *)
(* messages and writes prevSig_ after a send_pin; the signal loop decodes  *)
(* new values; and none of them takes a lock.                              *)
(*                                                                         *)
(* InfoMsg stands for the seven signals that are compared as it is, the    *)
(* verdict on the PIN is the one that the session thread writes.  The      *)
(* last comparison, that of the challenge, is in ChallengeResponse.tla.    *)
(* A message takes two steps, reading its signals and writing it.          *)
(***************************************************************************)
EXTENDS Naturals

CONSTANTS
    ManeuverStatuses,  \* values of ManeuverStatus, "Ended" among them
    InfoMsgs,          \* values of InfoMsg
    Verdicts,          \* values of AcknowledgeRemotePIN once a PIN was passed
    Untold             \* the client was told nothing of a signal

ASSUME StatusAssumption ==
    /\ {"NotActive", "Ended"} \subseteq ManeuverStatuses
    /\ "None" \in InfoMsgs /\ "None" \notin Verdicts
    /\ Untold \notin ManeuverStatuses \cup InfoMsgs \cup Verdicts \cup {"None"}

\* The signals in the order checkForNewStatusSignals_ compares them.
Order == <<"ManeuverStatus", "InfoMsg", "AcknowledgeRemotePIN">>
Signals == {"ManeuverStatus", "InfoMsg", "AcknowledgeRemotePIN"}
Values == [ManeuverStatus |-> ManeuverStatuses, InfoMsg |-> InfoMsgs,
           AcknowledgeRemotePIN |-> Verdicts \cup {"None"}]
AnyValue == UNION {Values[s] : s \in Signals}
Assignments == {f \in [Signals -> AnyValue] : \A s \in Signals : f[s] \in Values[s]}

VARIABLES
    signal,    \* the signals of the TCM
    prevSig,   \* prevSig_
    built,     \* how many of prevSig_'s fields the constructor has stored
    status,    \* the status thread
    session,   \* the session thread
    isClientConnected,
    heard,     \* what the client was told last of each signal
    slipped    \* history: signals of which it was told out of order, see Transmit

clientVars == <<isClientConnected, heard, slipped>>
vars == <<signal, prevSig, built, status, session, clientVars>>

\* The signals a message tells of, with the values read for it.  slips is history:
\* those that prevSig_ did not agree on when they were read, and all of them once
\* another message has overtaken this one.
NoMessage == [values |-> [s \in Signals |-> Untold], slips |-> {}]
Carries(m) == {s \in Signals : m.values[s] # Untold}
Message(carries) ==
    [values |-> [s \in Signals |-> IF s \in carries THEN signal[s] ELSE Untold],
     slips  |-> {s \in carries : signal[s] # prevSig[s]}]
VehicleStatus == Message(Signals)
ManeuverStatusMessage == Message({"ManeuverStatus"})

Init ==
    /\ signal = [ManeuverStatus |-> "NotActive", InfoMsg |-> "None", AcknowledgeRemotePIN |-> "None"]
    /\ prevSig \in Assignments
    /\ built = 0
    /\ status = [pc |-> "compare", at |-> 1, changed |-> FALSE, settling |-> FALSE,
                 taken |-> Untold, held |-> NoMessage]
    /\ session = [pc |-> "accept", held |-> NoMessage]
    /\ isClientConnected = FALSE
    /\ heard = [s \in Signals |-> Untold]
    /\ slipped = {}

\* The status thread runs from the constructor's initializers on, before its
\* body stores the fields of prevSig_, which until then hold whatever they hold.
Construct ==
    /\ built < 3
    /\ built' = built + 1
    /\ prevSig' = [prevSig EXCEPT ![Order[built + 1]] = signal[Order[built + 1]]]
    /\ UNCHANGED <<signal, status, session, clientVars>>

-----------------------------------------------------------------------------
(* sendMsg_: a message generated without a client is not sent.              *)

Delivered(m) ==
    /\ heard' = [s \in Signals |-> IF s \in Carries(m) THEN m.values[s] ELSE heard[s]]
    /\ slipped' = (slipped \ Carries(m)) \cup m.slips

Overtaken(held) == [held EXCEPT !.slips = Carries(held)]

Transmit(m) ==
    /\ IF isClientConnected THEN Delivered(m) ELSE UNCHANGED <<heard, slipped>>
    /\ UNCHANGED isClientConnected

-----------------------------------------------------------------------------
(* The status thread: checkForNewStatusSignals_ is a pass over the signals, *)
(* each compared again until it stands still; passes are repeated until     *)
(* one changes nothing, then the vehicle_status is sent.                    *)

Compared == Order[status.at]

Runs == UNCHANGED <<signal, built>>

Compare ==
    /\ status.pc = "compare" /\ status.at <= 3
    /\ \/ /\ signal[Compared] = prevSig[Compared]
          /\ status' = [status EXCEPT !.at = @ + 1]
       \/ /\ signal[Compared] # prevSig[Compared]
          /\ status' = [status EXCEPT !.pc = "take"]
    /\ UNCHANGED <<prevSig, session, clientVars>> /\ Runs

\* The signal is read anew for its value, which may be the old one again.
Take ==
    /\ status.pc = "take"
    /\ status' = [status EXCEPT !.pc = "store", !.taken = signal[Compared]]
    /\ UNCHANGED <<prevSig, session, clientVars>> /\ Runs

\* The value was read before it is stored: the session thread may have stored a
\* newer verdict in between.
Store ==
    /\ status.pc = "store"
    /\ prevSig' = [prevSig EXCEPT ![Compared] = status.taken]
    /\ status' = IF Compared = "ManeuverStatus"
                 THEN [status EXCEPT !.pc = "switch", !.taken = Untold]
                 ELSE [status EXCEPT !.pc = "compare", !.taken = Untold, !.changed = TRUE]
    /\ UNCHANGED <<session, clientVars>> /\ Runs

\* Every maneuver status but Ended is told by a maneuver_status of its own.
Switch_NothingOnEnded ==
    /\ status.pc = "switch"
    /\ status' = IF signal["ManeuverStatus"] = "Ended"
                 THEN [status EXCEPT !.pc = "compare"]
                 ELSE [status EXCEPT !.pc = "composeManeuver"]
    /\ UNCHANGED <<prevSig, session, clientVars>> /\ Runs
Switch ==
    /\ status.pc = "switch"
    /\ status' = IF signal["ManeuverStatus"] = "Ended"
                 THEN [status EXCEPT !.pc = "compare", !.changed = TRUE]
                 ELSE [status EXCEPT !.pc = "composeManeuver"]
    /\ UNCHANGED <<prevSig, session, clientVars>> /\ Runs

EndPass_NoReset ==
    /\ status.pc = "compare" /\ status.at > 3
    /\ \/ status.changed /\ status' = [status EXCEPT !.at = 1, !.settling = TRUE]
       \/ ~status.changed /\ status.settling /\ status' = [status EXCEPT !.pc = "compose"]
       \/ ~status.changed /\ ~status.settling /\ status' = [status EXCEPT !.pc = "asleep", !.at = 1]
    /\ UNCHANGED <<prevSig, session, clientVars>> /\ Runs
EndPass ==
    /\ status.pc = "compare" /\ status.at > 3
    /\ \/ status.changed /\ status' = [status EXCEPT !.at = 1, !.changed = FALSE, !.settling = TRUE]
       \/ ~status.changed /\ status.settling /\ status' = [status EXCEPT !.pc = "compose"]
       \/ ~status.changed /\ ~status.settling /\ status' = [status EXCEPT !.pc = "asleep", !.at = 1]
    /\ UNCHANGED <<prevSig, session, clientVars>> /\ Runs

ComposeUpdate ==
    /\ \/ /\ status.pc = "composeManeuver"
          /\ status' = [status EXCEPT !.pc = "transmitManeuver", !.held = ManeuverStatusMessage]
       \/ /\ status.pc = "compose"
          /\ status' = [status EXCEPT !.pc = "transmit", !.held = VehicleStatus]
    /\ UNCHANGED <<prevSig, session, clientVars>> /\ Runs

TransmitUpdate ==
    /\ status.pc \in {"transmit", "transmitManeuver"}
    /\ Transmit(status.held)
    /\ status' = [status EXCEPT !.pc = IF @ = "transmit" THEN "asleep" ELSE "compare",
                                !.at = 1, !.settling = (@ /\ status.pc # "transmit"),
                                !.held = NoMessage]
    /\ session' = [session EXCEPT !.held = Overtaken(@)]
    /\ UNCHANGED prevSig /\ Runs

Wake ==
    /\ status.pc = "asleep"
    /\ status' = [status EXCEPT !.pc = "compare"]
    /\ UNCHANGED <<prevSig, session, clientVars>> /\ Runs

StatusThread ==
    Compare \/ Take \/ Store \/ Switch \/ EndPass \/ ComposeUpdate \/ TransmitUpdate \/ Wake

-----------------------------------------------------------------------------
(* The session thread, once the constructor has ended.                      *)

At(from) == built = 3 /\ session.pc = from

Connect ==
    /\ At("accept")
    /\ session' = [session EXCEPT !.pc = "idle"]
    /\ isClientConnected' = TRUE
    /\ UNCHANGED <<signal, prevSig, built, status, heard, slipped>>

\* The session's end passes PIN_NOT_SET, which mostly changes the verdict; nobody
\* is there to be told.
Disconnect ==
    /\ At("idle")
    /\ session' = [session EXCEPT !.pc = "accept"]
    /\ isClientConnected' = FALSE
    /\ \/ \E verdict \in Verdicts : signal' = [signal EXCEPT !["AcknowledgeRemotePIN"] = verdict]
       \/ UNCHANGED signal
    /\ heard' = [s \in Signals |-> Untold] /\ slipped' = {}
    /\ UNCHANGED <<prevSig, built, status>>

\* send_pin, once its verdict is settled.
SendPin ==
    /\ At("idle")
    /\ \E verdict \in Verdicts \ {"ExpiredPIN"} :
          signal' = [signal EXCEPT !["AcknowledgeRemotePIN"] = verdict]
    /\ session' = [session EXCEPT !.pc = "answerPin"]
    /\ UNCHANGED <<prevSig, built, status, clientVars>>

\* vehicle_status and maneuver_status as requests, and the answer to send_pin.
ComposeAnswer ==
    /\ \/ /\ At("idle")
          /\ session' = [pc |-> "transmit", held |-> VehicleStatus]
       \/ /\ At("idle")
          /\ session' = [pc |-> "transmit", held |-> ManeuverStatusMessage]
       \/ /\ At("answerPin")
          /\ session' = [pc |-> "transmitPin", held |-> VehicleStatus]
    /\ UNCHANGED <<signal, prevSig, built, status, clientVars>>

TransmitAnswer ==
    /\ session.pc \in {"transmit", "transmitPin"}
    /\ Transmit(session.held)
    /\ session' = [pc |-> IF session.pc = "transmit" THEN "idle" ELSE "storePin", held |-> NoMessage]
    /\ status' = [status EXCEPT !.held = Overtaken(@)]
    /\ UNCHANGED <<signal, prevSig, built>>

StorePin ==
    /\ session.pc = "storePin"
    /\ prevSig' = [prevSig EXCEPT !["AcknowledgeRemotePIN"] = signal["AcknowledgeRemotePIN"]]
    /\ session' = [session EXCEPT !.pc = "idle"]
    /\ UNCHANGED <<signal, built, status, clientVars>>

Session == Connect \/ Disconnect \/ SendPin \/ ComposeAnswer \/ TransmitAnswer \/ StorePin

\* The signal loop writes one signal after the other, cast from bits of the packet.
Decode_BitsOfAnother ==
    /\ built = 3
    /\ \E s, t \in {"ManeuverStatus", "InfoMsg"} :
          \E v \in Values[t] : signal' = [signal EXCEPT ![s] = v]
    /\ UNCHANGED <<prevSig, built, status, session, clientVars>>
Decode ==
    /\ built = 3
    /\ \E s \in {"ManeuverStatus", "InfoMsg"} : \E v \in Values[s] : signal' = [signal EXCEPT ![s] = v]
    /\ UNCHANGED <<prevSig, built, status, session, clientVars>>

Next == Construct \/ StatusThread \/ Session \/ Decode

Spec == Init /\ [][Next]_vars

\* Each thread keeps running; neither the client nor the vehicle has to do anything.
FairSpec ==
    /\ Spec
    /\ WF_vars(Construct)
    /\ WF_vars(StatusThread)
    /\ WF_vars(At("answerPin") /\ ComposeAnswer) /\ WF_vars(TransmitAnswer) /\ WF_vars(StorePin)

-----------------------------------------------------------------------------
(* Properties.                                                              *)

Messages == [values : [Signals -> {Untold} \cup AnyValue], slips : SUBSET Signals]

TypeOK ==
    /\ signal \in Assignments /\ prevSig \in Assignments
    /\ built \in 0..3
    /\ status \in [pc : {"compare", "take", "store", "switch", "composeManeuver", "transmitManeuver",
                          "compose", "transmit", "asleep"},
                    at : 1..4, changed : BOOLEAN, settling : BOOLEAN,
                    taken : {Untold} \cup AnyValue, held : Messages]
    /\ session \in [pc : {"accept", "idle", "transmit", "answerPin", "transmitPin", "storePin"},
                     held : Messages]
    /\ heard \in [Signals -> {Untold} \cup AnyValue]
    /\ isClientConnected \in BOOLEAN /\ slipped \subseteq Signals

\* Whenever the status thread sleeps, the client's last word on a signal is the
\* one the thread takes it to know.  Two slips are possible and no other: the
\* word came in a message that another one overtook, or it was read for a
\* message before the thread had noticed the change and was gone again when the
\* thread looked.
ClientKnows ==
    status.pc = "asleep" /\ isClientConnected =>
        \A s \in Signals \ slipped : heard[s] \in {Untold, prevSig[s]}

\* Once the signals stand still the client is in the end told all of them as
\* they are, whatever prevSig_ held before it was stored and whichever thread
\* wrote it; with the same two exceptions.
Reported ==
    \A f \in Assignments :
        <>[](signal = f /\ isClientConnected)
        => <>[](\A s \in Signals \ slipped : heard[s] \in {Untold, f[s]})
==============================================================================
