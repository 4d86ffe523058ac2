-------------------------- MODULE StatusUpdateProofs --------------------------
(***************************************************************************)
(* What the status thread keeps of its promise to the client, for any      *)
(* values of the signals: nothing but the two slips ClientKnows names      *)
(* leaves the client with a word that the sleeping thread does not share.  *)
(***************************************************************************)
EXTENDS StatusUpdate, TLAPS

Pin == "AcknowledgeRemotePIN"
\* The status thread has stored a maneuver status and is about to tell it.
Telling == {"switch", "composeManeuver", "transmitManeuver"}

\* A word is the one the status thread knows of, or the thread has yet to send
\* a message that puts it right.
Fresh(s, word) ==
    \/ word \in {Untold, prevSig[s]}
    \/ status.changed \/ status.settling
    \/ s = "ManeuverStatus" /\ status.pc \in Telling

Empty(m) == \A s \in Signals : m.values[s] = Untold

\* Which fields the steps of the threads leave in which state.
Shape ==
    /\ TypeOK
    /\ status.pc \in {"take", "store"} => status.at \in 1..3
    /\ status.pc = "store" => status.taken \in Values[Order[status.at]]
    /\ status.pc \in {"asleep", "compose", "transmit"} => ~status.changed
    /\ status.pc = "asleep" => ~status.settling
    /\ status.pc \notin {"transmit", "transmitManeuver"} => Empty(status.held)
    /\ status.pc = "transmit" => \A s \in Signals : status.held.values[s] # Untold
    /\ status.pc = "transmitManeuver" => status.held.values["ManeuverStatus"] # Untold
    /\ session.pc \notin {"transmit", "transmitPin"} => Empty(session.held)
    /\ isClientConnected = (session.pc # "accept")
    /\ built < 3 => session.pc = "accept"
    /\ ~isClientConnected => \A s \in Signals : heard[s] = Untold

\* What was said and what is about to be said.
Words ==
    /\ \A s \in Signals \ slipped : Fresh(s, heard[s])
    /\ \A s \in Signals \ session.held.slips : Fresh(s, session.held.values[s])
    /\ \A s \in Signals \ status.held.slips : status.held.values[s] \in {Untold, prevSig[s]}

\* The two writers of prevSig_ beside the status thread store what was said.
Writers ==
    /\ built < 3 => \A s \in Signals : status.held.values[s] \in {Untold, signal[s]}
    /\ session.pc = "transmitPin" => session.held.values[Pin] = signal[Pin]
    /\ session.pc = "storePin" =>
          /\ Pin \notin slipped => heard[Pin] \in {Untold, signal[Pin]}
          /\ Pin \notin status.held.slips => status.held.values[Pin] \in {Untold, signal[Pin]}

IInv == Shape /\ Words /\ Writers

-----------------------------------------------------------------------------
(* Signals and messages.                                                    *)

LEMMA SignalValues ==
  /\ \A i \in 1..3 : Order[i] \in Signals
  /\ \A i \in 0..2 : Order[i + 1] \in Signals
  /\ \A s \in Signals : Values[s] \subseteq AnyValue /\ Untold \notin Values[s]
<1>1. \A i \in 1..3 : Order[i] \in Signals
  BY DEF Order, Signals
<1>2. \A i \in 0..2 : i + 1 \in 1..3
  OBVIOUS
<1>3. \A s \in Signals : Values[s] \subseteq AnyValue
  BY DEF AnyValue
<1>4. \A s \in Signals : Untold \notin Values[s]
  BY StatusAssumption DEF Values, Signals
<1>5. QED
  BY <1>1, <1>2, <1>3, <1>4

LEMMA Assigned ==
  ASSUME NEW f \in Assignments, NEW s \in Signals
  PROVE  /\ f[s] \in AnyValue /\ f[s] # Untold /\ f[s] \in Values[s]
         /\ \A v \in Values[s] :
               /\ [f EXCEPT ![s] = v] \in Assignments
               /\ \A t \in Signals : [f EXCEPT ![s] = v][t] = IF t = s THEN v ELSE f[t]
  BY SignalValues DEF Assignments

LEMMA MessageType ==
  ASSUME signal \in Assignments, prevSig \in Assignments, NEW carries \in SUBSET Signals
  PROVE  LET m == Message(carries)
         IN /\ m \in Messages
            /\ \A s \in Signals : m.values[s] = IF s \in carries THEN signal[s] ELSE Untold
            /\ \A s \in Signals \ m.slips : m.values[s] \in {Untold, prevSig[s]}
<1> DEFINE values == [s \in Signals |-> IF s \in carries THEN signal[s] ELSE Untold]
           slips == {s \in carries : signal[s] # prevSig[s]}
<1>1. values \in [Signals -> {Untold} \cup AnyValue]
  BY Assigned
<1>2. slips \in SUBSET Signals
  OBVIOUS
<1>3. \A s \in Signals : values[s] = IF s \in carries THEN signal[s] ELSE Untold
  OBVIOUS
<1>4. \A s \in Signals \ slips : values[s] \in {Untold, prevSig[s]}
  OBVIOUS
<1>5. Message(carries) = [values |-> values, slips |-> slips]
  BY DEF Message
<1> HIDE DEF values, slips
<1>6. QED
  BY <1>1, <1>2, <1>3, <1>4, <1>5 DEF Messages

LEMMA OvertakenType ==
  ASSUME NEW m \in Messages
  PROVE  /\ Overtaken(m) \in Messages /\ Overtaken(m).values = m.values
         /\ \A s \in Signals \ Overtaken(m).slips : m.values[s] = Untold
  BY DEF Overtaken, Carries, Messages

LEMMA NoMessageType == NoMessage \in Messages /\ Empty(NoMessage)
<1> DEFINE values == [s \in Signals |-> Untold]
<1>1. values \in [Signals -> {Untold} \cup AnyValue] /\ \A s \in Signals : values[s] = Untold
  OBVIOUS
<1>2. NoMessage = [values |-> values, slips |-> {}]
  BY DEF NoMessage
<1> HIDE DEF values
<1>3. QED
  BY <1>1, <1>2 DEF Messages, Empty

LEMMA TransmitType ==
  ASSUME TypeOK, NEW m \in Messages, Transmit(m)
  PROVE  /\ heard' \in [Signals -> {Untold} \cup AnyValue] /\ slipped' \subseteq Signals
         /\ isClientConnected' = isClientConnected
         /\ ~isClientConnected => heard' = heard
         /\ isClientConnected => \A s \in Signals :
              \/ m.values[s] # Untold /\ heard'[s] = m.values[s] /\ (s \in m.slips => s \in slipped')
              \/ m.values[s] = Untold /\ heard'[s] = heard[s] /\ (s \in slipped => s \in slipped')
<1>1. CASE ~isClientConnected
  BY <1>1 DEF Transmit, TypeOK
<1>2. CASE isClientConnected
  <2>1. /\ heard' = [s \in Signals |-> IF s \in Carries(m) THEN m.values[s] ELSE heard[s]]
        /\ slipped' = (slipped \ Carries(m)) \cup m.slips
        /\ isClientConnected' = isClientConnected
    BY <1>2 DEF Transmit, Delivered
  <2>2. m.values \in [Signals -> {Untold} \cup AnyValue] /\ m.slips \subseteq Signals
    BY DEF Messages
  <2>3. heard \in [Signals -> {Untold} \cup AnyValue] /\ slipped \subseteq Signals
    BY DEF TypeOK
  <2>4. Carries(m) = {s \in Signals : m.values[s] # Untold}
    BY DEF Carries
  <2>5. QED
    BY <1>2, <2>1, <2>2, <2>3, <2>4
<1>3. QED
  BY <1>1, <1>2

-----------------------------------------------------------------------------
(* The initial states and the constructor.                                  *)

LEMMA InitInv == Init => IInv
<1> SUFFICES ASSUME Init PROVE IInv
  OBVIOUS
<1>1. signal \in Assignments
  <2>1. \A s \in Signals : signal[s] \in Values[s]
    BY StatusAssumption DEF Init, Signals, Values
  <2>2. signal \in [Signals -> AnyValue]
    <3>1. DOMAIN signal = Signals /\ signal = [s \in Signals |-> signal[s]]
      BY DEF Init, Signals
    <3>2. QED
      BY <2>1, <3>1, SignalValues
  <2>3. QED
    BY <2>1, <2>2 DEF Assignments
<1>2. TypeOK
  <2>1. /\ Untold \in {Untold} \cup AnyValue /\ 1 \in 1..4 /\ 0 \in 0..3
        /\ heard \in [Signals -> {Untold} \cup AnyValue]
    BY DEF Init
  <2>2. prevSig \in Assignments /\ slipped \subseteq Signals /\ built \in 0..3
    BY DEF Init
  <2>5. isClientConnected \in BOOLEAN
    BY DEF Init
  <2>3. NoMessage \in Messages
    BY NoMessageType
  <2> HIDE DEF NoMessage
  <2>4. QED
    BY <1>1, <2>1, <2>2, <2>3, <2>5 DEF Init, TypeOK
<1>3. Shape
  BY <1>2, NoMessageType DEF Init, Shape
<1>4. Words
  BY NoMessageType DEF Init, Words, Fresh, Empty
<1>5. Writers
  BY NoMessageType DEF Init, Writers, Empty
<1>6. QED
  BY <1>3, <1>4, <1>5 DEF IInv

LEMMA ConstructInv == IInv /\ Construct => IInv'
<1> SUFFICES ASSUME IInv, Construct PROVE IInv'
  OBVIOUS
<1> DEFINE s0 == Order[built + 1]
<1>1. built \in 0..2 /\ built' = built + 1
  BY DEF IInv, Shape, TypeOK, Construct
<1>2. s0 \in Signals
  BY <1>1, SignalValues
<1>3. signal \in Assignments /\ prevSig \in Assignments
  BY DEF IInv, Shape, TypeOK
<1>4. /\ prevSig' \in Assignments
      /\ \A s \in Signals : prevSig'[s] = IF s = s0 THEN signal[s] ELSE prevSig[s]
  <2>1. prevSig' = [prevSig EXCEPT ![s0] = signal[s0]]
    BY DEF Construct
  <2>2. signal[s0] \in Values[s0]
    BY <1>2, <1>3, Assigned
  <2> HIDE DEF s0
  <2>3. \A v \in Values[s0] :
          /\ [prevSig EXCEPT ![s0] = v] \in Assignments
          /\ \A t \in Signals : [prevSig EXCEPT ![s0] = v][t] = IF t = s0 THEN v ELSE prevSig[t]
    BY <1>2, <1>3, Assigned
  <2> DEFINE v == signal[s0]
  <2>4. v \in Values[s0] /\ prevSig' = [prevSig EXCEPT ![s0] = v]
    BY <2>1, <2>2
  <2>5. \A t \in Signals : prevSig'[t] = IF t = s0 THEN v ELSE prevSig[t]
    <3> HIDE DEF v
    <3>1. QED
      BY <2>3, <2>4
  <2>6. prevSig' \in Assignments
    BY <2>3, <2>4
  <2>7. QED
    BY <2>5, <2>6
<1> HIDE DEF s0
<1>5. /\ UNCHANGED <<signal, status, session, clientVars>>
      /\ session.pc = "accept"
      /\ \A s \in Signals : heard[s] = Untold /\ session.held.values[s] = Untold
      /\ \A s \in Signals : status.held.values[s] \in {Untold, signal[s]}
  BY <1>1 DEF IInv, Shape, Writers, Construct, TypeOK, Empty
<1>6. Shape'
  BY <1>1, <1>4, <1>5 DEF IInv, Shape, TypeOK, clientVars, Empty
<1>7. Words'
  BY <1>4, <1>5 DEF IInv, Words, Fresh, clientVars
<1>8. Writers'
  BY <1>5 DEF Writers, clientVars
<1>9. QED
  BY <1>6, <1>7, <1>8 DEF IInv

-----------------------------------------------------------------------------
(* The status thread.                                                       *)

LEMMA CompareInv == IInv /\ Compare => IInv'
<1> SUFFICES ASSUME IInv, Compare PROVE IInv'
  OBVIOUS
<1>1. /\ status.pc = "compare" /\ status.at \in 1..3
      /\ UNCHANGED <<prevSig, session, clientVars, signal, built>>
  BY DEF IInv, Shape, TypeOK, Compare, Runs
<1>3. /\ status' \in [pc : {"compare", "take"}, at : 1..4, changed : BOOLEAN, settling : BOOLEAN,
                      taken : {Untold} \cup AnyValue, held : Messages]
      /\ status'.held = status.held
      /\ status'.changed = status.changed /\ status'.settling = status.settling
      /\ status'.pc = "take" => status'.at \in 1..3
  BY <1>1 DEF IInv, Shape, TypeOK, Compare
<1>4. Shape'
  BY <1>1, <1>3 DEF IInv, Shape, TypeOK, clientVars, Empty
<1>5. Words'
  BY <1>1, <1>3 DEF IInv, Words, Fresh, clientVars, Telling
<1>6. Writers'
  BY <1>1, <1>3 DEF IInv, Writers, clientVars
<1>7. QED
  BY <1>4, <1>5, <1>6 DEF IInv

LEMMA TakeInv == IInv /\ Take => IInv'
<1> SUFFICES ASSUME IInv, Take PROVE IInv'
  OBVIOUS
<1> DEFINE v == signal[Order[status.at]]
<1>1. /\ status.pc = "take" /\ status.at \in 1..3
      /\ status' = [status EXCEPT !.pc = "store", !.taken = v]
      /\ UNCHANGED <<prevSig, session, clientVars, signal, built>>
  BY DEF IInv, Shape, Take, Compared, Runs
<1>2. signal \in Assignments /\ Order[status.at] \in Signals
  BY <1>1, SignalValues DEF IInv, Shape, TypeOK
<1>0. v \in AnyValue /\ v \in Values[Order[status.at]]
  BY <1>2, Assigned
<1> HIDE DEF v
<1>3. /\ status' \in [pc : {"store"}, at : 1..4, changed : BOOLEAN, settling : BOOLEAN,
                      taken : {Untold} \cup AnyValue, held : Messages]
      /\ status'.held = status.held
      /\ status'.changed = status.changed /\ status'.settling = status.settling
      /\ status'.at \in 1..3 /\ status'.taken \in Values[Order[status'.at]]
  BY <1>0, <1>1 DEF IInv, Shape, TypeOK
<1>4. Shape'
  BY <1>1, <1>3 DEF IInv, Shape, TypeOK, clientVars, Empty
<1>5. Words'
  BY <1>1, <1>3 DEF IInv, Words, Fresh, clientVars, Telling
<1>6. Writers'
  BY <1>1, <1>3 DEF IInv, Writers, clientVars
<1>7. QED
  BY <1>4, <1>5, <1>6 DEF IInv

LEMMA StoreInv == IInv /\ Store => IInv'
<1> SUFFICES ASSUME IInv, Store PROVE IInv'
  OBVIOUS
<1> DEFINE s0 == Order[status.at]
<1>1. /\ status.pc = "store" /\ status.at \in 1..3 /\ s0 \in Signals /\ status.taken \in Values[s0]
      /\ UNCHANGED <<session, clientVars, signal, built>>
  BY SignalValues DEF IInv, Shape, Store, Runs
<1>2. /\ prevSig' \in Assignments
      /\ \A s \in Signals : prevSig'[s] = IF s = s0 THEN status.taken ELSE prevSig[s]
  <2>1. prevSig' = [prevSig EXCEPT ![s0] = status.taken]
    BY DEF Store, Compared
  <2>2. prevSig \in Assignments
    BY DEF IInv, Shape, TypeOK
  <2> HIDE DEF s0
  <2>3. \A v \in Values[s0] :
          /\ [prevSig EXCEPT ![s0] = v] \in Assignments
          /\ \A t \in Signals : [prevSig EXCEPT ![s0] = v][t] = IF t = s0 THEN v ELSE prevSig[t]
    BY <1>1, <2>2, Assigned
  <2> DEFINE v == status.taken
  <2>4. v \in Values[s0] /\ prevSig' = [prevSig EXCEPT ![s0] = v]
    BY <1>1, <2>1
  <2>5. \A t \in Signals : prevSig'[t] = IF t = s0 THEN v ELSE prevSig[t]
    <3> HIDE DEF v
    <3>1. QED
      BY <2>3, <2>4
  <2>6. prevSig' \in Assignments
    BY <2>3, <2>4
  <2>7. QED
    BY <2>5, <2>6
<1>3. /\ status' \in [pc : {"compare", "switch"}, at : 1..4, changed : BOOLEAN, settling : BOOLEAN,
                      taken : {Untold} \cup AnyValue, held : Messages]
      /\ status'.held = status.held /\ status'.settling = status.settling
      /\ \/ s0 = "ManeuverStatus" /\ status'.pc = "switch" /\ status'.changed = status.changed
         \/ status'.changed
  BY <1>1 DEF IInv, Shape, TypeOK, Store, Compared
<1>4. Empty(status.held)
  BY <1>1 DEF IInv, Shape
<1> HIDE DEF s0
<1>5. Shape'
  BY <1>1, <1>2, <1>3, <1>4 DEF IInv, Shape, TypeOK, clientVars, Empty
<1>6. Words'
  <2>1. \A s \in Signals : \A word : Fresh(s, word) => Fresh(s, word)'
    BY <1>1, <1>2, <1>3 DEF Fresh, Telling
  <2>2. QED
    BY <1>1, <1>3, <1>4, <2>1 DEF IInv, Words, clientVars, Empty
<1>7. Writers'
  BY <1>1, <1>3 DEF IInv, Writers, clientVars
<1>8. QED
  BY <1>5, <1>6, <1>7 DEF IInv

LEMMA SwitchInv == IInv /\ Switch => IInv'
<1> SUFFICES ASSUME IInv, Switch PROVE IInv'
  OBVIOUS
<1>1. /\ status.pc = "switch" /\ UNCHANGED <<prevSig, session, clientVars, signal, built>>
  BY DEF Switch, Runs
<1>2. /\ status' \in [pc : {"compare", "composeManeuver"}, at : 1..4, changed : BOOLEAN,
                      settling : BOOLEAN, taken : {Untold} \cup AnyValue, held : Messages]
      /\ status'.held = status.held /\ status'.settling = status.settling
      /\ \/ status'.pc = "composeManeuver" /\ status'.changed = status.changed
         \/ status'.changed
  BY <1>1 DEF IInv, Shape, TypeOK, Switch
<1>3. Shape'
  BY <1>1, <1>2 DEF IInv, Shape, TypeOK, clientVars, Empty
<1>4. Words'
  BY <1>1, <1>2 DEF IInv, Words, Fresh, clientVars, Telling
<1>5. Writers'
  BY <1>1, <1>2 DEF IInv, Writers, clientVars
<1>6. QED
  BY <1>3, <1>4, <1>5 DEF IInv

LEMMA EndPassInv == IInv /\ EndPass => IInv'
<1> SUFFICES ASSUME IInv, EndPass PROVE IInv'
  OBVIOUS
<1>1. /\ status.pc = "compare" /\ UNCHANGED <<prevSig, session, clientVars, signal, built>>
  BY DEF EndPass, Runs
<1>2. /\ status' \in [pc : {"compare", "compose", "asleep"}, at : 1..4, changed : BOOLEAN,
                      settling : BOOLEAN, taken : {Untold} \cup AnyValue, held : Messages]
      /\ status'.held = status.held
      /\ status.changed \/ status.settling => status'.settling /\ status'.pc # "asleep"
      /\ ~status'.changed
      /\ status'.pc = "asleep" => ~status'.settling
  <2>1. CASE status.changed /\ status' = [status EXCEPT !.at = 1, !.changed = FALSE, !.settling = TRUE]
    <3>0. 1 \in 1..4 /\ TRUE \in BOOLEAN /\ FALSE \in BOOLEAN
      OBVIOUS
    <3>1. status \in [pc : {"compare"}, at : 1..4, changed : BOOLEAN, settling : BOOLEAN,
                      taken : {Untold} \cup AnyValue, held : Messages]
      BY <1>1 DEF IInv, Shape, TypeOK
    <3>2. status' \in [pc : {"compare"}, at : 1..4, changed : BOOLEAN, settling : BOOLEAN,
                       taken : {Untold} \cup AnyValue, held : Messages]
      BY <2>1, <3>1, <3>0
    <3>3. /\ status'.pc = "compare" /\ status'.changed = FALSE /\ status'.settling = TRUE
          /\ status'.held = status.held
      BY <2>1, <3>1
    <3>4. QED
      BY <3>2, <3>3
  <2>2. CASE ~status.changed /\ status.settling /\ status' = [status EXCEPT !.pc = "compose"]
    BY <1>1, <2>2 DEF IInv, Shape, TypeOK
  <2>3. CASE ~status.changed /\ ~status.settling /\ status' = [status EXCEPT !.pc = "asleep", !.at = 1]
    <3>0. 1 \in 1..4 /\ TRUE \in BOOLEAN /\ FALSE \in BOOLEAN
      OBVIOUS
    <3>1. status \in [pc : {"compare"}, at : 1..4, changed : BOOLEAN, settling : BOOLEAN,
                      taken : {Untold} \cup AnyValue, held : Messages]
      BY <1>1 DEF IInv, Shape, TypeOK
    <3>2. status' \in [pc : {"asleep"}, at : 1..4, changed : BOOLEAN, settling : BOOLEAN,
                       taken : {Untold} \cup AnyValue, held : Messages]
      BY <2>3, <3>1, <3>0
    <3>3. /\ status'.pc = "asleep" /\ status'.changed = status.changed
          /\ status'.settling = status.settling /\ status'.held = status.held
      BY <2>3, <3>1
    <3>4. ~status.changed /\ ~status.settling
      BY <2>3
    <3>5. QED
      BY <3>2, <3>3, <3>4
  <2>4. QED
    BY <2>1, <2>2, <2>3 DEF EndPass
<1>3. Shape'
  BY <1>1, <1>2 DEF IInv, Shape, TypeOK, clientVars, Empty
<1>4. Words'
  BY <1>1, <1>2 DEF IInv, Words, Fresh, clientVars, Telling
<1>5. Writers'
  BY <1>1, <1>2 DEF IInv, Writers, clientVars
<1>6. QED
  BY <1>3, <1>4, <1>5 DEF IInv

LEMMA ComposeUpdateInv == IInv /\ ComposeUpdate => IInv'
<1> SUFFICES ASSUME IInv, ComposeUpdate PROVE IInv'
  OBVIOUS
<1>1. UNCHANGED <<prevSig, session, clientVars, signal, built>>
  BY DEF ComposeUpdate, Runs
<1>2. PICK carries \in SUBSET Signals :
        /\ status'.held = Message(carries)
        /\ \/ /\ status.pc = "composeManeuver" /\ carries = {"ManeuverStatus"}
              /\ status' = [status EXCEPT !.pc = "transmitManeuver", !.held = Message(carries)]
           \/ /\ status.pc = "compose" /\ carries = Signals
              /\ status' = [status EXCEPT !.pc = "transmit", !.held = Message(carries)]
  BY DEF IInv, Shape, TypeOK, ComposeUpdate, VehicleStatus, ManeuverStatusMessage, Signals
<1> DEFINE m == Message(carries)
<1>3. signal \in Assignments /\ prevSig \in Assignments
  BY DEF IInv, Shape, TypeOK
<1>4. /\ m \in Messages
      /\ \A s \in Signals : m.values[s] = IF s \in carries THEN signal[s] ELSE Untold
      /\ \A s \in Signals \ m.slips : m.values[s] \in {Untold, prevSig[s]}
  BY <1>3, MessageType
<1>5. \A s \in Signals : signal[s] # Untold
  BY <1>3, Assigned
<1> HIDE DEF m
<1>6. /\ status' \in [pc : {"transmit", "transmitManeuver"}, at : 1..4, changed : BOOLEAN,
                      settling : BOOLEAN, taken : {Untold} \cup AnyValue, held : Messages]
      /\ status'.held = m
      /\ status'.changed = status.changed /\ status'.settling = status.settling
      /\ \/ status.pc = "composeManeuver" /\ carries = {"ManeuverStatus"} /\ status'.pc = "transmitManeuver"
         \/ status.pc = "compose" /\ carries = Signals /\ status'.pc = "transmit"
  BY <1>2, <1>4 DEF IInv, Shape, TypeOK, m
<1>7. "ManeuverStatus" \in Signals /\ Pin \in Signals
  BY DEF Signals, Pin
<1>8. Shape'
  BY <1>1, <1>4, <1>5, <1>6, <1>7 DEF IInv, Shape, TypeOK, clientVars, Empty
<1>9. Words'
  BY <1>1, <1>4, <1>6 DEF IInv, Words, Fresh, clientVars, Telling
<1>10. Writers'
  BY <1>1, <1>4, <1>6, <1>7 DEF IInv, Writers, clientVars
<1>11. QED
  BY <1>8, <1>9, <1>10 DEF IInv

LEMMA TransmitUpdateInv == IInv /\ TransmitUpdate => IInv'
<1> SUFFICES ASSUME IInv, TransmitUpdate PROVE IInv'
  OBVIOUS
<1> DEFINE m == status.held
<1>1. /\ m \in Messages /\ session.held \in Messages /\ TypeOK
      /\ status.pc \in {"transmit", "transmitManeuver"}
      /\ Transmit(m)
      /\ UNCHANGED <<prevSig, signal, built>>
  BY DEF IInv, Shape, TypeOK, TransmitUpdate, Runs
<1>2. /\ session' = [session EXCEPT !.held = Overtaken(session.held)]
      /\ session'.pc = session.pc /\ session'.held.values = session.held.values
      /\ session'.held \in Messages
      /\ \A s \in Signals \ session'.held.slips : session'.held.values[s] = Untold
  BY <1>1, OvertakenType DEF IInv, Shape, TypeOK, TransmitUpdate
<1>3. /\ heard' \in [Signals -> {Untold} \cup AnyValue] /\ slipped' \subseteq Signals
      /\ isClientConnected' = isClientConnected
      /\ ~isClientConnected => heard' = heard
      /\ isClientConnected => \A s \in Signals :
           \/ m.values[s] # Untold /\ heard'[s] = m.values[s] /\ (s \in m.slips => s \in slipped')
           \/ m.values[s] = Untold /\ heard'[s] = heard[s] /\ (s \in slipped => s \in slipped')
  BY <1>1, TransmitType
<1>4. /\ status' \in [pc : {"asleep", "compare"}, at : 1..4, changed : BOOLEAN, settling : BOOLEAN,
                      taken : {Untold} \cup AnyValue, held : Messages]
      /\ status'.changed = status.changed /\ Empty(status'.held)
      /\ \/ status.pc = "transmit" /\ status'.pc = "asleep" /\ ~status'.settling
         \/ status.pc = "transmitManeuver" /\ status'.pc = "compare" /\ status'.settling = status.settling
  <2>1. NoMessage \in Messages /\ Empty(NoMessage) /\ 1 \in 1..4
    BY NoMessageType
  <2> HIDE DEF NoMessage
  <2>2. CASE status.pc = "transmit"
    <3>1. status' = [status EXCEPT !.pc = "asleep", !.at = 1, !.settling = FALSE, !.held = NoMessage]
      BY <2>2 DEF TransmitUpdate
    <3>2. QED
      BY <2>1, <2>2, <3>1 DEF IInv, Shape, TypeOK
  <2>3. CASE status.pc = "transmitManeuver"
    <3>1. status.settling \in BOOLEAN
      BY DEF IInv, Shape, TypeOK
    <3>2. status' = [status EXCEPT !.pc = "compare", !.at = 1, !.settling = status.settling,
                                   !.held = NoMessage]
      BY <2>3, <3>1 DEF TransmitUpdate
    <3>3. QED
      BY <2>1, <2>3, <3>2 DEF IInv, Shape, TypeOK
  <2>4. QED
    BY <1>1, <2>2, <2>3
<1>5. "ManeuverStatus" \in Signals /\ Pin \in Signals
  BY DEF Signals, Pin
<1>6. Shape'
  <2>1. session' \in [pc : {"accept", "idle", "transmit", "answerPin", "transmitPin", "storePin"},
                      held : Messages]
    BY <1>1, <1>2 DEF TypeOK
  <2>2. TypeOK'
    BY <1>1, <1>3, <1>4, <2>1 DEF TypeOK
  <2>3. QED
    BY <1>1, <1>2, <1>3, <1>4, <2>2 DEF IInv, Shape, Empty
<1>7. Words'
  <2>1. ASSUME NEW s \in Signals \ slipped' PROVE Fresh(s, heard[s])'
    <3>1. CASE ~isClientConnected
      BY <1>3, <3>1 DEF IInv, Shape, Fresh
    <3>2. CASE isClientConnected /\ m.values[s] # Untold
      BY <1>1, <1>3, <2>1, <3>2 DEF IInv, Words, Fresh
    <3>3. CASE isClientConnected /\ m.values[s] = Untold
      <4>1. status.pc = "transmitManeuver" /\ s # "ManeuverStatus"
        BY <1>1, <3>3 DEF IInv, Shape
      <4>2. heard'[s] = heard[s] /\ Fresh(s, heard[s])
        BY <1>3, <2>1, <3>3 DEF IInv, Words
      <4>3. QED
        BY <1>1, <1>4, <4>1, <4>2 DEF Fresh
    <3>4. QED
      BY <3>1, <3>2, <3>3
  <2>2. \A s \in Signals \ session'.held.slips : Fresh(s, session.held.values[s])'
    BY <1>2 DEF Fresh
  <2>3. QED
    BY <1>4, <2>1, <2>2 DEF Words, Empty
<1>8. Writers'
  <2>1. built' < 3 => \A s \in Signals : status'.held.values[s] \in {Untold, signal'[s]}
    BY <1>4 DEF Empty
  <2>2. session'.pc = "transmitPin" => session'.held.values[Pin] = signal'[Pin]
    BY <1>1, <1>2 DEF IInv, Writers
  <2>3. ASSUME session'.pc = "storePin", Pin \notin slipped'
        PROVE  heard'[Pin] \in {Untold, signal'[Pin]}
    BY <1>1, <1>2, <1>3, <1>5, <2>3 DEF IInv, Writers, Shape
  <2>4. status'.held.values[Pin] = Untold
    BY <1>4, <1>5 DEF Empty
  <2>5. QED
    BY <2>1, <2>2, <2>3, <2>4 DEF Writers
<1>9. QED
  BY <1>6, <1>7, <1>8 DEF IInv

LEMMA WakeInv == IInv /\ Wake => IInv'
<1> SUFFICES ASSUME IInv, Wake PROVE IInv'
  OBVIOUS
<1>1. /\ status.pc = "asleep" /\ UNCHANGED <<prevSig, session, clientVars, signal, built>>
  BY DEF Wake, Runs
<1>2. /\ status' \in [pc : {"compare"}, at : 1..4, changed : BOOLEAN,
                      settling : BOOLEAN, taken : {Untold} \cup AnyValue, held : Messages]
      /\ status'.held = status.held /\ status'.settling = status.settling
      /\ status'.changed = status.changed
  BY <1>1 DEF IInv, Shape, TypeOK, Wake
<1>3. Shape'
  BY <1>1, <1>2 DEF IInv, Shape, TypeOK, clientVars, Empty
<1>4. Words'
  BY <1>1, <1>2 DEF IInv, Words, Fresh, clientVars, Telling
<1>5. Writers'
  BY <1>1, <1>2 DEF IInv, Writers, clientVars
<1>6. QED
  BY <1>3, <1>4, <1>5 DEF IInv

-----------------------------------------------------------------------------
(* The session thread and the signal loop.                                  *)

LEMMA ConnectInv == IInv /\ Connect => IInv'
<1> SUFFICES ASSUME IInv, Connect PROVE IInv'
  OBVIOUS
<1>1. /\ session.pc = "accept" /\ built = 3
      /\ UNCHANGED <<signal, prevSig, built, status, heard, slipped>>
  BY DEF Connect, At
<1>2. isClientConnected' = TRUE /\ isClientConnected' \in BOOLEAN
  BY DEF Connect
<1>3. /\ session' \in [pc : {"idle"}, held : Messages] /\ session'.held = session.held
  BY DEF IInv, Shape, TypeOK, Connect
<1>4. Shape'
  <2>1. TypeOK'
    BY <1>1, <1>2, <1>3 DEF IInv, Shape, TypeOK
  <2>2. isClientConnected' = (session'.pc # "accept")
    BY <1>2, <1>3
  <2>3. QED
    BY <1>1, <1>2, <1>3, <2>1, <2>2 DEF IInv, Shape, Empty
<1>5. Words'
  BY <1>1, <1>3 DEF IInv, Words, Fresh
<1>6. Writers'
  BY <1>1, <1>3 DEF IInv, Writers
<1>7. QED
  BY <1>4, <1>5, <1>6 DEF IInv

\* Only the verdict changes, before an answer to a send_pin is composed.
LEMMA VerdictInv ==
  ASSUME IInv, NEW verdict \in Verdicts,
         signal' = [signal EXCEPT ![Pin] = verdict]
  PROVE  signal' \in Assignments
<1>1. verdict \in Values[Pin] /\ Pin \in Signals
  BY DEF Values, Pin, Signals
<1>2. QED
  BY <1>1, Assigned DEF IInv, Shape, TypeOK

LEMMA DisconnectInv == IInv /\ Disconnect => IInv'
<1> SUFFICES ASSUME IInv, Disconnect PROVE IInv'
  OBVIOUS
<1>1. /\ session.pc = "idle" /\ built = 3 /\ UNCHANGED <<prevSig, built, status>>
      /\ heard' = [s \in Signals |-> Untold] /\ slipped' = {}
  BY DEF Disconnect, At
<1>2. isClientConnected' = FALSE /\ isClientConnected' \in BOOLEAN
  BY DEF Disconnect
<1>3. session' \in [pc : {"accept"}, held : Messages] /\ session'.held = session.held
  BY DEF IInv, Shape, TypeOK, Disconnect
<1>4. signal' \in Assignments
  BY VerdictInv DEF Disconnect, IInv, Shape, TypeOK, Pin
<1>5. Shape'
  <2>1. heard' \in [Signals -> {Untold} \cup AnyValue] /\ \A s \in Signals : heard'[s] = Untold
    BY <1>1
  <2>2. TypeOK'
    BY <1>1, <1>2, <1>3, <1>4, <2>1 DEF IInv, Shape, TypeOK
  <2>3. QED
    <3>1. isClientConnected' = (session'.pc # "accept")
      BY <1>2, <1>3
    <3>2. QED
      BY <1>1, <1>3, <2>1, <2>2, <3>1 DEF IInv, Shape, Empty
<1>6. Words'
  <2>1. \A s \in Signals : Fresh(s, heard[s])'
    BY <1>1 DEF Fresh
  <2>2. QED
    BY <1>1, <1>3, <2>1 DEF IInv, Words, Fresh
<1>7. Writers'
  BY <1>1, <1>3 DEF Writers
<1>8. QED
  BY <1>5, <1>6, <1>7 DEF IInv

LEMMA SendPinInv == IInv /\ SendPin => IInv'
<1> SUFFICES ASSUME IInv, SendPin PROVE IInv'
  OBVIOUS
<1>1. /\ session.pc = "idle" /\ built = 3 /\ UNCHANGED <<prevSig, built, status, clientVars>>
  BY DEF SendPin, At
<1>2. session' \in [pc : {"answerPin"}, held : Messages] /\ session'.held = session.held
  BY DEF IInv, Shape, TypeOK, SendPin
<1>3. signal' \in Assignments
  BY VerdictInv DEF SendPin, Pin
<1>4. Shape'
  BY <1>1, <1>2, <1>3 DEF IInv, Shape, TypeOK, Empty, clientVars
<1>5. Words'
  BY <1>1, <1>2 DEF IInv, Words, Fresh, clientVars
<1>6. Writers'
  BY <1>1, <1>2 DEF Writers
<1>7. QED
  BY <1>4, <1>5, <1>6 DEF IInv

LEMMA ComposeAnswerInv == IInv /\ ComposeAnswer => IInv'
<1> SUFFICES ASSUME IInv, ComposeAnswer PROVE IInv'
  OBVIOUS
<1>1. UNCHANGED <<signal, prevSig, built, status, clientVars>> /\ built = 3
  BY DEF ComposeAnswer, At
<1>2. PICK carries \in SUBSET Signals :
        \/ session.pc = "idle" /\ session' = [pc |-> "transmit", held |-> Message(carries)]
        \/ /\ session.pc = "answerPin" /\ carries = Signals
           /\ session' = [pc |-> "transmitPin", held |-> Message(carries)]
  BY DEF ComposeAnswer, At, VehicleStatus, ManeuverStatusMessage, Signals
<1> DEFINE m == Message(carries)
<1>3. /\ m \in Messages
      /\ \A s \in Signals : m.values[s] = IF s \in carries THEN signal[s] ELSE Untold
      /\ \A s \in Signals \ m.slips : m.values[s] \in {Untold, prevSig[s]}
  BY MessageType DEF IInv, Shape, TypeOK
<1> HIDE DEF m
<1>4. /\ session' \in [pc : {"transmit", "transmitPin"}, held : Messages] /\ session'.held = m
      /\ session.pc # "accept"
      /\ session'.pc = "transmitPin" => carries = Signals
  BY <1>2, <1>3 DEF m
<1>5. Pin \in Signals
  BY DEF Pin, Signals
<1>6. Shape'
  BY <1>1, <1>4 DEF IInv, Shape, TypeOK, Empty, clientVars
<1>7. Words'
  BY <1>1, <1>3, <1>4 DEF IInv, Words, Fresh, clientVars
<1>8. Writers'
  BY <1>1, <1>3, <1>4, <1>5 DEF Writers
<1>9. QED
  BY <1>6, <1>7, <1>8 DEF IInv

LEMMA TransmitAnswerInv == IInv /\ TransmitAnswer => IInv'
<1> SUFFICES ASSUME IInv, TransmitAnswer PROVE IInv'
  OBVIOUS
<1> DEFINE m == session.held
<1>1. /\ m \in Messages /\ status.held \in Messages /\ TypeOK
      /\ session.pc \in {"transmit", "transmitPin"} /\ isClientConnected /\ built = 3
      /\ Transmit(m)
      /\ UNCHANGED <<prevSig, signal, built>>
  <2>1. session.pc \in {"transmit", "transmitPin"} /\ Transmit(m) /\ UNCHANGED <<prevSig, signal, built>>
    BY DEF TransmitAnswer
  <2>2. isClientConnected /\ ~(built < 3)
    BY <2>1 DEF IInv, Shape
  <2>3. TypeOK
    BY DEF IInv, Shape
  <2>4. built = 3 /\ m \in Messages /\ status.held \in Messages
    BY <2>2, <2>3 DEF TypeOK
  <2>5. QED
    BY <2>1, <2>2, <2>3, <2>4
<1>2. /\ status' = [status EXCEPT !.held = Overtaken(status.held)]
      /\ status'.held.values = status.held.values
      /\ status'.held \in Messages
      /\ \A s \in Signals \ status'.held.slips : status'.held.values[s] = Untold
  BY <1>1, OvertakenType DEF IInv, Shape, TypeOK, TransmitAnswer
<1>3. /\ status' \in [pc : {"compare", "take", "store", "switch", "composeManeuver", "transmitManeuver",
                            "compose", "transmit", "asleep"},
                      at : 1..4, changed : BOOLEAN, settling : BOOLEAN,
                      taken : {Untold} \cup AnyValue, held : Messages]
      /\ status'.pc = status.pc /\ status'.at = status.at /\ status'.taken = status.taken
      /\ status'.changed = status.changed /\ status'.settling = status.settling
  BY <1>1, <1>2 DEF TypeOK
<1>4. /\ heard' \in [Signals -> {Untold} \cup AnyValue] /\ slipped' \subseteq Signals
      /\ isClientConnected' = isClientConnected
      /\ \A s \in Signals :
           \/ m.values[s] # Untold /\ heard'[s] = m.values[s] /\ (s \in m.slips => s \in slipped')
           \/ m.values[s] = Untold /\ heard'[s] = heard[s] /\ (s \in slipped => s \in slipped')
  BY <1>1, TransmitType
<1>5. /\ session' \in [pc : {"idle", "storePin"}, held : Messages] /\ Empty(session'.held)
      /\ session'.pc = "storePin" => session.pc = "transmitPin"
  <2>1. NoMessage \in Messages /\ Empty(NoMessage)
    BY NoMessageType
  <2> HIDE DEF NoMessage
  <2>2. QED
    BY <2>1 DEF TransmitAnswer
<1>6. Pin \in Signals /\ "ManeuverStatus" \in Signals
  BY DEF Pin, Signals
<1>7. Shape'
  <2>1. TypeOK'
    BY <1>1, <1>3, <1>4, <1>5 DEF TypeOK
  <2>2. QED
    BY <1>1, <1>2, <1>3, <1>4, <1>5, <2>1 DEF IInv, Shape, Empty
<1>8. Words'
  <2>1. ASSUME NEW s \in Signals \ slipped' PROVE Fresh(s, heard'[s])
    <3>1. CASE m.values[s] # Untold
      BY <1>4, <2>1, <3>1 DEF IInv, Words
    <3>2. CASE m.values[s] = Untold
      BY <1>4, <2>1, <3>2 DEF IInv, Words
    <3>3. QED
      BY <3>1, <3>2
  <2>2. \A s \in Signals : \A word : Fresh(s, word) => Fresh(s, word)'
    BY <1>1, <1>3 DEF Fresh
  <2>3. \A s \in Signals \ slipped' : Fresh(s, heard[s])'
    BY <1>1, <1>3, <2>1 DEF Fresh
  <2>4. \A s \in Signals \ session'.held.slips : Fresh(s, session.held.values[s])'
    BY <1>5 DEF Fresh, Empty
  <2>5. QED
    BY <1>2, <2>3, <2>4 DEF Words
<1>9. Writers'
  <2>1. session'.pc = "storePin" /\ Pin \notin slipped' => heard'[Pin] \in {Untold, signal[Pin]}
    <3>1. signal[Pin] # Untold
      BY <1>1, <1>6, Assigned DEF TypeOK
    <3>2. QED
      BY <1>4, <1>5, <1>6, <3>1 DEF IInv, Writers
  <2>2. QED
    BY <1>1, <1>2, <1>5, <1>6, <2>1 DEF Writers
<1>10. QED
  BY <1>7, <1>8, <1>9 DEF IInv

LEMMA StorePinInv == IInv /\ StorePin => IInv'
<1> SUFFICES ASSUME IInv, StorePin PROVE IInv'
  OBVIOUS
<1> DEFINE v == signal[Pin]
<1>1. session.pc = "storePin" /\ UNCHANGED <<signal, built, status, clientVars>>
  BY DEF StorePin
<1>2. Pin \in Signals /\ signal \in Assignments /\ prevSig \in Assignments
  BY DEF IInv, Shape, TypeOK, Pin, Signals
<1>3. prevSig' = [prevSig EXCEPT ![Pin] = v]
  BY DEF StorePin, Pin
<1>4. v \in Values[Pin]
  BY <1>2, Assigned
<1>5. \A w \in Values[Pin] :
          /\ [prevSig EXCEPT ![Pin] = w] \in Assignments
          /\ \A t \in Signals : [prevSig EXCEPT ![Pin] = w][t] = IF t = Pin THEN w ELSE prevSig[t]
  BY <1>2, Assigned
<1> HIDE DEF v
<1>6. /\ prevSig' \in Assignments
      /\ \A t \in Signals : prevSig'[t] = IF t = Pin THEN v ELSE prevSig[t]
  BY <1>3, <1>4, <1>5
<1>7. session' \in [pc : {"idle"}, held : Messages] /\ session'.held = session.held
  BY DEF IInv, Shape, TypeOK, StorePin
<1>8. /\ Pin \notin slipped => heard[Pin] \in {Untold, v}
      /\ Pin \notin status.held.slips => status.held.values[Pin] \in {Untold, v}
      /\ Empty(session.held)
  BY <1>1 DEF IInv, Writers, Shape, v
<1>9. Shape'
  BY <1>1, <1>6, <1>7 DEF IInv, Shape, TypeOK, Empty, clientVars
<1>10. Words'
  BY <1>1, <1>6, <1>7, <1>8 DEF IInv, Words, Fresh, Empty, clientVars
<1>11. Writers'
  BY <1>1, <1>7 DEF IInv, Writers
<1>12. QED
  BY <1>9, <1>10, <1>11 DEF IInv

LEMMA DecodeInv == IInv /\ Decode => IInv'
<1> SUFFICES ASSUME IInv, Decode PROVE IInv'
  OBVIOUS
<1>1. built = 3 /\ UNCHANGED <<prevSig, built, status, session, clientVars>>
  BY DEF Decode
<1>2. PICK s0 \in {"ManeuverStatus", "InfoMsg"} : \E v \in Values[s0] : signal' = [signal EXCEPT ![s0] = v]
  BY DEF Decode
<1>3. PICK v \in Values[s0] : signal' = [signal EXCEPT ![s0] = v]
  BY <1>2
<1>4. s0 \in Signals /\ s0 # Pin /\ Pin \in Signals
  BY DEF Signals, Pin
<1>5. \A w \in Values[s0] :
          /\ [signal EXCEPT ![s0] = w] \in Assignments
          /\ \A t \in Signals : [signal EXCEPT ![s0] = w][t] = IF t = s0 THEN w ELSE signal[t]
  BY <1>4, Assigned DEF IInv, Shape, TypeOK
<1>6. signal' \in Assignments /\ signal'[Pin] = signal[Pin]
  BY <1>3, <1>4, <1>5
<1>7. Shape'
  BY <1>1, <1>6 DEF IInv, Shape, TypeOK, Empty, clientVars
<1>8. Words'
  BY <1>1 DEF IInv, Words, Fresh, clientVars
<1>9. Writers'
  BY <1>1, <1>6 DEF IInv, Writers, clientVars
<1>10. QED
  BY <1>7, <1>8, <1>9 DEF IInv

-----------------------------------------------------------------------------
(* The invariant and what follows from it.                                  *)

\* Every word the client has is the one the status thread knows of, or a
\* message that puts it right is still to come, but for the two slips.
THEOREM Invariant == Spec => []IInv
<1>1. Init => IInv
  BY InitInv
<1>2. IInv /\ [Next]_vars => IInv'
  <2> SUFFICES ASSUME IInv, [Next]_vars PROVE IInv'
    OBVIOUS
  <2>1. CASE Construct
    BY <2>1, ConstructInv
  <2>2. CASE StatusThread
    BY <2>2, CompareInv, TakeInv, StoreInv, SwitchInv, EndPassInv, ComposeUpdateInv, TransmitUpdateInv, WakeInv
       DEF StatusThread
  <2>3. CASE Session
    BY <2>3, ConnectInv, DisconnectInv, SendPinInv, ComposeAnswerInv, TransmitAnswerInv, StorePinInv
       DEF Session
  <2>4. CASE Decode
    BY <2>4, DecodeInv
  <2>5. CASE UNCHANGED vars
    BY <2>5 DEF IInv, Shape, TypeOK, Words, Writers, Fresh, Empty, vars, clientVars
  <2>6. QED
    BY <2>1, <2>2, <2>3, <2>4, <2>5 DEF Next
<1>3. QED
  BY <1>1, <1>2, PTL DEF Spec

\* Signals, prevSig_ and messages hold values of their signals.
THEOREM TypeCorrect == Spec => []TypeOK
<1>1. IInv => TypeOK
  BY DEF IInv, Shape
<1>2. QED
  BY <1>1, Invariant, PTL

\* When the status thread sleeps the client knows what the thread knows.
THEOREM ClientIsTold == Spec => []ClientKnows
<1>1. IInv => ClientKnows
  BY DEF IInv, Shape, Words, Fresh, Telling, ClientKnows
<1>2. QED
  BY <1>1, Invariant, PTL
==============================================================================
