---------------------------- MODULE SignalExchange ----------------------------
(***************************************************************************)
(* The exchange of signals with the ASPM under the threads that write      *)
(* them.  The signal loop reads the signals one by one, part by part, into *)
(* a datagram (encodeTCMSignalData), sends it and waits for the answer; it *)
(* holds the lock of the signals all the while, which neither the session  *)
(* thread nor the button loop takes.  The session thread writes the        *)
(* signals of a request one by one, and the button loop lets go of a       *)
(* button that was pressed long enough.                                    *)
(*                                                                         *)
(* Of the ASPM only the decoding is here, and that it takes up a request   *)
(* when DeviceControlMode changes.                                         *)
(***************************************************************************)
EXTENDS BitPacking

CONSTANTS
    Table,        \* the signals of the PDU: <<name, width>>, in order
    Initial,      \* the values that both ends start with
    Requests,     \* what a request writes: sequences of <<name, word>>
    Connections,  \* bound: clients
    MaxRequests   \* bound: requests of a client

Names == {Table[k][1] : k \in DOMAIN Table}
Widths == [k \in DOMAIN Table |-> Table[k][2]]
Place(name) == CHOOSE k \in DOMAIN Table : Table[k][1] = name
Bytes == Offset(Widths, Len(Table) + 1) \div 8

Mode == "DeviceControlMode"
Button == "ManeuverButtonPress"
Time == "maneuverButtonPressTime_"
\* What tells the ASPM which maneuver it is to plan when the mode changes.
Selects == {"ManeuverGearSelect", "ManeuverTypeSelect", "ManeuverDirectionSelect",
            "ManeuverSideSelect"} \cap Names

ASSUME ExchangeAssumption ==
    /\ Table \in Seq(Names \X (Nat \ {0}))
    /\ \A j, k \in DOMAIN Table : Table[j][1] = Table[k][1] => j = k
    /\ Offset(Widths, Len(Table) + 1) % 8 = 0
    /\ Initial \in [Names -> SUBSET Nat]
    /\ \A n \in Names : Initial[n] \subseteq 0..Widths[Place(n)] - 1
    /\ {Mode, Button} \subseteq Names /\ Time \notin Names
    /\ Requests \subseteq Seq((Names \cup {Time}) \X SUBSET Nat)
    /\ Connections \in Nat /\ MaxRequests \in Nat

\* setManeuverButtonPress writes the button and then its time.
ASSUME PressAssumption ==
    \A r \in Requests : \A i \in DOMAIN r :
        r[i][1] = Button => i + 1 \in DOMAIN r /\ r[i + 1][1] = Time

\* The requests are those for a maneuver: they choose it in full before they set
\* the mode (setInputManeuverSignals, then setDeviceControlMode).
ASSUME ManeuverAssumption ==
    \A r \in Requests : \A i \in DOMAIN r :
        r[i][1] = Mode => \A n \in Selects : \E j \in 1..i - 1 : r[j][1] = n

VARIABLES
    signals,      \* the signals of the telematics unit
    todo,         \* what the session thread has yet to write of a request
    connected,    \* ConnectionApproval is not NoDevice
    buttonTime,   \* maneuverButtonPressTime_: "zero", "new", or "old" when timed out
    looper,       \* where the button loop is: "test", "clear" or "time"
    link,         \* where the signal loop and its datagram are
    field, part,  \* what encodeTCMSignalData reads next
    buffer,       \* the datagram
    decoder,      \* how far decodeTCMSignalData is
    asp,          \* the TCM signals of the ASPM
    lastMode,     \* lastDeviceControlMode
    clients, requests,               \* counted against the bounds
    version, carried, readAs, torn,  \* history: see below
    shown, raced                     \* history of the button

sessionVars == <<todo, connected, clients, requests>>
buttonVars == <<buttonTime, looper>>
encodeVars == <<field, part, buffer, carried, readAs, torn>>
aspVars == <<decoder, asp, lastMode>>
vars == <<signals, sessionVars, buttonVars, link, encodeVars, aspVars, version, shown, raced>>

\* version:  the request that wrote a signal last.
\* carried, readAs: of what request is the value in the datagram, and the value.
\* torn:     a request wrote while the datagram was made.
\* shown:    the ASPM was sent the button pressed last.
\* raced:    it was pressed while the button loop was at work on the one before,
\*           or with the time of one that was let go of meanwhile, or its client
\*           left before the ASPM was sent it.

Init ==
    /\ signals = Initial /\ asp = Initial
    /\ decoder = Start /\ lastMode = Initial[Mode]
    /\ todo = <<>> /\ connected = FALSE /\ clients = 0 /\ requests = 0
    /\ buttonTime = "zero" /\ looper = "test"
    /\ link = "idle" /\ field = 1 /\ part = LastPart(Widths[1]) /\ buffer = Blank(Bytes)
    /\ version = [n \in Names |-> 0] /\ carried = [n \in Names |-> 0]
    /\ readAs = Initial
    /\ torn = FALSE /\ shown = TRUE /\ raced = FALSE

-----------------------------------------------------------------------------
(* The session thread.                                                      *)

Connect ==
    /\ ~connected /\ clients < Connections
    /\ connected' = TRUE /\ clients' = clients + 1 /\ requests' = 0
    /\ UNCHANGED <<signals, todo, buttonVars, link, encodeVars, aspVars, version, shown, raced>>

Disconnect ==
    /\ connected /\ todo = <<>>
    /\ connected' = FALSE
    /\ raced' = (raced \/ ~shown)
    /\ UNCHANGED <<signals, todo, clients, requests, buttonVars, link, encodeVars, aspVars, version, shown>>

Request ==
    /\ connected /\ todo = <<>> /\ requests < MaxRequests
    /\ todo' \in Requests /\ requests' = requests + 1
    /\ UNCHANGED <<signals, connected, clients, buttonVars, link, encodeVars, aspVars, version, shown, raced>>

CurrentRequest == (clients - 1) * MaxRequests + requests

\* A press is the button and then its time, to which the button loop may come
\* in between.
WriteSignal_ModeFirst ==
    /\ todo # <<>> /\ todo' = SubSeq(todo, 1, Len(todo) - 1)
    /\ LET name == todo[Len(todo)][1]
           word == todo[Len(todo)][2]
       IN \/ /\ name = Time
             /\ buttonTime' = "new"
             /\ raced' = (raced \/ signals[Button] = {})
             /\ UNCHANGED <<signals, version, torn, shown>>
          \/ /\ name # Time
             /\ signals' = [signals EXCEPT ![name] = word]
             /\ version' = [version EXCEPT ![name] = CurrentRequest]
             /\ torn' = (torn \/ link = "encode")
             /\ IF name = Button
                THEN /\ shown' = (word = {})
                     /\ raced' = \/ looper = "clear"
                                 \/ buttonTime = "old" /\ signals[Button] # {}
                                 \/ buttonTime # "zero" /\ raced
                ELSE UNCHANGED <<shown, raced>>
             /\ UNCHANGED buttonTime
    /\ UNCHANGED <<connected, clients, requests, looper, link, field, part, buffer, carried, readAs, aspVars>>
WriteSignal ==
    /\ todo # <<>> /\ todo' = Tail(todo)
    /\ LET name == Head(todo)[1]
           word == Head(todo)[2]
       IN \/ /\ name = Time
             /\ buttonTime' = "new"
             /\ raced' = (raced \/ signals[Button] = {})
             /\ UNCHANGED <<signals, version, torn, shown>>
          \/ /\ name # Time
             /\ signals' = [signals EXCEPT ![name] = word]
             /\ version' = [version EXCEPT ![name] = CurrentRequest]
             /\ torn' = (torn \/ link = "encode")
             /\ IF name = Button
                THEN /\ shown' = (word = {})
                     /\ raced' = \/ looper = "clear"
                                 \/ buttonTime = "old" /\ signals[Button] # {}
                                 \/ buttonTime # "zero" /\ raced
                ELSE UNCHANGED <<shown, raced>>
             /\ UNCHANGED buttonTime
    /\ UNCHANGED <<connected, clients, requests, looper, link, field, part, buffer, carried, readAs, aspVars>>

-----------------------------------------------------------------------------
(* The button loop.                                                         *)

Rest == UNCHANGED <<sessionVars, link, encodeVars, aspVars, version, shown, raced>>

TestButton_NeverStarts ==
    /\ looper = "test" /\ signals[Button] # {}
    /\ buttonTime = "old" /\ looper' = "clear"
    /\ UNCHANGED <<buttonTime, signals>> /\ Rest
TestButton ==
    /\ looper = "test" /\ signals[Button] # {}
    /\ \/ buttonTime = "zero" /\ buttonTime' = "new" /\ UNCHANGED looper
       \/ buttonTime = "old" /\ looper' = "clear" /\ UNCHANGED buttonTime
    /\ UNCHANGED signals /\ Rest

ClearButton ==
    /\ looper = "clear"
    /\ signals' = [signals EXCEPT ![Button] = {}]
    /\ looper' = "time"
    /\ UNCHANGED buttonTime /\ Rest

ClearTime_Keeps ==
    /\ looper = "time"
    /\ looper' = "test"
    /\ UNCHANGED <<buttonTime, signals>> /\ Rest
ClearTime ==
    /\ looper = "time"
    /\ buttonTime' = "zero" /\ looper' = "test"
    /\ UNCHANGED signals /\ Rest

\* A press lasts 240 ms, an exchange is due every 30 ms: as long as datagrams go,
\* one that was made after the press arrives before it has timed out.
TimePasses ==
    /\ buttonTime = "new"
    /\ shown \/ ~connected \/ link = "lost"
    /\ buttonTime' = "old"
    /\ UNCHANGED <<signals, looper>> /\ Rest

-----------------------------------------------------------------------------
(* The signal loop.                                                         *)

Elsewhere == UNCHANGED <<signals, sessionVars, buttonVars, version, raced>>

BeginEncode_KeepsBuffer ==
    /\ link = "idle" /\ connected
    /\ link' = "encode"
    /\ field' = 1 /\ part' = LastPart(Widths[1])
    /\ buffer' = [buffer EXCEPT !.index = 1, !.startBit = 0]
    /\ torn' = FALSE
    /\ UNCHANGED <<carried, readAs, aspVars, shown>> /\ Elsewhere
BeginEncode ==
    /\ link = "idle" /\ connected
    /\ link' = "encode"
    /\ field' = 1 /\ part' = LastPart(Widths[1]) /\ buffer' = Blank(Bytes)
    /\ torn' = FALSE
    /\ UNCHANGED <<carried, readAs, aspVars, shown>> /\ Elsewhere

\* The signal is read anew for each of its parts.
EncodePart ==
    /\ link = "encode"
    /\ LET name == Table[field][1]
           width == Widths[field]
           word == signals[name]
       IN /\ buffer' = Put(buffer, Part(word, width, part), PartWidth(width, part))
          /\ carried' = [carried EXCEPT ![name] = version[name]]
          /\ readAs' = [readAs EXCEPT ![name] =
                          IF part = LastPart(width) THEN word
                          ELSE (@ \ (0..8 * part + 7)) \cup (word \cap (0..8 * part + 7))]
    /\ \/ part > 0 /\ part' = part - 1 /\ UNCHANGED <<field, link>>
       \/ /\ part = 0 /\ field < Len(Table)
          /\ field' = field + 1 /\ part' = LastPart(Widths[field + 1])
          /\ UNCHANGED link
       \/ part = 0 /\ field = Len(Table) /\ link' = "sent" /\ UNCHANGED <<field, part>>
    /\ UNCHANGED <<torn, aspVars, shown>> /\ Elsewhere

Receive ==
    /\ link = "sent" /\ link' = "decode"
    /\ field' = 1 /\ decoder' = Start
    /\ UNCHANGED <<part, buffer, carried, readAs, torn, asp, lastMode, shown>> /\ Elsewhere

\* A turn of the loop of decodeTCMSignalData that reads a signal.
DecodeBits ==
    /\ link = "decode"
    /\ LET d == TakeBits(decoder, buffer.data, Widths[field])
       IN \/ /\ d.read < Widths[field]
             /\ decoder' = d
             /\ UNCHANGED <<field, link, asp>>
          \/ /\ d.read = Widths[field]
             /\ asp' = [asp EXCEPT ![Table[field][1]] = d.word]
             /\ decoder' = Begin(d)
             /\ IF field < Len(Table) THEN field' = field + 1 /\ UNCHANGED link
                ELSE link' = "decoded" /\ UNCHANGED field
    /\ UNCHANGED <<part, buffer, carried, readAs, torn, lastMode, shown>> /\ Elsewhere

\* The ASPM takes up the mode if it is not that of the turn before, and answers.
TakesUp == asp[Mode] # lastMode
Turn ==
    /\ link = "decoded" /\ link' = "answered"
    /\ lastMode' = asp[Mode]
    /\ shown' = (shown \/ readAs[Button] = signals[Button])
    /\ UNCHANGED <<encodeVars, decoder, asp>> /\ Elsewhere

\* The answer is decoded, and the lock let go of.
Decode ==
    /\ link = "answered" /\ link' = "idle"
    /\ UNCHANGED <<encodeVars, aspVars, shown>> /\ Elsewhere

\* Nothing notices that a datagram is lost: both ends wait for the other.
Lose ==
    /\ link \in {"sent", "answered"} /\ link' = "lost"
    /\ UNCHANGED <<encodeVars, aspVars, shown>> /\ Elsewhere

-----------------------------------------------------------------------------
ButtonLoop == TestButton \/ ClearButton \/ ClearTime
SignalLoop == BeginEncode \/ EncodePart \/ Receive \/ DecodeBits \/ Turn \/ Decode

Next == Connect \/ Disconnect \/ Request \/ WriteSignal \/ ButtonLoop \/ TimePasses \/ SignalLoop \/ Lose

Spec == Init /\ [][Next]_vars

\* The threads and the ASPM keep running, and time passes.
FairSpec == Spec /\ WF_vars(WriteSignal) /\ WF_vars(ButtonLoop) /\ WF_vars(TimePasses) /\ WF_vars(SignalLoop)

-----------------------------------------------------------------------------
(* Properties.                                                              *)

TypeOK ==
    /\ \A n \in Names : signals[n] \subseteq Nat /\ asp[n] \subseteq 0..Widths[Place(n)] - 1
    /\ connected \in BOOLEAN /\ buttonTime \in {"zero", "new", "old"}
    /\ looper \in {"test", "clear", "time"}
    /\ link \in {"idle", "encode", "sent", "decode", "decoded", "answered", "lost"}
    /\ field \in DOMAIN Table /\ part \in 0..LastPart(Widths[field])
    /\ buffer.data \in [1..Bytes -> SUBSET Byte]
    /\ buffer.index \in 1..Bytes + 1 /\ buffer.startBit \in Byte
    /\ torn \in BOOLEAN /\ shown \in BOOLEAN /\ raced \in BOOLEAN

\* The ASPM is given each signal as it was read, cut to its width, wherever it
\* lies in the bytes; only a value that has too many bits for its signal spoils
\* others, and only those before it in the byte that it begins in.
ReadWords == [k \in DOMAIN Table |-> readAs[Table[k][1]]]
ArrivesAsRead ==
    link = "decoded" =>
        \A k \in DOMAIN Table :
            \/ asp[Table[k][1]] = Within(ReadWords[k], Widths[k])
            \/ \E g \in DOMAIN Table : SpoiltBy(Widths, k, ReadWords, g)

\* When the ASPM takes up a mode, what it is told to do in that mode is of the
\* request that set the mode or of a later one: a request writes the mode last,
\* and a datagram carries it before the type, direction and side.  The gear is
\* read before the mode: it is of that request unless the request fell into the
\* making of the datagram.
TakesWhatWasAsked ==
    [][Turn /\ TakesUp =>
        \A n \in Selects : \/ carried[n] >= carried[Mode]
                           \/ torn /\ Place(n) < Place(Mode)]_vars

\* The button loop lets go of a button only after a datagram has carried it, or
\* if it was pressed while the loop was at work on the one before or with the
\* time of that one, if its client left before, or if no datagrams go.
ShownBeforeReleased ==
    [][ClearButton => shown \/ raced \/ link = "lost"]_vars

\* No button stays pressed.
Releases == []<>(signals[Button] = {})

\* What the session thread wrote is what the ASPM is given in the end, all signals
\* of it, unless a datagram is lost or the client leaves.
Arrived ==
    LET words == [k \in DOMAIN Table |-> signals[Table[k][1]]]
    IN \A k \in DOMAIN Table : \/ asp[Table[k][1]] = Within(words[k], Widths[k])
                               \/ \E g \in DOMAIN Table : SpoiltBy(Widths, k, words, g)
Arrives == connected ~> (Arrived \/ ~connected \/ link = "lost")
==============================================================================
