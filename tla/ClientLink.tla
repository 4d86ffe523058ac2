------------------------------ MODULE ClientLink ------------------------------
(***************************************************************************)
(* The TCP link to the client (SocketHandler) under its two users: the     *)
(* session thread, which reads messages and answers them, and the status   *)
(* thread, which writes when it has something to tell.  Both write the     *)
(* four parts of a message (length of the header, length of the body,      *)
(* header, body) with one write each and without a lock.                   *)
(*                                                                         *)
(* The bytes of a message are tokens: those of the two lengths, then as    *)
(* many of contents as they say.  A token is the message it is of, its     *)
(* place in it and the byte.  They arrive one by one, the client may close *)
(* or be cut off between any two, and a read of contents returns as many   *)
(* as it likes of those that are there.  A length is read once, as much of *)
(* it as has arrived; what follows is then taken for what it is not.       *)
(***************************************************************************)
EXTENDS Integers, Sequences

CONSTANTS
    LengthBytes,  \* sizeof(uint32_t), the bytes of a length
    UInt32,       \* how many numbers they can stand for
    ntohl(_),     \* the one that they stand for
    Byte,         \* values of a byte
    Text,         \* the byte of any text
    Sizes,        \* <<length of the header, length of the body>> of a message, as bytes
    MaxMessages   \* bound: messages of a client

Lengths == [1..LengthBytes -> Byte]

ASSUME LengthAssumption ==
    /\ LengthBytes \in Nat \ {0} /\ UInt32 \in Nat
    /\ 0 \in Byte /\ Text \in Byte \ {0}
    /\ \A bytes \in Lengths : ntohl(bytes) \in 0..UInt32 - 1

ASSUME LinkAssumption ==
    /\ Sizes \subseteq Lengths \X Lengths
    /\ \A size \in Sizes :
          /\ ntohl(size[1]) = 0 => ntohl(size[2]) = 0  \* a body comes with a header
          /\ ntohl(size[1]) + ntohl(size[2]) < UInt32
    /\ MaxMessages \in Nat

VARIABLES
    client,       \* the other end: "open", "closed" by the client, or "reset"
    toSend,       \* tokens of the message that the client is sending
    stream,       \* tokens that have arrived and are not yet read
    session,      \* where the session thread is
    clientSocket, \* clientSocket_ is an open descriptor
    readVal,      \* what the last read of contents returned: -1, 0 or more
    received,     \* headerLen, bodyLen and the contents read so far
    attended,     \* approval and ranging rate are set for a client
    writing,      \* for each thread the parts it has written of a message
    reader,       \* the part that the client expects next, and from whom
    framed,       \* the client has not lost the framing
    alive,        \* the process runs
    sent, handled, overlap, \* history
    cut           \* history: a read of this client's returned a part of a length

vars == <<client, toSend, stream, session, clientSocket, readVal, received, attended,
          writing, reader, framed, alive, sent, handled, overlap, cut>>
clientVars == <<client, toSend, stream, sent>>
readVars == <<session, clientSocket, readVal, received, attended, handled, cut>>
writeVars == <<writing, reader, framed, overlap>>

Threads == {"session", "status"}
Other(t) == IF t = "session" THEN "status" ELSE "session"

\* The n-th message of a connection: bye is the text "disconnectMobile".
Messages == [id : 1..MaxMessages, size : Sizes, bye : BOOLEAN]
HeaderLen(m) == ntohl(m.size[1])
BodyLen(m) == ntohl(m.size[2])
ByteOf(m, k) ==
    IF k <= LengthBytes THEN m.size[1][k]
    ELSE IF k <= 2 * LengthBytes THEN m.size[2][k - LengthBytes]
    ELSE Text
Tokens(m) ==
    [k \in 1..2 * LengthBytes + HeaderLen(m) + BodyLen(m) |-> <<m.id, k, ByteOf(m, k)>>]
Contents(m) == [k \in 1..HeaderLen(m) + BodyLen(m) |-> Tokens(m)[k + 2 * LengthBytes]]

Nothing == [headerLen |-> 0, bodyLen |-> 0, contents |-> <<>>]

\* Their sum is a uint32_t too.
Needed ==
    LET sum == received.headerLen + received.bodyLen
    IN IF sum < UInt32 THEN sum ELSE sum - UInt32

Init ==
    /\ client = "closed" /\ toSend = <<>> /\ stream = <<>>
    /\ session = "accept" /\ clientSocket = FALSE /\ readVal = 0 /\ received = Nothing
    /\ attended = FALSE
    /\ writing = [t \in Threads |-> 0]
    /\ reader = [part |-> 1, from |-> "session"] /\ framed = TRUE
    /\ alive = TRUE
    /\ sent = <<>> /\ handled = <<>> /\ overlap = FALSE /\ cut = FALSE

-----------------------------------------------------------------------------
(* The client.                                                              *)

Begin ==
    /\ client = "open" /\ toSend = <<>> /\ Len(sent) < MaxMessages
    /\ \E m \in {m \in Messages : m.id = Len(sent) + 1 /\ (m.bye => HeaderLen(m) # 0)} :
          toSend' = Tokens(m) /\ sent' = Append(sent, m)
    /\ UNCHANGED <<client, stream, readVars, writeVars, alive>>

Arrive ==
    /\ toSend # <<>>
    /\ toSend' = Tail(toSend)
    /\ stream' = Append(stream, Head(toSend))
    /\ UNCHANGED <<client, sent, readVars, writeVars, alive>>

\* In the middle of a message or between two, in good order or cut off.
Leave ==
    /\ client = "open"
    /\ client' \in {"closed", "reset"}
    /\ toSend' = <<>>
    /\ UNCHANGED <<stream, sent, readVars, writeVars, alive>>

-----------------------------------------------------------------------------
(* receiveTCP and the loop of spin around it.                               *)

Arrived == stream # <<>>
AtEnd == ~Arrived /\ client # "open"   \* read returns 0 or an error
Reads == UNCHANGED <<client, toSend, sent, writeVars, alive>>

connectClient ==
    /\ session = "accept"
    /\ client' = "open" /\ toSend' = <<>> /\ stream' = <<>> /\ sent' = <<>> /\ handled' = <<>>
    /\ session' = "headerLen" /\ clientSocket' = TRUE /\ attended' = TRUE
    /\ received' = Nothing /\ cut' = FALSE
    /\ reader' = [part |-> 1, from |-> "session"] /\ framed' = TRUE
    /\ overlap' = (writing["status"] > 0)
    /\ UNCHANGED <<readVal, writing, alive>>

\* A length is read into four bytes of 0 by one read, of which only an error and
\* the end of the stream are looked at.
Buffer(n) == [k \in 1..LengthBytes |-> IF k <= n THEN stream[k][3] ELSE 0]
Takes(n) ==
    /\ n <= Len(stream) /\ (n < LengthBytes => n = Len(stream))
    /\ stream' = SubSeq(stream, n + 1, Len(stream))
    /\ cut' = (cut \/ n < LengthBytes)

\* At the end of the stream the socket is closed, and spin finds it closed; the
\* value that spin looks at next is left as it was.
ReadHeaderLen_Retries ==
    /\ session = "headerLen"
    /\ \/ /\ \E n \in 1..LengthBytes :
                Takes(n) /\ received' = [Nothing EXCEPT !.headerLen = ntohl(Buffer(n))]
          /\ session' = "bodyLen"
          /\ UNCHANGED <<clientSocket, readVal>>
       \/ /\ AtEnd /\ client = "reset"
          /\ session' = "check" /\ received' = Nothing /\ readVal' = -1
          /\ UNCHANGED <<stream, clientSocket, cut>>
    /\ UNCHANGED <<attended, handled>> /\ Reads
ReadHeaderLen ==
    /\ session = "headerLen"
    /\ \/ /\ \E n \in 1..LengthBytes :
                Takes(n) /\ received' = [Nothing EXCEPT !.headerLen = ntohl(Buffer(n))]
          /\ session' = "bodyLen"
          /\ UNCHANGED <<clientSocket, readVal>>
       \/ /\ AtEnd
          /\ session' = "check" /\ received' = Nothing /\ clientSocket' = FALSE
          /\ UNCHANGED <<stream, readVal, cut>>
       \/ /\ AtEnd /\ client = "reset"
          /\ session' = "check" /\ received' = Nothing /\ readVal' = -1
          /\ UNCHANGED <<stream, clientSocket, cut>>
    /\ UNCHANGED <<attended, handled>> /\ Reads

\* A length of the body that never arrives is taken for 0.
ReadBodyLen ==
    /\ session = "bodyLen"
    /\ \/ /\ \E n \in 1..LengthBytes :
                Takes(n) /\ received' = [received EXCEPT !.bodyLen = ntohl(Buffer(n))]
          /\ session' = "contents"
          /\ UNCHANGED readVal
       \/ /\ AtEnd
          /\ session' = "contents"
          /\ UNCHANGED <<received, stream, readVal, cut>>
       \/ /\ AtEnd /\ client = "reset"
          /\ session' = "check" /\ readVal' = -1
          /\ UNCHANGED <<received, stream, cut>>
    /\ UNCHANGED <<clientSocket, attended, handled>> /\ Reads

\* A read at the end of the stream adds nothing, and the loop goes on.
ReadContents ==
    /\ session = "contents" /\ Len(received.contents) < Needed
    /\ \/ /\ Arrived
          /\ \E n \in 1..Len(stream) :
                /\ n <= Needed - Len(received.contents)
                /\ received' = [received EXCEPT !.contents = @ \o SubSeq(stream, 1, n)]
                /\ stream' = SubSeq(stream, n + 1, Len(stream))
          /\ readVal' = 1
       \/ AtEnd /\ readVal' \in {0, -1} /\ UNCHANGED <<received, stream>>
    /\ UNCHANGED <<session, clientSocket, attended, handled, cut>> /\ Reads

EndContents_OneRead ==
    /\ session = "contents" /\ (Needed = 0 \/ received.contents # <<>>)
    /\ session' = "check"
    /\ UNCHANGED <<stream, clientSocket, readVal, received, attended, handled, cut>> /\ Reads
EndContents_EachItsOwn ==
    /\ session = "contents" /\ Len(received.contents) = Needed
    /\ session' = "check"
    /\ readVal' = IF Needed = 0 THEN 0 ELSE 1
    /\ UNCHANGED <<stream, clientSocket, received, attended, handled, cut>> /\ Reads
EndContents ==
    /\ session = "contents" /\ Len(received.contents) = Needed
    /\ session' = "check"
    /\ UNCHANGED <<stream, clientSocket, readVal, received, attended, handled, cut>> /\ Reads

\* spin passes on what was received as a C string: the places before the first 0.
InString == {k \in 1..Len(received.contents) : \A j \in 1..k : received.contents[j][3] # 0}
SaysBye ==
    \E n \in 1..Len(sent) :
        /\ sent[n].bye
        /\ \A i \in DOMAIN Contents(sent[n]) :
              \E k \in InString : received.contents[k] = Contents(sent[n])[i]
GivenUp == ~clientSocket \/ SaysBye \/ readVal \in {-1, 0}

\* A header said to be longer than that string makes substr throw, and nobody
\* catches it.
HeaderInString == received.headerLen \in InString \cup {0}
Throw ==
    /\ session = "check" /\ ~GivenUp /\ ~HeaderInString
    /\ alive' = FALSE
    /\ UNCHANGED <<clientVars, stream, readVars, writeVars>>

\* The message is handled; a handler may answer, if the socket is still open.
Handle ==
    /\ session = "check" /\ ~GivenUp /\ HeaderInString
    /\ handled' = Append(handled, received) /\ received' = Nothing
    /\ session' \in {"headerLen", "write"}
    /\ UNCHANGED <<stream, clientSocket, readVal, attended, cut>> /\ Reads

EndSession ==
    /\ session = "check" /\ GivenUp
    /\ session' = "accept" /\ clientSocket' = FALSE /\ attended' = FALSE
    /\ client' = "closed" /\ toSend' = <<>> /\ stream' = <<>> /\ received' = Nothing
    /\ UNCHANGED <<readVal, handled, cut, sent, writeVars, alive>>

-----------------------------------------------------------------------------
(* sendTCP.  A write to a client that has left is lost and brings about a   *)
(* reset; after that a write fails or ends the process with SIGPIPE.        *)

Expected(t, part) == part = reader.part /\ (part = 1 \/ t = reader.from)

Reaches_FifthPart(t, part) ==
    /\ framed' = (framed /\ Expected(t, part))
    /\ reader' = [part |-> part + 1, from |-> t]
Reaches(t, part) ==
    /\ framed' = (framed /\ Expected(t, part))
    /\ reader' = [part |-> (part % 4) + 1, from |-> t]

\* A message starts after checkClientConnection; a failing length ends it.
WritePart_HeaderTwice(t) ==
    LET part == writing[t] + 1
        next == IF part = 4 THEN 0 ELSE IF part = 2 THEN 3 ELSE part
    IN /\ writing' = [writing EXCEPT ![t] = next]
       /\ overlap' = (overlap \/ writing[Other(t)] > 0)
       /\ IF clientSocket /\ client = "open"
          THEN Reaches(t, part) ELSE UNCHANGED <<reader, framed>>
       /\ UNCHANGED <<client, alive>>
WritePart(t) ==
    LET part == writing[t] + 1
        Written == writing' = [writing EXCEPT ![t] = part % 4]
        Failed == writing' = [writing EXCEPT ![t] = IF part <= 2 THEN 0 ELSE part % 4]
    IN /\ overlap' = (overlap \/ writing[Other(t)] > 0)
       /\ \/ /\ ~clientSocket
             /\ Failed /\ UNCHANGED <<client, reader, framed, alive>>
          \/ /\ clientSocket /\ client = "open"
             /\ Written /\ Reaches(t, part) /\ UNCHANGED <<client, alive>>
          \/ /\ clientSocket /\ client = "closed"
             /\ Written /\ client' \in {"closed", "reset"} /\ UNCHANGED <<reader, framed, alive>>
          \/ /\ clientSocket /\ client = "reset"
             /\ Failed /\ UNCHANGED <<client, reader, framed, alive>>
          \/ /\ clientSocket /\ client = "reset"
             /\ alive' = FALSE /\ UNCHANGED <<client, writing, reader, framed>>

Writes == UNCHANGED <<toSend, stream, sent, clientSocket, readVal, received, attended, handled, cut>>

Answer ==
    /\ session = "write"
    /\ WritePart("session")
    /\ session' = IF writing'["session"] = 0 THEN "headerLen" ELSE "write"
    /\ Writes

StatusMessage ==
    /\ writing["status"] > 0 \/ clientSocket
    /\ WritePart("status")
    /\ UNCHANGED session
    /\ Writes

-----------------------------------------------------------------------------
SessionThread ==
    /\ alive
    /\ \/ ReadHeaderLen \/ ReadBodyLen \/ ReadContents \/ EndContents
       \/ Throw \/ Handle \/ EndSession \/ Answer
Client == alive /\ (connectClient \/ Begin \/ Arrive \/ Leave)
StatusThread == alive /\ StatusMessage

Next == SessionThread \/ Client \/ StatusThread

Spec == Init /\ [][Next]_vars

\* The session thread keeps running; the client and the status thread need not.
FairSpec == Spec /\ WF_vars(SessionThread)

-----------------------------------------------------------------------------
(* Properties.                                                              *)

Token == (1..MaxMessages) \X Nat \X Byte

TypeOK ==
    /\ client \in {"open", "closed", "reset"}
    /\ toSend \in Seq(Token) /\ stream \in Seq(Token)
    /\ session \in {"accept", "headerLen", "bodyLen", "contents", "check", "write"}
    /\ clientSocket \in BOOLEAN /\ readVal \in {-1, 0, 1}
    /\ received.headerLen \in Nat /\ received.bodyLen \in Nat
    /\ received.contents \in Seq(Token)
    /\ attended \in BOOLEAN
    /\ writing \in [Threads -> 0..3]
    /\ reader.part \in 1..4 /\ reader.from \in Threads
    /\ framed \in BOOLEAN /\ alive \in BOOLEAN /\ overlap \in BOOLEAN /\ cut \in BOOLEAN

\* However the client's bytes are cut up, and wherever it leaves, its messages
\* are handled whole, in order, once each, unless a read finds a part of a length
\* only: the link implements the channel of ClientChannel.tla.
AsReceived(m) ==
    [headerLen |-> HeaderLen(m), bodyLen |-> BodyLen(m), contents |-> Contents(m)]
AllReceived == {AsReceived(m) : m \in Messages}
Channel == INSTANCE ClientChannel WITH
    Messages <- AllReceived,
    sent <- [k \in 1..Len(sent) |-> AsReceived(sent[k])]
ImplementsChannel == Channel!ChannelSpec

\* spin ends a session only because the client left or said so, or because it
\* began with empty messages: the value of the last read, which outlives the
\* message and even the client it belongs to, is the reason in no other case.
EndsForAReason ==
    [][EndSession => \/ client # "open"
                     \/ SaysBye
                     \/ Needed = 0 /\ \A k \in 1..Len(handled) : handled[k].contents = <<>>]_vars

\* A client that leaves between two messages is noticed, also while the status
\* thread writes to it.  (In the middle of a message it is not: ReadContents
\* goes on for ever.)
LossNoticed ==
    (session = "headerLen" /\ AtEnd) ~> (~attended \/ ~alive)

\* The client keeps the framing of what it is sent as long as the two threads
\* never have a message under way at the same time and none was begun for the
\* client before.
OneAtATimeIsFramed == ~overlap => framed
==============================================================================
