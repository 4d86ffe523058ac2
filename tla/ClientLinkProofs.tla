--------------------------- MODULE ClientLinkProofs ---------------------------
(***************************************************************************)
(* The TCP link under its two threads: when the client keeps the framing   *)
(* of what it is sent, what a session can end for, and that the handlers   *)
(* are given the messages of the client whole, in order and once each      *)
(* until a length is read in part, for messages of any size and any number *)
(* of them.                                                                *)
(***************************************************************************)
EXTENDS ClientLink, TLAPS, SequenceTheorems

Sessions == {"accept", "headerLen", "bodyLen", "contents", "check", "write"}

\* A client is served by an open socket, and only while it is attended to.
ServedInv ==
    /\ client \in {"open", "closed", "reset"} /\ session \in Sessions
    /\ clientSocket \in BOOLEAN
    /\ client = "open" => clientSocket /\ session # "accept"

\* Until two messages overlap the client expects the part that the thread with a
\* message under way writes next.
WriteInv ==
    /\ writing \in [Threads -> 0..3]
    /\ session # "write" => writing["session"] = 0
    /\ reader \in [part : 1..4, from : Threads]
    /\ framed \in BOOLEAN /\ overlap \in BOOLEAN
    /\ client = "open" /\ ~overlap =>
          \/ (\A t \in Threads : writing[t] = 0) /\ reader.part = 1
          \/ \E t \in Threads :
                /\ writing[t] # 0 /\ writing[Other(t)] = 0
                /\ reader = [part |-> writing[t] + 1, from |-> t]
    /\ ~overlap => framed

\* The value of the last read is that of this client's contents, or this client
\* has sent no contents yet.
ReadInv ==
    /\ received = [headerLen |-> received.headerLen, bodyLen |-> received.bodyLen,
                   contents |-> received.contents]
    /\ readVal \in {-1, 0, 1}
    /\ client = "open" =>
          \/ readVal = 1
          \/ received.contents = <<>> /\ \A k \in 1..Len(handled) : handled[k].contents = <<>>
    /\ client = "open" /\ session = "check" => Len(received.contents) = Needed

IInv == ServedInv /\ WriteInv /\ ReadInv

-----------------------------------------------------------------------------
(* What the client does.                                                    *)

LEMMA ConnectInv ==
  ASSUME IInv, connectClient
  PROVE  IInv'
<1>1. ServedInv'
  BY DEF connectClient, ServedInv, Sessions
<1>2. WriteInv'
  <2>1. writing \in [Threads -> 0..3] /\ writing' = writing /\ writing["session"] = 0
        /\ session' # "write" /\ framed' = TRUE /\ overlap' = (writing["status"] > 0)
    BY DEF connectClient, IInv, WriteInv
  <2>2. reader' = [part |-> 1, from |-> "session"] /\ reader' \in [part : 1..4, from : Threads]
    BY DEF connectClient, Threads
  <2>3. ~overlap' => \A t \in Threads : writing[t] = 0
    <3>1. ~overlap' => ~(writing["status"] > 0)
      BY <2>1
    <3>2. writing["status"] \in 0..3
      BY <2>1 DEF Threads
    <3>3. QED
      BY <2>1, <3>1, <3>2 DEF Threads
  <2>4. QED
    BY <2>1, <2>2, <2>3 DEF WriteInv
<1>3. ReadInv'
  <2>1. received' = Nothing /\ handled' = <<>> /\ readVal' = readVal /\ session' = "headerLen"
    BY DEF connectClient
  <2>2. QED
    BY <2>1 DEF IInv, ReadInv, Nothing
<1>4. QED
  BY <1>1, <1>2, <1>3 DEF IInv

\* Sending, or leaving, changes nothing that the two threads go by.
LEMMA ClientInv ==
  ASSUME IInv, Begin \/ Arrive \/ Leave
  PROVE  IInv'
<1>1. /\ session' = session /\ clientSocket' = clientSocket /\ readVal' = readVal
      /\ received' = received /\ handled' = handled
      /\ writing' = writing /\ reader' = reader /\ framed' = framed /\ overlap' = overlap
      /\ client' = client \/ client' \in {"closed", "reset"}
  BY DEF Begin, Arrive, Leave, readVars, writeVars
<1>2. QED
  BY <1>1 DEF IInv, ServedInv, WriteInv, ReadInv, Needed

-----------------------------------------------------------------------------
(* What the session thread does.                                            *)

\* Reading leaves what is written alone.
LEMMA ReadsKeepWrites ==
  ASSUME WriteInv, Reads, session # "write"
  PROVE  WriteInv'
  BY DEF WriteInv, Reads, writeVars

LEMMA ReadHeaderLenInv ==
  ASSUME IInv, ReadHeaderLen
  PROVE  IInv'
<1>1. session = "headerLen" /\ session' \in {"bodyLen", "check"} /\ Reads /\ client' = client /\ handled' = handled
  BY DEF ReadHeaderLen, Reads
<1>2. WriteInv'
  BY <1>1, ReadsKeepWrites DEF IInv
<1>3. CASE /\ session' = "bodyLen" /\ UNCHANGED <<clientSocket, readVal>>
           /\ \E n \in 1..LengthBytes :
                 Takes(n) /\ received' = [Nothing EXCEPT !.headerLen = ntohl(Buffer(n))]
  <2>0. PICK n \in 1..LengthBytes : received' = [Nothing EXCEPT !.headerLen = ntohl(Buffer(n))]
    BY <1>3
  <2>1. received' = [headerLen |-> ntohl(Buffer(n)), bodyLen |-> 0, contents |-> <<>>]
    BY <2>0 DEF Nothing
  <2>2. ServedInv'
    BY <1>1, <1>3 DEF IInv, ServedInv, Sessions
  <2>3. received'.contents = <<>> /\ received' = [headerLen |-> received'.headerLen,
                bodyLen |-> received'.bodyLen, contents |-> received'.contents]
    BY <2>1
  <2>4. ReadInv'
    BY <1>1, <1>3, <2>3 DEF IInv, ReadInv
  <2>5. QED
    BY <1>2, <2>2, <2>4 DEF IInv
<1>4. CASE client # "open" /\ received' = Nothing /\ clientSocket' \in BOOLEAN /\ readVal' \in {-1, 0, 1}
  BY <1>1, <1>2, <1>4 DEF IInv, ServedInv, ReadInv, Sessions, Nothing
<1>5. QED
  BY <1>3, <1>4 DEF ReadHeaderLen, AtEnd, IInv, ServedInv, ReadInv

LEMMA ReadBodyLenInv ==
  ASSUME IInv, ReadBodyLen
  PROVE  IInv'
<1>1. /\ session = "bodyLen" /\ session' \in {"contents", "check"} /\ Reads
      /\ client' = client /\ handled' = handled /\ clientSocket' = clientSocket
  BY DEF ReadBodyLen, Reads
<1>2. WriteInv'
  BY <1>1, ReadsKeepWrites DEF IInv
<1>3. CASE /\ session' = "contents" /\ readVal' = readVal
           /\ \E n \in 1..LengthBytes :
                 Takes(n) /\ received' = [received EXCEPT !.bodyLen = ntohl(Buffer(n))]
  <2>0. PICK n \in 1..LengthBytes : received' = [received EXCEPT !.bodyLen = ntohl(Buffer(n))]
    BY <1>3
  <2>1. received' = [headerLen |-> received.headerLen, bodyLen |-> ntohl(Buffer(n)),
                     contents |-> received.contents]
    BY <2>0 DEF IInv, ReadInv
  <2>2. QED
    BY <1>1, <1>2, <1>3, <2>1 DEF IInv, ServedInv, ReadInv, Sessions
<1>4. CASE client # "open" /\ received' = received /\ readVal' \in {-1, 0, 1}
  BY <1>1, <1>2, <1>4 DEF IInv, ServedInv, ReadInv, Sessions
<1>5. QED
  BY <1>3, <1>4 DEF ReadBodyLen, AtEnd, IInv, ReadInv

LEMMA ReadContentsInv ==
  ASSUME IInv, ReadContents
  PROVE  IInv'
<1>1. /\ session = "contents" /\ session' = session /\ Reads
      /\ client' = client /\ handled' = handled /\ clientSocket' = clientSocket
  BY DEF ReadContents, Reads
<1>2. WriteInv'
  BY <1>1, ReadsKeepWrites DEF IInv
<1>3. CASE readVal' = 1 /\ \E n \in 1..Len(stream) :
             received' = [received EXCEPT !.contents = @ \o SubSeq(stream, 1, n)]
  <2>1. PICK n : received' = [received EXCEPT !.contents = @ \o SubSeq(stream, 1, n)]
    BY <1>3
  <2>2. received' = [headerLen |-> received.headerLen, bodyLen |-> received.bodyLen,
                     contents |-> received.contents \o SubSeq(stream, 1, n)]
    BY <2>1 DEF IInv, ReadInv
  <2>3. QED
    BY <1>1, <1>2, <1>3, <2>2 DEF IInv, ServedInv, ReadInv
<1>4. CASE client # "open" /\ received' = received /\ readVal' \in {0, -1}
  BY <1>1, <1>2, <1>4 DEF IInv, ServedInv, ReadInv
<1>5. QED
  BY <1>3, <1>4 DEF ReadContents, AtEnd

LEMMA EndContentsInv ==
  ASSUME IInv, EndContents
  PROVE  IInv'
<1>1. /\ session = "contents" /\ session' = "check" /\ Reads /\ Len(received.contents) = Needed
      /\ client' = client /\ handled' = handled /\ clientSocket' = clientSocket
      /\ received' = received /\ readVal' = readVal
  BY DEF EndContents, Reads
<1>2. WriteInv'
  BY <1>1, ReadsKeepWrites DEF IInv
<1>3. QED
  BY <1>1, <1>2 DEF IInv, ServedInv, ReadInv, Sessions, Needed

LEMMA ThrowInv ==
  ASSUME IInv, Throw
  PROVE  IInv'
<1>1. /\ session' = session /\ clientSocket' = clientSocket /\ readVal' = readVal
      /\ received' = received /\ handled' = handled /\ client' = client
      /\ writing' = writing /\ reader' = reader /\ framed' = framed /\ overlap' = overlap
  BY DEF Throw, clientVars, readVars, writeVars
<1>2. QED
  BY <1>1 DEF IInv, ServedInv, WriteInv, ReadInv, Needed

LEMMA HandleInv ==
  ASSUME IInv, Handle
  PROVE  IInv'
<1>1. /\ session = "check" /\ session' \in {"headerLen", "write"} /\ Reads
      /\ client' = client /\ clientSocket' = clientSocket /\ received' = Nothing
      /\ readVal' = readVal /\ readVal \notin {-1, 0}
  BY DEF Handle, Reads, GivenUp
<1>2. WriteInv'
  BY <1>1 DEF IInv, WriteInv, Reads, writeVars
<1>3. QED
  BY <1>1, <1>2 DEF IInv, ServedInv, ReadInv, Sessions, Nothing

LEMMA EndSessionInv ==
  ASSUME IInv, EndSession
  PROVE  IInv'
<1>1. /\ session = "check" /\ session' = "accept" /\ clientSocket' = FALSE /\ client' = "closed"
      /\ received' = Nothing /\ readVal' = readVal /\ UNCHANGED writeVars
  BY DEF EndSession
<1>2. WriteInv'
  BY <1>1 DEF IInv, WriteInv, writeVars
<1>3. QED
  BY <1>1, <1>2 DEF IInv, ServedInv, ReadInv, Sessions, Nothing

-----------------------------------------------------------------------------
(* Writing, by either thread.                                               *)

LEMMA WritePartInv ==
  ASSUME IInv, NEW t \in Threads, WritePart(t), Writes,
         session' \in Sessions, session' \notin {"accept", "check"} \/ session' = session,
         session' # "write" => writing'["session"] = 0
  PROVE  IInv'
<1> DEFINE part == writing[t] + 1
<1>1. /\ clientSocket' = clientSocket /\ received' = received /\ readVal' = readVal /\ handled' = handled
  BY DEF Writes
<1>2. /\ client' \in {"open", "closed", "reset"}
      /\ client' = "open" => client = "open" /\ clientSocket
  BY DEF WritePart, IInv, ServedInv
<1>3. ServedInv'
  BY <1>1, <1>2 DEF IInv, ServedInv
<1>4. ReadInv'
  BY <1>1, <1>2 DEF IInv, ReadInv, Needed
<1>5. Other(t) \in Threads /\ Other(t) # t /\ \A u \in Threads : u = t \/ u = Other(t)
  BY DEF Threads, Other
<1>6. /\ writing \in [Threads -> 0..3] /\ reader \in [part : 1..4, from : Threads] /\ part \in 1..4
      /\ writing[Other(t)] \in 0..3
  BY <1>5 DEF IInv, WriteInv
<1>7. overlap' = (overlap \/ writing[Other(t)] > 0)
  BY DEF WritePart
<1>8. CASE client # "open"
  <2>1. writing' \in [Threads -> 0..3]
    BY <1>6 DEF WritePart
  <2>2. reader' = reader /\ framed' = framed
    BY <1>8 DEF WritePart
  <2>3. WriteInv'
    BY <1>2, <1>7, <1>8, <2>1, <2>2 DEF IInv, WriteInv
  <2>4. QED
    BY <1>3, <1>4, <2>3 DEF IInv
<1>9. CASE client = "open"
  <2>1. clientSocket
    BY <1>9 DEF IInv, ServedInv
  <2>2. /\ writing' = [writing EXCEPT ![t] = part % 4]
        /\ framed' = (framed /\ Expected(t, part))
        /\ reader' = [part |-> (part % 4) + 1, from |-> t]
    BY <1>9, <2>1 DEF WritePart, Reaches
  <2>3. part % 4 \in 0..3 /\ part % 4 = (IF part = 4 THEN 0 ELSE part)
    BY <1>6
  <2>4. writing' \in [Threads -> 0..3] /\ writing'[t] = part % 4 /\ writing'[Other(t)] = writing[Other(t)]
    BY <1>5, <1>6, <2>2, <2>3
  <2>5. reader' \in [part : 1..4, from : Threads]
    BY <2>2, <2>3
  <2>6. ASSUME ~overlap' PROVE ~overlap /\ writing[Other(t)] = 0 /\ Expected(t, part)
    <3>1. ~overlap /\ writing[Other(t)] = 0
      <4>1. ~overlap /\ ~(writing[Other(t)] > 0)
        BY <1>7, <2>6
      <4>2. QED
        BY <1>6, <4>1
    <3>2. CASE (\A u \in Threads : writing[u] = 0) /\ reader.part = 1
      BY <3>1, <3>2 DEF Expected
    <3>3. CASE \E u \in Threads :
                /\ writing[u] # 0 /\ writing[Other(u)] = 0
                /\ reader = [part |-> writing[u] + 1, from |-> u]
      <4>1. reader = [part |-> writing[t] + 1, from |-> t]
        BY <1>5, <3>1, <3>3
      <4>2. QED
        BY <3>1, <4>1 DEF Expected
    <3>4. QED
      BY <1>9, <3>1, <3>2, <3>3 DEF IInv, WriteInv
  <2>7. ~overlap' => framed'
    BY <2>2, <2>6 DEF IInv, WriteInv
  <2>8. ~overlap' => \/ (\A u \in Threads : writing'[u] = 0) /\ reader'.part = 1
                     \/ \E u \in Threads :
                           /\ writing'[u] # 0 /\ writing'[Other(u)] = 0
                           /\ reader' = [part |-> writing'[u] + 1, from |-> u]
    <3>1. SUFFICES ASSUME ~overlap'
                   PROVE  \/ (\A u \in Threads : writing'[u] = 0) /\ reader'.part = 1
                          \/ \E u \in Threads :
                                /\ writing'[u] # 0 /\ writing'[Other(u)] = 0
                                /\ reader' = [part |-> writing'[u] + 1, from |-> u]
      OBVIOUS
    <3>2. writing'[Other(t)] = 0
      BY <2>4, <2>6, <3>1
    <3>3. CASE part % 4 = 0
      BY <1>5, <2>2, <2>4, <3>2, <3>3
    <3>4. CASE part % 4 # 0
      BY <2>2, <2>4, <3>2, <3>4
    <3>5. QED
      BY <3>3, <3>4
  <2>9. framed' \in BOOLEAN /\ overlap' \in BOOLEAN
    BY <1>7, <2>2 DEF IInv, WriteInv, Expected
  <2>10. WriteInv'
    BY <2>4, <2>5, <2>7, <2>8, <2>9 DEF WriteInv
  <2>11. QED
    BY <1>3, <1>4, <2>10 DEF IInv
<1>10. QED
  BY <1>8, <1>9

LEMMA WriteStepInv ==
  ASSUME IInv, Answer \/ StatusMessage
  PROVE  IInv'
<1>1. CASE Answer
  <2>1. session' = IF writing'["session"] = 0 THEN "headerLen" ELSE "write"
    BY <1>1 DEF Answer
  <2>2. "session" \in Threads /\ WritePart("session") /\ Writes
    BY <1>1 DEF Answer, Threads
  <2>3. QED
    BY <2>1, <2>2, WritePartInv DEF Sessions
<1>2. CASE StatusMessage
  <2>1. "status" \in Threads /\ WritePart("status") /\ Writes /\ session' = session
    BY <1>2 DEF StatusMessage, Threads
  <2>2. session \in Sessions /\ (session # "write" => writing["session"] = 0)
        /\ writing \in [Threads -> 0..3]
    BY DEF IInv, ServedInv, WriteInv
  <2>3. writing'["session"] = writing["session"]
    BY <2>1, <2>2 DEF WritePart, Threads
  <2>4. QED
    BY <2>1, <2>2, <2>3, WritePartInv
<1>3. QED
  BY <1>1, <1>2

-----------------------------------------------------------------------------
(* The results.                                                             *)

LEMMA InitInv == Init => IInv
<1> SUFFICES ASSUME Init PROVE IInv
  OBVIOUS
<1>1. ServedInv /\ ReadInv
  BY DEF Init, ServedInv, ReadInv, Sessions, Nothing
<1>2. writing = [t \in Threads |-> 0] /\ "session" \in Threads
      /\ reader \in [part : 1..4, from : Threads]
  BY DEF Init, Threads
<1>3. writing \in [Threads -> 0..3] /\ writing["session"] = 0
  BY <1>2
<1>4. client = "closed" /\ framed = TRUE /\ overlap = FALSE
  BY DEF Init
<1>5. WriteInv
  BY <1>2, <1>3, <1>4 DEF WriteInv
<1>6. QED
  BY <1>1, <1>5 DEF IInv

LEMMA StepInv ==
  ASSUME IInv, [Next]_vars
  PROVE  IInv'
<1>1. CASE Client
  BY <1>1, ConnectInv, ClientInv DEF Client
<1>2. CASE SessionThread
  BY <1>2, ReadHeaderLenInv, ReadBodyLenInv, ReadContentsInv, EndContentsInv, ThrowInv, HandleInv,
     EndSessionInv, WriteStepInv DEF SessionThread
<1>3. CASE StatusThread
  BY <1>3, WriteStepInv DEF StatusThread
<1>4. CASE UNCHANGED vars
  <2>1. /\ session' = session /\ clientSocket' = clientSocket /\ readVal' = readVal
        /\ received' = received /\ handled' = handled /\ client' = client
        /\ writing' = writing /\ reader' = reader /\ framed' = framed /\ overlap' = overlap
    BY <1>4 DEF vars
  <2>2. QED
    BY <2>1 DEF IInv, ServedInv, WriteInv, ReadInv, Needed
<1>5. QED
  BY <1>1, <1>2, <1>3, <1>4 DEF Next

\* The inductive invariant of the link.
THEOREM Invariant == Spec => []IInv
<1>1. Init => IInv
  BY InitInv
<1>2. IInv /\ [Next]_vars => IInv'
  BY StepInv
<1>3. QED
  BY <1>1, <1>2, PTL DEF Spec

\* The four writes of sendTCP, without a lock, keep the framing as long as no two
\* messages of the session thread and the status thread are under way at once,
\* whoever else connects, leaves or is cut off.
THEOREM FramedUnlessOverlap == Spec => []OneAtATimeIsFramed
<1>1. IInv => OneAtATimeIsFramed
  BY DEF IInv, WriteInv, OneAtATimeIsFramed
<1>2. QED
  BY <1>1, Invariant, PTL

\* spin drops no client that is there, has not said goodbye and has sent contents:
\* the read value it looks at is of this client, or of none whose contents count.
THEOREM EndsWithReason == Spec => EndsForAReason
<1>1. IInv =>
        [EndSession => \/ client # "open"
                       \/ SaysBye
                       \/ Needed = 0 /\ \A k \in 1..Len(handled) : handled[k].contents = <<>>]_vars
  <2> SUFFICES ASSUME IInv, EndSession, client = "open", ~SaysBye
               PROVE  Needed = 0 /\ \A k \in 1..Len(handled) : handled[k].contents = <<>>
    OBVIOUS
  <2>1. session = "check" /\ clientSocket /\ readVal \in {-1, 0}
    BY DEF EndSession, GivenUp, IInv, ServedInv
  <2>2. Len(received.contents) = Needed
    BY <2>1 DEF IInv, ReadInv
  <2>3. received.contents = <<>> /\ \A k \in 1..Len(handled) : handled[k].contents = <<>>
    BY <2>1 DEF IInv, ReadInv
  <2>4. QED
    BY <2>2, <2>3
<1>2. QED
  BY <1>1, Invariant, PTL DEF EndsForAReason

-----------------------------------------------------------------------------
(* The bytes under way: tokens of the messages sent that follow each other. *)

\* Where a token stands: its message and its place in it.
At(t) == <<t[1], t[2]>>
Ahead == 2 * LengthBytes
Size(m) == Ahead + HeaderLen(m) + BodyLen(m)

\* Tokens of what was sent, ms, that follow each other; the third conjunct says of
\* any two what the second says of neighbours, as far as their message goes.
IsToken(t, ms) ==
    /\ t[1] \in 1..Len(ms) /\ t[2] \in 1..Size(ms[t[1]])
    /\ t = Tokens(ms[t[1]])[t[2]]
Succ(t, ms) == IF t[2] < Size(ms[t[1]]) THEN <<t[1], t[2] + 1>> ELSE <<t[1] + 1, 1>>
Chain(s, ms) ==
    /\ \A i \in 1..Len(s) : IsToken(s[i], ms)
    /\ \A i \in 1..Len(s) - 1 : At(s[i + 1]) = Succ(s[i], ms)
    /\ \A i, j \in 1..Len(s) :
          i <= j /\ s[i][2] + (j - i) <= Size(ms[s[i][1]])
          => At(s[j]) = <<s[i][1], s[i][2] + (j - i)>>

\* The place after s, when the place before it is due.
After(s, due, ms) == IF s = <<>> THEN due ELSE Succ(s[Len(s)], ms)

\* s has arrived, u has not; the session thread is about to read what is due.
Flow(s, u, due, ms) ==
    /\ s \in Seq(Token) /\ u \in Seq(Token)
    /\ Chain(s, ms) /\ Chain(u, ms)
    /\ s # <<>> => At(s[1]) = due
    /\ u # <<>> => At(u[1]) = After(s, due, ms)
\* Nothing of what was sent is missing.
Whole(s, u, due, ms) == After(u, After(s, due, ms), ms) = <<Len(ms) + 1, 1>>

Sent(ms) ==
    /\ ms \in Seq(Messages) /\ Len(ms) <= MaxMessages
    /\ \A i \in 1..Len(ms) : ms[i].id = i

LEMMA AheadFacts ==
  /\ LengthBytes \in Nat /\ LengthBytes >= 1
  /\ Ahead \in Nat /\ Ahead = LengthBytes + LengthBytes /\ Ahead >= 2
  BY LengthAssumption DEF Ahead

\* A message has two lengths and as many tokens as they say.
LEMMA MessageType ==
  ASSUME NEW m \in Messages
  PROVE  /\ m.id \in 1..MaxMessages /\ HeaderLen(m) \in Nat /\ BodyLen(m) \in Nat
         /\ m.size[1] \in Lengths /\ m.size[2] \in Lengths
         /\ HeaderLen(m) = 0 => BodyLen(m) = 0
         /\ HeaderLen(m) + BodyLen(m) < UInt32
         /\ Size(m) \in Nat /\ Size(m) >= 2
         /\ Tokens(m) \in Seq(Token) /\ Len(Tokens(m)) = Size(m)
         /\ \A k \in 1..Size(m) : Tokens(m)[k][1] = m.id /\ Tokens(m)[k][2] = k
         /\ \A k \in 1..LengthBytes : /\ Tokens(m)[k][3] = m.size[1][k]
                                      /\ Tokens(m)[LengthBytes + k][3] = m.size[2][k]
<1>1. m.id \in 1..MaxMessages /\ m.size \in Sizes
  BY DEF Messages
<1>2. /\ m.size[1] \in Lengths /\ m.size[2] \in Lengths
      /\ HeaderLen(m) = 0 => BodyLen(m) = 0
      /\ HeaderLen(m) + BodyLen(m) < UInt32
  BY <1>1, LinkAssumption DEF HeaderLen, BodyLen
<1>3. HeaderLen(m) \in Nat /\ BodyLen(m) \in Nat
  BY <1>2, LengthAssumption DEF HeaderLen, BodyLen
<1>4. Size(m) \in Nat /\ Size(m) >= 2 /\ Size(m) >= Ahead
  <2>1. PICK h \in Nat, b \in Nat : h = HeaderLen(m) /\ b = BodyLen(m)
    BY <1>3
  <2>2. Size(m) = Ahead + h + b
    BY <2>1 DEF Size
  <2>3. QED
    BY <2>2, AheadFacts
<1>5. Tokens(m) = [k \in 1..Size(m) |-> <<m.id, k, ByteOf(m, k)>>]
  BY DEF Tokens, Size, Ahead
<1>6. \A k \in 1..Size(m) : Tokens(m)[k] = <<m.id, k, ByteOf(m, k)>>
  BY <1>5
<1>7. ASSUME NEW k \in 1..Size(m) PROVE ByteOf(m, k) \in Byte
  <2>1. CASE k <= LengthBytes
    <3>1. k \in 1..LengthBytes
      BY <1>4, <2>1, AheadFacts
    <3>2. m.size[1][k] \in Byte
      BY <1>2, <3>1 DEF Lengths
    <3>3. QED
      BY <2>1, <3>2 DEF ByteOf
  <2>2. CASE ~(k <= LengthBytes) /\ k <= Ahead
    <3>1. k - LengthBytes \in 1..LengthBytes
      BY <1>4, <2>2, AheadFacts
    <3>2. m.size[2][k - LengthBytes] \in Byte
      BY <1>2, <3>1 DEF Lengths
    <3>3. QED
      BY <2>2, <3>2 DEF ByteOf, Ahead
  <2>3. CASE ~(k <= LengthBytes) /\ ~(k <= Ahead)
    BY <2>3, LengthAssumption DEF ByteOf, Ahead
  <2>4. QED
    BY <2>1, <2>2, <2>3
<1>8. \A k \in 1..Size(m) : Tokens(m)[k] \in Token
  BY <1>1, <1>4, <1>6, <1>7 DEF Token
<1>9. Tokens(m) \in Seq(Token) /\ Len(Tokens(m)) = Size(m)
  <2> HIDE DEF Size
  <2>1. QED
    BY <1>4, <1>5, <1>8
<1>10. ASSUME NEW k \in 1..LengthBytes
       PROVE  Tokens(m)[k][3] = m.size[1][k] /\ Tokens(m)[LengthBytes + k][3] = m.size[2][k]
  <2>1. k \in 1..Size(m) /\ LengthBytes + k \in 1..Size(m) /\ k <= LengthBytes
    BY <1>4, AheadFacts
  <2>2. PICK j \in Nat : j = LengthBytes + k
    BY AheadFacts
  <2>3. ~(j <= LengthBytes) /\ j <= Ahead /\ j - LengthBytes = k
    BY <2>2, AheadFacts
  <2>4. ByteOf(m, k) = m.size[1][k]
    BY <2>1 DEF ByteOf
  <2>5. ByteOf(m, j) = m.size[2][k]
    BY <2>3 DEF ByteOf, Ahead
  <2>6. QED
    BY <1>6, <2>1, <2>2, <2>4, <2>5
<1>11. QED
  BY <1>1, <1>2, <1>3, <1>4, <1>6, <1>9, <1>10

\* A token is of a message that was sent.
LEMMA TokenFacts ==
  ASSUME NEW ms, Sent(ms), NEW t, IsToken(t, ms)
  PROVE  /\ ms[t[1]] \in Messages /\ ms[t[1]].id = t[1] /\ t[1] \in Nat /\ t[2] \in Nat
         /\ Size(ms[t[1]]) \in Nat /\ Size(ms[t[1]]) >= 2
<1>1. t[1] \in 1..Len(ms) /\ Len(ms) \in Nat /\ t[2] \in 1..Size(ms[t[1]])
  BY DEF Sent, IsToken
<1>2. ms[t[1]] \in Messages /\ ms[t[1]].id = t[1]
  BY <1>1 DEF Sent
<1>3. Size(ms[t[1]]) \in Nat /\ Size(ms[t[1]]) >= 2
  BY <1>2, MessageType
<1>4. QED
  BY <1>1, <1>2, <1>3

\* The client leaves.
LEMMA FlowLeave ==
  ASSUME NEW s, NEW u, NEW due, NEW ms, Flow(s, u, due, ms)
  PROVE  Flow(s, <<>>, due, ms)
  BY EmptySeq DEF Flow, Chain

\* With nothing under way anything is due.
LEMMA FlowEmpty ==
  ASSUME NEW due, NEW ms
  PROVE  Flow(<<>>, <<>>, due, ms)
  BY EmptySeq DEF Flow, Chain

\* What is left of a chain behind its first n tokens.
LEMMA ChainRest ==
  ASSUME NEW s \in Seq(Token), NEW r \in Seq(Token), NEW n \in Nat, NEW ms, Chain(s, ms),
         Len(r) = Len(s) - n, \A i \in 1..Len(r) : r[i] = s[i + n]
  PROVE  Chain(r, ms)
<1>1. Len(s) \in Nat /\ Len(r) \in Nat
  OBVIOUS
<1>2. \A i \in 1..Len(r) : i + n \in 1..Len(s) /\ r[i] = s[i + n]
  BY <1>1
<1>3. \A i \in 1..Len(r) : IsToken(r[i], ms)
  BY <1>2 DEF Chain
<1>4. \A i \in 1..Len(r) - 1 : At(r[i + 1]) = Succ(r[i], ms)
  <2>1. SUFFICES ASSUME NEW i \in 1..Len(r) - 1 PROVE At(r[i + 1]) = Succ(r[i], ms)
    OBVIOUS
  <2>2. i \in 1..Len(r) /\ i + 1 \in 1..Len(r) /\ i + n \in 1..Len(s) - 1
    BY <1>1
  <2>3. (i + 1) + n = (i + n) + 1
    BY <1>1
  <2>4. r[i] = s[i + n] /\ r[i + 1] = s[(i + n) + 1]
    BY <2>2, <2>3
  <2>5. QED
    BY <2>2, <2>4 DEF Chain
<1>5. ASSUME NEW i \in 1..Len(r), NEW j \in 1..Len(r),
             i <= j /\ r[i][2] + (j - i) <= Size(ms[r[i][1]])
      PROVE  At(r[j]) = <<r[i][1], r[i][2] + (j - i)>>
  <2>1. i + n <= j + n /\ (j + n) - (i + n) = j - i
    BY <1>1, <1>5
  <2>2. QED
    BY <1>2, <1>5, <2>1 DEF Chain
<1>6. QED
  BY <1>3, <1>4, <1>5 DEF Chain

\* What is left behind the first n tokens.
LEMMA Rest ==
  ASSUME NEW s \in Seq(Token), NEW n \in 1..Len(s)
  PROVE  LET r == SubSeq(s, n + 1, Len(s))
         IN /\ r \in Seq(Token) /\ Len(r) = Len(s) - n
            /\ \A i \in 1..Len(r) : r[i] = s[i + n]
<1> DEFINE r == SubSeq(s, n + 1, Len(s))
<1>1. Len(s) \in Nat /\ n \in Nat
  OBVIOUS
<1>2. \A i \in n + 1..Len(s) : s[i] \in Token
  BY <1>1, ElementOfSeq
<1>3. /\ r \in Seq(Token)
      /\ Len(r) = IF n + 1 <= Len(s) THEN Len(s) - (n + 1) + 1 ELSE 0
      /\ \A i \in 1..Len(s) - (n + 1) + 1 : r[i] = s[(n + 1) + i - 1]
  BY <1>1, <1>2, SubSeqProperties
<1>4. Len(r) = Len(s) - n /\ Len(s) - (n + 1) + 1 = Len(s) - n
  BY <1>1, <1>3
<1>5. \A i \in Int : (n + 1) + i - 1 = i + n
  BY <1>1
<1> HIDE DEF r
<1>6. ASSUME NEW i \in 1..Len(r) PROVE r[i] = s[i + n]
  <2>1. i \in 1..Len(s) - (n + 1) + 1 /\ i \in Int
    <3>1. i \in Int
      OBVIOUS
    <3>2. Len(r) = Len(s) - (n + 1) + 1
      BY <1>4
    <3>3. QED
      BY <3>1, <3>2
  <2>2. r[i] = s[(n + 1) + i - 1]
    BY <1>3, <2>1
  <2>3. QED
    BY <1>5, <2>1, <2>2
<1>7. QED
  BY <1>3, <1>4, <1>6 DEF r

\* Reading the first n tokens leaves the rest due.
LEMMA FlowRead ==
  ASSUME NEW s, NEW u, NEW due, NEW ms, Flow(s, u, due, ms), NEW n \in 1..Len(s)
  PROVE  LET r == SubSeq(s, n + 1, Len(s))
         IN /\ Flow(r, u, Succ(s[n], ms), ms)
            /\ Whole(s, u, due, ms) => Whole(r, u, Succ(s[n], ms), ms)
<1> DEFINE r == SubSeq(s, n + 1, Len(s))
           next == Succ(s[n], ms)
<1>1. s \in Seq(Token) /\ Len(s) \in Nat /\ n \in Nat
  BY DEF Flow
<1>3. /\ r \in Seq(Token) /\ Len(r) = Len(s) - n
      /\ \A i \in 1..Len(r) : r[i] = s[i + n]
  BY <1>1, Rest
<1> HIDE DEF r
<1>4. Chain(r, ms)
  BY <1>1, <1>3, ChainRest DEF Flow
<1>5. r = <<>> => Len(s) = n
  BY <1>1, <1>3
<1>6. r # <<>> => At(r[1]) = next
  <2>1. SUFFICES ASSUME r # <<>> PROVE At(r[1]) = next
    OBVIOUS
  <2>2. 1 \in 1..Len(r) /\ n \in 1..Len(s) - 1 /\ r[1] = s[n + 1]
    BY <1>1, <1>3, <2>1, EmptySeq
  <2>3. QED
    BY <2>2 DEF Flow, Chain
<1>7. s # <<>>
  <2>1. SUFFICES ASSUME s = <<>> PROVE FALSE
    OBVIOUS
  <2>2. Len(s) = 0
    BY <2>1
  <2>3. QED
    BY <2>2
<1>8. After(r, next, ms) = After(s, due, ms)
  <2>1. CASE r = <<>>
    BY <1>5, <1>7, <2>1 DEF After
  <2>2. CASE r # <<>>
    <3>1. Len(r) \in 1..Len(r) /\ Len(r) + n = Len(s)
      BY <1>1, <1>3, <2>2, EmptySeq
    <3>2. r[Len(r)] = s[Len(s)]
      BY <1>3, <3>1
    <3>3. QED
      BY <1>7, <2>2, <3>2 DEF After
  <2>3. QED
    BY <2>1, <2>2
<1> HIDE DEF next
<1>9. Flow(r, u, next, ms) /\ (Whole(s, u, due, ms) => Whole(r, u, next, ms))
  BY <1>3, <1>4, <1>6, <1>8 DEF Flow, Whole
<1>10. QED
  BY <1>9 DEF r, next

\* The messages sent are numbered.
LEMMA SentMore ==
  ASSUME NEW ms, Sent(ms), NEW m \in Messages, m.id = Len(ms) + 1, Len(ms) < MaxMessages
  PROVE  LET more == Append(ms, m)
         IN /\ Sent(more) /\ Len(more) = Len(ms) + 1 /\ more[Len(ms) + 1] = m
            /\ \A i \in 1..Len(ms) : more[i] = ms[i]
<1> DEFINE more == Append(ms, m)
<1>1. /\ ms \in Seq(Messages) /\ Len(ms) \in Nat /\ MaxMessages \in Nat
      /\ \A i \in 1..Len(ms) : ms[i].id = i
  BY LinkAssumption DEF Sent
<1>2. /\ more \in Seq(Messages) /\ Len(more) = Len(ms) + 1 /\ more[Len(ms) + 1] = m
      /\ \A i \in 1..Len(ms) : more[i] = ms[i]
  BY <1>1
<1> HIDE DEF more
<1>3. \A i \in 1..Len(more) : i \in 1..Len(ms) \/ i = Len(ms) + 1
  BY <1>1, <1>2
<1>4. \A i \in 1..Len(more) : more[i].id = i
  BY <1>1, <1>2, <1>3
<1>5. Len(more) <= MaxMessages
  BY <1>1, <1>2
<1>6. QED
  BY <1>2, <1>4, <1>5 DEF Sent, more

\* The client begins a message.
LEMMA FlowBegin ==
  ASSUME NEW s, NEW due, NEW ms, Sent(ms), Flow(s, <<>>, due, ms), Whole(s, <<>>, due, ms),
         NEW m \in Messages, m.id = Len(ms) + 1, Len(ms) < MaxMessages
  PROVE  LET more == Append(ms, m)
         IN /\ Sent(more) /\ Flow(s, Tokens(m), due, more) /\ Whole(s, Tokens(m), due, more)
            /\ Len(more) = Len(ms) + 1 /\ \A i \in 1..Len(ms) : more[i] = ms[i]
<1> DEFINE more == Append(ms, m)
           u == Tokens(m)
<1>1. /\ ms \in Seq(Messages) /\ Len(ms) \in Nat /\ MaxMessages \in Nat
      /\ \A i \in 1..Len(ms) : ms[i].id = i
  BY LinkAssumption DEF Sent
<1>2. /\ Len(more) = Len(ms) + 1 /\ more[Len(ms) + 1] = m
      /\ \A i \in 1..Len(ms) : more[i] = ms[i]
  BY SentMore
<1>3. Sent(more)
  BY SentMore
<1> HIDE DEF more
<1>4. /\ u \in Seq(Token) /\ Len(u) = Size(m) /\ Size(m) \in Nat /\ Size(m) >= 2
      /\ \A k \in 1..Size(m) : u[k][1] = Len(ms) + 1 /\ u[k][2] = k
  BY MessageType
<1>5. s \in Seq(Token) /\ Len(s) \in Nat
  BY DEF Flow
<1>6. \A i \in 1..Len(s) : more[s[i][1]] = ms[s[i][1]] /\ s[i][1] \in 1..Len(ms)
  BY <1>2 DEF Flow, Chain, IsToken
<1>7. Chain(s, more)
  <2>1. \A i \in 1..Len(s) : IsToken(s[i], more)
    <3>1. \A i \in 1..Len(ms) : i \in 1..Len(more)
      BY <1>1, <1>2
    <3>2. QED
      BY <1>6, <3>1 DEF Flow, Chain, IsToken
  <2>2. \A i \in 1..Len(s) - 1 : At(s[i + 1]) = Succ(s[i], more)
    <3>1. \A i \in 1..Len(s) - 1 : i \in 1..Len(s)
      BY <1>5
    <3>2. QED
      BY <1>6, <3>1 DEF Flow, Chain, Succ
  <2>3. \A i, j \in 1..Len(s) :
           i <= j /\ s[i][2] + (j - i) <= Size(more[s[i][1]])
           => At(s[j]) = <<s[i][1], s[i][2] + (j - i)>>
    BY <1>6 DEF Flow, Chain
  <2>4. QED
    BY <2>1, <2>2, <2>3 DEF Chain
<1>8. After(s, due, more) = <<Len(ms) + 1, 1>>
  <2>1. After(s, due, ms) = <<Len(ms) + 1, 1>>
    BY DEF Whole, After
  <2>2. CASE s = <<>>
    BY <2>1, <2>2 DEF After
  <2>3. CASE s # <<>>
    <3>1. Len(s) \in 1..Len(s)
      BY <1>5, <2>3, EmptySeq
    <3>2. QED
      BY <1>6, <2>1, <2>3, <3>1 DEF After, Succ
  <2>4. QED
    BY <2>2, <2>3
<1> HIDE DEF u
<1>9. Chain(u, more)
  <2>1. \A k \in 1..Len(u) : u[k][1] = Len(ms) + 1 /\ u[k][2] = k /\ more[u[k][1]] = m
    BY <1>2, <1>4
  <2>2. \A k \in 1..Len(u) : IsToken(u[k], more)
    <3>1. Len(ms) + 1 \in 1..Len(more)
      BY <1>1, <1>2
    <3>2. QED
      BY <1>4, <2>1, <3>1 DEF IsToken, u
  <2>3. ASSUME NEW k \in 1..Len(u) - 1 PROVE At(u[k + 1]) = Succ(u[k], more)
    <3>1. k \in 1..Len(u) /\ k + 1 \in 1..Len(u) /\ k < Size(m)
      BY <1>4
    <3>2. QED
      BY <2>1, <3>1 DEF At, Succ
  <2>4. ASSUME NEW i \in 1..Len(u), NEW j \in 1..Len(u)
        PROVE  At(u[j]) = <<u[i][1], u[i][2] + (j - i)>>
    <3>1. i + (j - i) = j
      BY <1>4
    <3>2. QED
      BY <2>1, <3>1 DEF At
  <2>5. QED
    BY <2>2, <2>3, <2>4 DEF Chain
<1>10. u # <<>> /\ 1 \in 1..Size(m) /\ Size(m) \in 1..Size(m)
  <2>1. 1 \in 1..Size(m) /\ Size(m) \in 1..Size(m) /\ Len(u) # 0
    BY <1>4
  <2>2. QED
    BY <2>1, EmptySeq
<1>11. At(u[1]) = <<Len(ms) + 1, 1>>
  BY <1>4, <1>10 DEF At
<1>12. Flow(s, u, due, more)
  BY <1>4, <1>5, <1>7, <1>8, <1>9, <1>11 DEF Flow
<1>13. Whole(s, u, due, more)
  <2>1. Succ(u[Size(m)], more) = <<(Len(ms) + 1) + 1, 1>>
    BY <1>2, <1>4, <1>10 DEF Succ
  <2>2. QED
    BY <1>2, <1>4, <1>10, <2>1 DEF Whole, After
<1>14. QED
  BY <1>2, <1>3, <1>12, <1>13 DEF more, u

\* A token arrives.
LEMMA FlowArrive ==
  ASSUME NEW s, NEW u, NEW due, NEW ms, Sent(ms), Flow(s, u, due, ms), u # <<>>
  PROVE  /\ Flow(Append(s, Head(u)), Tail(u), due, ms)
         /\ Whole(s, u, due, ms) => Whole(Append(s, Head(u)), Tail(u), due, ms)
<1> DEFINE t == Head(u)
           a == Append(s, t)
           r == Tail(u)
<1>1. s \in Seq(Token) /\ u \in Seq(Token) /\ Len(s) \in Nat /\ Len(u) \in Nat \ {0} /\ t = u[1]
  BY EmptySeq DEF Flow
<1>2. /\ r \in Seq(Token) /\ Len(r) = Len(u) - 1 /\ \A i \in 1..Len(r) : r[i] = u[i + 1]
      /\ t \in Token
  BY <1>1, HeadTailProperties
<1>3. /\ a \in Seq(Token) /\ Len(a) = Len(s) + 1 /\ a[Len(s) + 1] = t
      /\ \A i \in 1..Len(s) : a[i] = s[i]
  BY <1>1, <1>2
<1> HIDE DEF a, r, t
<1>4. /\ \A i \in 1..Len(s) : IsToken(s[i], ms)
      /\ \A i \in 1..Len(s) - 1 : At(s[i + 1]) = Succ(s[i], ms)
      /\ \A i, j \in 1..Len(s) :
            i <= j /\ s[i][2] + (j - i) <= Size(ms[s[i][1]])
            => At(s[j]) = <<s[i][1], s[i][2] + (j - i)>>
  BY DEF Flow, Chain
<1>5. /\ \A i \in 1..Len(u) : IsToken(u[i], ms)
      /\ \A i \in 1..Len(u) - 1 : At(u[i + 1]) = Succ(u[i], ms)
      /\ \A i, j \in 1..Len(u) :
            i <= j /\ u[i][2] + (j - i) <= Size(ms[u[i][1]])
            => At(u[j]) = <<u[i][1], u[i][2] + (j - i)>>
  BY DEF Flow, Chain
<1>6. Chain(r, ms)
  BY <1>1, <1>2, ChainRest DEF Flow
<1>7. IsToken(t, ms) /\ (s # <<>> => At(t) = Succ(s[Len(s)], ms)) /\ (s = <<>> => At(t) = due)
  BY <1>1, <1>5 DEF Flow, After
<1>8. Chain(a, ms)
  <2>1. \A i \in 1..Len(a) : i \in 1..Len(s) \/ i = Len(s) + 1
    BY <1>1, <1>3
  <2>2. \A i \in 1..Len(a) : IsToken(a[i], ms)
    BY <1>3, <1>4, <1>7, <2>1
  <2>3. ASSUME NEW i \in 1..Len(a) - 1 PROVE At(a[i + 1]) = Succ(a[i], ms)
    <3>1. i \in 1..Len(s) /\ a[i] = s[i]
      BY <1>1, <1>3
    <3>2. CASE i = Len(s)
      BY <1>1, <1>3, <1>7, <3>1, <3>2, EmptySeq
    <3>3. CASE i # Len(s)
      <4>1. i \in 1..Len(s) - 1 /\ i + 1 \in 1..Len(s)
        BY <1>1, <3>1, <3>3
      <4>2. QED
        BY <1>3, <1>4, <3>1, <4>1
    <3>4. QED
      BY <3>2, <3>3
  <2>4. ASSUME NEW i \in 1..Len(a), NEW j \in 1..Len(a),
               i <= j, a[i][2] + (j - i) <= Size(ms[a[i][1]])
        PROVE  At(a[j]) = <<a[i][1], a[i][2] + (j - i)>>
    <3>1. CASE j \in 1..Len(s)
      <4>1. i \in 1..Len(s)
        BY <1>1, <2>4, <3>1
      <4>2. QED
        BY <1>3, <1>4, <2>4, <3>1, <4>1
    <3>2. CASE j = Len(s) + 1 /\ i = j
      <4>1. a[i][2] \in Nat
        BY <2>2, TokenFacts
      <4>2. QED
        BY <3>2, <4>1 DEF At
    <3>3. CASE j = Len(s) + 1 /\ i # j
      <4>1. i \in 1..Len(s) /\ Len(s) \in 1..Len(s) /\ i <= Len(s) /\ a[i] = s[i]
        BY <1>1, <1>3, <2>4, <3>3
      <4>2. s[i][2] \in Nat /\ Size(ms[s[i][1]]) \in Nat
        BY <1>4, <4>1, TokenFacts
      <4>3. s[i][2] + (Len(s) - i) < Size(ms[s[i][1]])
        <5>1. s[i][2] + (j - i) <= Size(ms[s[i][1]])
          BY <2>4, <4>1
        <5>2. PICK place \in Nat, size \in Nat : place = s[i][2] /\ size = Size(ms[s[i][1]])
          BY <4>2
        <5>3. place + (j - i) <= size
          BY <5>1, <5>2
        <5>4. place + (Len(s) - i) < size
          BY <1>1, <3>3, <4>1, <5>2, <5>3
        <5>5. QED
          BY <5>2, <5>4
      <4>4. At(s[Len(s)]) = <<s[i][1], s[i][2] + (Len(s) - i)>>
        <5>1. PICK j1 \in 1..Len(s) : j1 = Len(s)
          BY <4>1
        <5>2. PICK rest \in Nat, size \in Nat : rest = s[i][2] + (Len(s) - i) /\ size = Size(ms[s[i][1]])
          BY <1>1, <4>1, <4>2
        <5>3. rest <= size
          BY <4>3, <5>2
        <5>4. i <= j1 /\ s[i][2] + (j1 - i) <= Size(ms[s[i][1]])
          BY <4>1, <5>1, <5>2, <5>3
        <5>5. QED
          BY <1>4, <4>1, <5>1, <5>4
      <4>5. s[Len(s)][1] = s[i][1] /\ s[Len(s)][2] = s[i][2] + (Len(s) - i)
        BY <4>4 DEF At
      <4>6. s # <<>>
        <5>1. SUFFICES ASSUME s = <<>> PROVE FALSE
          OBVIOUS
        <5>2. Len(s) = 0
          BY <5>1
        <5>3. QED
          BY <4>1, <5>2
      <4>7. At(t) = <<s[i][1], s[i][2] + (Len(s) - i) + 1>>
        <5>1. Succ(s[Len(s)], ms) = <<s[Len(s)][1], s[Len(s)][2] + 1>>
          BY <4>3, <4>5 DEF Succ
        <5>2. QED
          BY <1>7, <4>5, <4>6, <5>1
      <4>8. s[i][2] + (Len(s) - i) + 1 = s[i][2] + (j - i)
        BY <1>1, <3>3, <4>1, <4>2
      <4>9. QED
        BY <1>3, <3>3, <4>1, <4>7, <4>8
    <3>4. QED
      BY <2>1, <3>1, <3>2, <3>3
  <2>5. QED
    BY <2>2, <2>3, <2>4 DEF Chain
<1>9. a # <<>> /\ After(a, due, ms) = Succ(t, ms)
  BY <1>1, <1>3, EmptySeq DEF After
<1>10. At(a[1]) = due
  <2>1. CASE s = <<>>
    BY <1>3, <1>7, <2>1, EmptySeq
  <2>2. CASE s # <<>>
    <3>1. 1 \in 1..Len(s)
      BY <1>1, <2>2, EmptySeq
    <3>2. QED
      BY <1>3, <2>2, <3>1 DEF Flow
  <2>3. QED
    BY <2>1, <2>2
<1>11. r # <<>> => At(r[1]) = Succ(t, ms)
  <2>1. SUFFICES ASSUME r # <<>> PROVE At(r[1]) = Succ(t, ms)
    OBVIOUS
  <2>2. 1 \in 1..Len(u) - 1 /\ 1 \in 1..Len(r)
    BY <1>1, <1>2, <2>1, EmptySeq
  <2>3. r[1] = u[1 + 1] /\ At(u[1 + 1]) = Succ(u[1], ms)
    BY <1>2, <1>5, <2>2
  <2>4. QED
    BY <1>1, <2>3
<1>12. Flow(a, r, due, ms)
  BY <1>2, <1>3, <1>6, <1>8, <1>9, <1>10, <1>11 DEF Flow
<1>13. Whole(s, u, due, ms) => Whole(a, r, due, ms)
  <2>1. CASE r = <<>>
    <3>1. Len(u) = 1
      BY <1>1, <1>2, <2>1, EmptySeq
    <3>2. QED
      BY <1>1, <1>9, <2>1, <3>1 DEF Whole, After
  <2>2. CASE r # <<>>
    <3>1. Len(r) \in 1..Len(r) /\ r[Len(r)] = u[Len(u)]
      BY <1>1, <1>2, <2>2, EmptySeq
    <3>2. QED
      BY <2>2, <3>1 DEF Whole, After
  <2>3. QED
    BY <2>1, <2>2
<1>14. QED
  BY <1>12, <1>13 DEF a, r, t

-----------------------------------------------------------------------------
(* Where the session thread is in them.                                     *)

\* The n-th of the messages ms is being received and c tokens of its contents are
\* there: what the session thread reads next.
DueOf(pc, n, c, ms) ==
    CASE pc = "bodyLen" -> <<n, LengthBytes + 1>>
      [] pc = "contents" -> Succ(<<n, c + Ahead>>, ms)
      [] pc = "check" -> <<n + 1, 1>>
      [] OTHER -> <<n, 1>>
Current == Len(handled) + 1
Due == DueOf(session, Current, Len(received.contents), sent)

Received == [headerLen : Nat, bodyLen : Nat, contents : Seq(Token)]

\* r is m as far as it has been read.
PartOf(r, m) ==
    /\ r.headerLen = HeaderLen(m) /\ r.bodyLen = BodyLen(m)
    /\ Len(r.contents) <= HeaderLen(m) + BodyLen(m)
    /\ \A k \in 1..Len(r.contents) : r.contents[k] = Tokens(m)[k + Ahead]

\* The client left before the length of a body and after that of a header.
CutOff ==
    /\ client # "open" /\ stream = <<>>
    /\ received.headerLen \in 1..UInt32 - 1 /\ received.bodyLen = 0 /\ received.contents = <<>>

\* Whatever has been read of the lengths.
StreamTypes ==
    /\ Sent(sent)
    /\ toSend \in Seq(Token) /\ stream \in Seq(Token)
    /\ handled \in Seq(Received) /\ received \in Received
    /\ cut \in BOOLEAN
    /\ client # "open" => toSend = <<>>

FlowInv ==
    /\ Flow(stream, toSend, Due, sent)
    /\ client = "open" => Whole(stream, toSend, Due, sent)

MessageInv ==
    /\ session = "bodyLen" =>
          /\ Current <= Len(sent)
          /\ received = [headerLen |-> HeaderLen(sent[Current]), bodyLen |-> 0, contents |-> <<>>]
    /\ session = "contents" =>
          Current <= Len(sent) /\ (CutOff \/ PartOf(received, sent[Current]))
    /\ session = "check" =>
          \/ ~clientSocket
          \/ readVal = -1
          \/ Current <= Len(sent) /\ received = AsReceived(sent[Current])

Uncut == StreamTypes /\ FlowInv /\ MessageInv

StreamInv == StreamTypes /\ (~cut => FlowInv /\ MessageInv)

\* Reading the first n tokens.
LEMMA ReadRest ==
  ASSUME NEW s \in Seq(Token), NEW n \in 1..Len(s)
  PROVE  /\ SubSeq(s, 1, n) \in Seq(Token) /\ Len(SubSeq(s, 1, n)) = n
         /\ \A i \in 1..n : SubSeq(s, 1, n)[i] = s[i]
<1>1. \A i \in 1..n : s[i] \in Token
  BY ElementOfSeq
<1>2. 1 \in Int /\ n \in Int /\ 1 <= n /\ n - 1 + 1 = n
  OBVIOUS
<1>3. /\ SubSeq(s, 1, n) \in Seq(Token)
      /\ Len(SubSeq(s, 1, n)) = IF 1 <= n THEN n - 1 + 1 ELSE 0
      /\ \A i \in 1..n - 1 + 1 : SubSeq(s, 1, n)[i] = s[1 + i - 1]
  BY <1>1, <1>2, SubSeqProperties
<1>4. \A i \in 1..n : 1 + i - 1 = i
  OBVIOUS
<1>5. QED
  BY <1>2, <1>3, <1>4

\* The first k tokens are the next k of the message that is due from place p + 1.
LEMMA ReadOn ==
  ASSUME NEW s, NEW u, NEW ms, NEW n \in Nat, NEW p \in Nat, NEW k \in 1..Len(s),
         Sent(ms), Flow(s, u, <<n, p + 1>>, ms),
         n \in 1..Len(ms) => p + k <= Size(ms[n])
  PROVE  LET r == SubSeq(s, k + 1, Len(s))
         IN /\ n \in 1..Len(ms)
            /\ \A i \in 1..k : s[i] = Tokens(ms[n])[p + i]
            /\ Flow(r, u, Succ(<<n, p + k>>, ms), ms)
            /\ Whole(s, u, <<n, p + 1>>, ms) => Whole(r, u, Succ(<<n, p + k>>, ms), ms)
<1>1. s \in Seq(Token) /\ Len(s) \in Nat /\ k \in Nat /\ 1 \in 1..Len(s) /\ k >= 1
  BY DEF Flow
<1>2. At(s[1]) = <<n, p + 1>>
  <2>1. s # <<>>
    <3>1. SUFFICES ASSUME s = <<>> PROVE FALSE
      OBVIOUS
    <3>2. Len(s) = 0
      BY <3>1
    <3>3. QED
      BY <1>1, <3>2
  <2>2. QED
    BY <2>1 DEF Flow
<1>3. s[1][1] = n /\ s[1][2] = p + 1
  BY <1>2 DEF At
<1>4. n \in 1..Len(ms)
  <2>1. IsToken(s[1], ms)
    BY <1>1 DEF Flow, Chain
  <2>2. QED
    BY <1>3, <2>1 DEF IsToken
<1>5. ms[n] \in Messages
  BY <1>4 DEF Sent
<1>6. PICK size \in Nat : size = Size(ms[n])
  BY <1>5, MessageType
<1>7. p + k <= size
  BY <1>4, <1>6
<1>8. ASSUME NEW i \in 1..k
      PROVE  At(s[i]) = <<n, p + i>> /\ s[i] = Tokens(ms[n])[p + i]
  <2>1. i \in 1..Len(s) /\ 1 <= i /\ (p + 1) + (i - 1) = p + i /\ p + i <= size
    BY <1>1, <1>7
  <2>2. At(s[i]) = <<s[1][1], s[1][2] + (i - 1)>>
    <3>1. s[1][2] + (i - 1) <= Size(ms[s[1][1]])
      BY <1>3, <1>6, <2>1
    <3>2. QED
      BY <1>1, <2>1, <3>1 DEF Flow, Chain
  <2>3. At(s[i]) = <<n, p + i>>
    BY <1>3, <2>1, <2>2
  <2>4. s[i][1] = n /\ s[i][2] = p + i
    BY <2>3 DEF At
  <2>5. IsToken(s[i], ms)
    BY <2>1 DEF Flow, Chain
  <2>6. QED
    BY <2>3, <2>4, <2>5 DEF IsToken
<1>9. Succ(s[k], ms) = Succ(<<n, p + k>>, ms)
  <2>1. k \in 1..k
    BY <1>1
  <2>2. At(s[k]) = <<n, p + k>>
    BY <1>8, <2>1
  <2>3. s[k][1] = n /\ s[k][2] = p + k
    BY <2>2 DEF At
  <2>4. QED
    BY <2>3 DEF Succ
<1>10. QED
  BY <1>4, <1>8, <1>9, FlowRead

\* Both lengths are in a message.
LEMMA LengthsFit ==
  ASSUME NEW ms, Sent(ms), NEW n \in 1..Len(ms)
  PROVE  ms[n] \in Messages /\ LengthBytes <= Size(ms[n]) /\ LengthBytes + LengthBytes <= Size(ms[n])
<1>1. ms[n] \in Messages
  BY DEF Sent
<1>2. PICK h \in Nat, b \in Nat : h = HeaderLen(ms[n]) /\ b = BodyLen(ms[n])
  BY <1>1, MessageType
<1>3. Size(ms[n]) = Ahead + h + b
  BY <1>2 DEF Size
<1>4. QED
  BY <1>1, <1>3, AheadFacts

\* Bytes of a length that are those of a message are its length.
LEMMA LengthsOf ==
  ASSUME NEW m \in Messages, NEW b \in Lengths
  PROVE  /\ (\A k \in 1..LengthBytes : b[k] = Tokens(m)[k][3]) => b = m.size[1]
         /\ (\A k \in 1..LengthBytes : b[k] = Tokens(m)[LengthBytes + k][3]) => b = m.size[2]
<1>1. PICK f \in Lengths, g \in Lengths : f = m.size[1] /\ g = m.size[2]
  BY MessageType
<1>2. \A k \in 1..LengthBytes :
         Tokens(m)[k][3] = f[k] /\ Tokens(m)[LengthBytes + k][3] = g[k]
  BY <1>1, MessageType
<1>3. ASSUME \A k \in 1..LengthBytes : b[k] = Tokens(m)[k][3] PROVE b = f
  <2>1. \A k \in 1..LengthBytes : b[k] = f[k]
    BY <1>2, <1>3
  <2>2. b = [k \in 1..LengthBytes |-> b[k]] /\ f = [k \in 1..LengthBytes |-> f[k]]
    BY DEF Lengths
  <2>3. QED
    BY <2>1, <2>2
<1>4. ASSUME \A k \in 1..LengthBytes : b[k] = Tokens(m)[LengthBytes + k][3] PROVE b = g
  <2>1. \A k \in 1..LengthBytes : b[k] = g[k]
    BY <1>2, <1>4
  <2>2. b = [k \in 1..LengthBytes |-> b[k]] /\ g = [k \in 1..LengthBytes |-> g[k]]
    BY DEF Lengths
  <2>3. QED
    BY <2>1, <2>2
<1>5. QED
  BY <1>1, <1>3, <1>4

\* The first k tokens are contents, and they follow the c that are already there.
LEMMA ReadMore ==
  ASSUME NEW s, NEW u, NEW ms, NEW n \in 1..Len(ms), NEW c \in Nat, NEW k \in 1..Len(s),
         Sent(ms), Flow(s, u, Succ(<<n, c + Ahead>>, ms), ms),
         c + k <= HeaderLen(ms[n]) + BodyLen(ms[n])
  PROVE  LET r == SubSeq(s, k + 1, Len(s))
         IN /\ \A i \in 1..k : s[i] = Tokens(ms[n])[(c + Ahead) + i]
            /\ Flow(r, u, Succ(<<n, (c + Ahead) + k>>, ms), ms)
            /\ Whole(s, u, Succ(<<n, c + Ahead>>, ms), ms)
               => Whole(r, u, Succ(<<n, (c + Ahead) + k>>, ms), ms)
<1>1. k \in Nat /\ k >= 1 /\ n \in Nat
  <2>1. Len(s) \in Nat
    BY DEF Flow
  <2>2. QED
    BY <2>1
<1>2. ms[n] \in Messages
  BY DEF Sent
<1>3. PICK h \in Nat, b \in Nat : h = HeaderLen(ms[n]) /\ b = BodyLen(ms[n])
  BY <1>2, MessageType
<1>4. PICK p \in Nat : p = c + Ahead
  BY AheadFacts
<1>5. PICK size \in Nat : size = Size(ms[n])
  BY <1>2, MessageType
<1>6. p + k <= size
  <2>1. c + k <= h + b /\ size = Ahead + h + b
    BY <1>3, <1>5 DEF Size
  <2>2. QED
    BY <1>1, <1>4, <2>1, AheadFacts
<1>7. Succ(<<n, p>>, ms) = <<n, p + 1>>
  <2>1. p < size
    BY <1>1, <1>6
  <2>2. QED
    BY <1>5, <2>1 DEF Succ
<1>8. Flow(s, u, <<n, p + 1>>, ms)
  BY <1>4, <1>7
<1>9. LET r == SubSeq(s, k + 1, Len(s))
      IN /\ n \in 1..Len(ms)
         /\ \A i \in 1..k : s[i] = Tokens(ms[n])[p + i]
         /\ Flow(r, u, Succ(<<n, p + k>>, ms), ms)
         /\ Whole(s, u, <<n, p + 1>>, ms) => Whole(r, u, Succ(<<n, p + k>>, ms), ms)
  <2>1. n \in 1..Len(ms) => p + k <= Size(ms[n])
    BY <1>5, <1>6
  <2>2. QED
    BY <1>1, <1>8, <2>1, ReadOn
<1>10. QED
  BY <1>4, <1>7, <1>9

-----------------------------------------------------------------------------
(* The types, which do not depend on what the lengths are taken for.        *)

LEMMA NothingReceived == Nothing \in Received
  BY EmptySeq DEF Nothing, Received

\* What a read of a length takes, and the number it is taken for.
LEMMA TakesTypes ==
  ASSUME stream \in Seq(Token), cut \in BOOLEAN, NEW n \in 1..LengthBytes, Takes(n)
  PROVE  /\ n \in 1..Len(stream) /\ stream' \in Seq(Token) /\ cut' \in BOOLEAN
         /\ stream' = SubSeq(stream, n + 1, Len(stream)) /\ cut' = (cut \/ n < LengthBytes)
         /\ Buffer(n) \in Lengths /\ ntohl(Buffer(n)) \in Nat
<1>1. n \in 1..Len(stream) /\ stream' = SubSeq(stream, n + 1, Len(stream))
      /\ cut' = (cut \/ n < LengthBytes)
  BY AheadFacts DEF Takes
<1>2. stream' \in Seq(Token)
  BY <1>1, Rest
<1>3. ASSUME NEW k \in 1..LengthBytes PROVE (IF k <= n THEN stream[k][3] ELSE 0) \in Byte
  <2>1. CASE k <= n
    <3>1. k \in 1..Len(stream)
      BY <1>1, <2>1, AheadFacts
    <3>2. stream[k] \in Token
      BY <3>1, ElementOfSeq
    <3>3. QED
      BY <2>1, <3>2 DEF Token
  <2>2. QED
    BY <2>1, LengthAssumption
<1>4. Buffer(n) \in Lengths
  BY <1>3 DEF Buffer, Lengths
<1>5. ntohl(Buffer(n)) \in Nat
  BY <1>4, LengthAssumption
<1>6. QED
  BY <1>1, <1>2, <1>4, <1>5

LEMMA ClientTypes ==
  ASSUME StreamTypes, connectClient \/ Begin \/ Arrive \/ Leave
  PROVE  StreamTypes'
<1>1. CASE connectClient
  <2>1. Sent(<<>>)
    BY LinkAssumption, EmptySeq DEF Sent
  <2>2. QED
    BY <1>1, <2>1, NothingReceived, EmptySeq DEF connectClient, StreamTypes
<1>2. CASE Begin
  <2>1. PICK m \in Messages : /\ m.id = Len(sent) + 1 /\ toSend' = Tokens(m)
                              /\ sent' = Append(sent, m)
    BY <1>2 DEF Begin
  <2>2. toSend' \in Seq(Token) /\ Sent(sent')
    BY <1>2, <2>1, MessageType, SentMore DEF Begin, StreamTypes
  <2>3. QED
    BY <1>2, <2>2 DEF Begin, StreamTypes, readVars
<1>3. CASE Arrive
  <2>1. toSend \in Seq(Token) /\ toSend # <<>> /\ stream \in Seq(Token)
    BY <1>3 DEF Arrive, StreamTypes
  <2>2. Tail(toSend) \in Seq(Token) /\ Head(toSend) \in Token
    BY <2>1, HeadTailProperties
  <2>3. toSend' \in Seq(Token) /\ stream' \in Seq(Token)
    BY <1>3, <2>1, <2>2, AppendProperties DEF Arrive
  <2>4. QED
    BY <1>3, <2>3 DEF Arrive, StreamTypes, readVars
<1>4. CASE Leave
  BY <1>4, EmptySeq DEF Leave, StreamTypes, readVars
<1>5. QED
  BY <1>1, <1>2, <1>3, <1>4

LEMMA ReadTypes ==
  ASSUME StreamTypes, ReadHeaderLen \/ ReadBodyLen \/ ReadContents
  PROVE  StreamTypes'
<1>1. /\ client' = client /\ toSend' = toSend /\ sent' = sent /\ handled' = handled
  BY DEF ReadHeaderLen, ReadBodyLen, ReadContents, Reads
<1>2. received \in Received /\ stream \in Seq(Token) /\ cut \in BOOLEAN
  BY DEF StreamTypes
<1>3. received' \in Received /\ stream' \in Seq(Token) /\ cut' \in BOOLEAN
  <2>1. CASE UNCHANGED <<stream, cut>> /\ received' \in {received, Nothing}
    BY <1>2, <2>1, NothingReceived
  <2>2. CASE \E n \in 1..LengthBytes :
                Takes(n) /\ received' = [Nothing EXCEPT !.headerLen = ntohl(Buffer(n))]
    <3>1. PICK n \in 1..LengthBytes :
                Takes(n) /\ received' = [Nothing EXCEPT !.headerLen = ntohl(Buffer(n))]
      BY <2>2
    <3>2. received' = [headerLen |-> ntohl(Buffer(n)), bodyLen |-> 0, contents |-> <<>>]
      BY <3>1 DEF Nothing
    <3>3. stream' \in Seq(Token) /\ cut' \in BOOLEAN /\ ntohl(Buffer(n)) \in Nat
      BY <1>2, <3>1, TakesTypes
    <3>4. QED
      BY <3>2, <3>3, EmptySeq DEF Received
  <2>3. CASE \E n \in 1..LengthBytes :
                Takes(n) /\ received' = [received EXCEPT !.bodyLen = ntohl(Buffer(n))]
    <3>1. PICK n \in 1..LengthBytes :
                Takes(n) /\ received' = [received EXCEPT !.bodyLen = ntohl(Buffer(n))]
      BY <2>3
    <3>2. stream' \in Seq(Token) /\ cut' \in BOOLEAN /\ ntohl(Buffer(n)) \in Nat
      BY <1>2, <3>1, TakesTypes
    <3>3. QED
      BY <1>2, <3>1, <3>2 DEF Received
  <2>4. CASE cut' = cut /\ \E n \in 1..Len(stream) :
                /\ received' = [received EXCEPT !.contents = @ \o SubSeq(stream, 1, n)]
                /\ stream' = SubSeq(stream, n + 1, Len(stream))
    <3>1. PICK n \in 1..Len(stream) :
                /\ received' = [received EXCEPT !.contents = @ \o SubSeq(stream, 1, n)]
                /\ stream' = SubSeq(stream, n + 1, Len(stream))
      BY <2>4
    <3>2. received.contents \in Seq(Token) /\ SubSeq(stream, 1, n) \in Seq(Token)
      BY <1>2, ReadRest DEF Received
    <3>3. received.contents \o SubSeq(stream, 1, n) \in Seq(Token)
      BY <3>2, ConcatProperties
    <3>4. stream' \in Seq(Token)
      BY <1>2, <3>1, Rest
    <3>5. QED
      BY <1>2, <2>4, <3>1, <3>3, <3>4 DEF Received
  <2>5. CASE ReadHeaderLen
    BY <2>1, <2>2, <2>5 DEF ReadHeaderLen
  <2>6. CASE ReadBodyLen
    BY <2>1, <2>3, <2>6 DEF ReadBodyLen
  <2>7. CASE ReadContents
    BY <2>1, <2>4, <2>7 DEF ReadContents
  <2>8. QED
    BY <2>5, <2>6, <2>7
<1>4. QED
  BY <1>1, <1>3 DEF StreamTypes

LEMMA StepTypes ==
  ASSUME StreamTypes, [Next]_vars
  PROVE  StreamTypes'
<1>1. CASE UNCHANGED <<toSend, stream, sent, received, handled, cut>>
           /\ (client' = "open" <=> client = "open")
  BY <1>1 DEF StreamTypes
<1>2. EndContents \/ Throw \/ Answer \/ StatusMessage \/ UNCHANGED vars
      => /\ UNCHANGED <<toSend, stream, sent, received, handled, cut>>
         /\ client' = "open" <=> client = "open"
  BY DEF EndContents, Throw, Answer, StatusMessage, WritePart, Writes, Reads, clientVars, readVars, vars
<1>3. CASE Handle
  <2>1. handled' = Append(handled, received) /\ received' = Nothing
        /\ UNCHANGED <<client, toSend, stream, sent, cut>>
    BY <1>3 DEF Handle, Reads
  <2>2. QED
    BY <2>1, NothingReceived, AppendProperties DEF StreamTypes
<1>4. CASE EndSession
  BY <1>4, NothingReceived, EmptySeq DEF EndSession, StreamTypes
<1>5. QED
  BY <1>1, <1>2, <1>3, <1>4, ClientTypes, ReadTypes
     DEF Next, SessionThread, Client, StatusThread

\* A client of whom a length was read in part remains one.
LEMMA CutStays ==
  ASSUME [Next]_vars, ~connectClient, cut
  PROVE  cut'
<1>1. Begin \/ Arrive \/ Leave => cut' = cut
  BY DEF Begin, Arrive, Leave, readVars
<1>2. ReadHeaderLen \/ ReadBodyLen => cut' = cut \/ \E n \in 1..LengthBytes : Takes(n)
  BY DEF ReadHeaderLen, ReadBodyLen
<1>3. (\E n \in 1..LengthBytes : Takes(n)) => cut'
  BY DEF Takes
<1>4. ReadContents \/ EndContents \/ Throw \/ Handle \/ EndSession => cut' = cut
  BY DEF ReadContents, EndContents, Throw, Handle, EndSession, readVars
<1>5. Answer \/ StatusMessage \/ UNCHANGED vars => cut' = cut
  BY DEF Answer, StatusMessage, Writes, vars
<1>6. QED
  BY <1>1, <1>2, <1>3, <1>4, <1>5 DEF Next, SessionThread, Client, StatusThread

-----------------------------------------------------------------------------
(* The steps, while no length was read in part.                             *)

Between == {"accept", "headerLen", "write"}

\* A step of a writer, of the session thread between two messages, or none at all.
LEMMA QuietStream ==
  ASSUME Uncut, UNCHANGED <<toSend, stream, sent, received, handled>>,
         clientSocket' = clientSocket, readVal' = readVal,
         client' = "open" <=> client = "open",
         session' = session \/ (session \in Between /\ session' \in Between)
  PROVE  FlowInv' /\ MessageInv'
<1>1. Due' = Due
  BY DEF Due, DueOf, Current, Between
<1>2. FlowInv'
  BY <1>1 DEF Uncut, FlowInv
<1>3. MessageInv'
  BY DEF Uncut, MessageInv, Between, CutOff, Current
<1>4. QED
  BY <1>2, <1>3

\* A new client has sent nothing, and nothing of the last one is left.
LEMMA ConnectStream ==
  ASSUME connectClient
  PROVE  FlowInv' /\ MessageInv'
<1>1. /\ client' = "open" /\ toSend' = <<>> /\ stream' = <<>> /\ sent' = <<>> /\ handled' = <<>>
      /\ session' = "headerLen" /\ received' = Nothing
  BY DEF connectClient
<1>2. Due' = <<1, 1>> /\ Len(<<>>) = 0
  BY <1>1 DEF Due, DueOf, Current
<1>3. Whole(<<>>, <<>>, <<1, 1>>, <<>>)
  BY <1>2 DEF Whole, After
<1>4. FlowInv'
  BY <1>1, <1>2, <1>3, FlowEmpty DEF FlowInv
<1>5. MessageInv'
  BY <1>1 DEF MessageInv
<1>6. QED
  BY <1>4, <1>5

\* Only when nothing of the last message is still to be sent.
LEMMA BeginStream ==
  ASSUME Uncut, Begin
  PROVE  FlowInv' /\ MessageInv'
<1>1. PICK m \in Messages : /\ m.id = Len(sent) + 1 /\ toSend' = Tokens(m)
                            /\ sent' = Append(sent, m)
  BY DEF Begin
<1>2. /\ client = "open" /\ toSend = <<>> /\ Len(sent) < MaxMessages
      /\ client' = client /\ stream' = stream
      /\ session' = session /\ clientSocket' = clientSocket /\ readVal' = readVal
      /\ received' = received /\ handled' = handled
  BY DEF Begin, readVars
<1>3. Sent(sent) /\ Flow(stream, <<>>, Due, sent) /\ Whole(stream, <<>>, Due, sent)
  BY <1>2 DEF Uncut, StreamTypes, FlowInv
<1>4. /\ Sent(sent') /\ Flow(stream, toSend', Due, sent') /\ Whole(stream, toSend', Due, sent')
      /\ Len(sent') = Len(sent) + 1 /\ \A i \in 1..Len(sent) : sent'[i] = sent[i]
  BY <1>1, <1>2, <1>3, FlowBegin
<1>5. Len(sent) \in Nat /\ Current \in Nat \ {0}
  BY <1>3, EmptySeq DEF Sent, Uncut, StreamTypes, Current
<1>6. Current' = Current /\ (Current <= Len(sent) => sent'[Current] = sent[Current] /\ Current <= Len(sent'))
  BY <1>2, <1>4, <1>5 DEF Current
<1>7. Due' = Due
  <2>1. CASE session = "contents"
    <3>1. Current <= Len(sent)
      BY <2>1 DEF Uncut, MessageInv
    <3>2. Succ(<<Current, Len(received.contents) + Ahead>>, sent')
          = Succ(<<Current, Len(received.contents) + Ahead>>, sent)
      BY <1>6, <3>1 DEF Succ
    <3>3. QED
      BY <1>2, <1>6, <2>1, <3>2 DEF Due, DueOf
  <2>2. CASE session # "contents"
    BY <1>2, <1>6, <2>2 DEF Due, DueOf
  <2>3. QED
    BY <2>1, <2>2
<1>8. FlowInv'
  BY <1>2, <1>4, <1>7 DEF FlowInv
<1>9. MessageInv'
  BY <1>2, <1>6 DEF Uncut, MessageInv, CutOff
<1>10. QED
  BY <1>8, <1>9

LEMMA ArriveStream ==
  ASSUME Uncut, Arrive
  PROVE  FlowInv' /\ MessageInv'
<1>1. /\ toSend # <<>> /\ toSend' = Tail(toSend) /\ stream' = Append(stream, Head(toSend))
      /\ client' = client /\ sent' = sent
      /\ session' = session /\ clientSocket' = clientSocket /\ readVal' = readVal
      /\ received' = received /\ handled' = handled
  BY DEF Arrive, readVars
<1>2. Due' = Due /\ client = "open" /\ Sent(sent)
  BY <1>1 DEF Due, Current, Uncut, StreamTypes
<1>3. FlowInv'
  BY <1>1, <1>2, FlowArrive DEF Uncut, FlowInv
<1>4. MessageInv'
  BY <1>1, <1>2 DEF Uncut, MessageInv, CutOff, Current
<1>5. QED
  BY <1>3, <1>4

LEMMA LeaveStream ==
  ASSUME Uncut, Leave
  PROVE  FlowInv' /\ MessageInv'
<1>1. /\ client = "open" /\ client' # "open" /\ toSend' = <<>> /\ stream' = stream /\ sent' = sent
      /\ session' = session /\ clientSocket' = clientSocket /\ readVal' = readVal
      /\ received' = received /\ handled' = handled
  BY DEF Leave, readVars
<1>2. Due' = Due
  BY <1>1 DEF Due, Current
<1>3. FlowInv'
  BY <1>1, <1>2, FlowLeave DEF Uncut, FlowInv
<1>4. MessageInv'
  BY <1>1 DEF Uncut, MessageInv, CutOff, Current
<1>5. QED
  BY <1>3, <1>4

\* A read of a length that does not cut it takes it whole.
LEMMA TakesWhole ==
  ASSUME Uncut, NEW n \in 1..LengthBytes, Takes(n), ~cut'
  PROVE  /\ n = LengthBytes /\ LengthBytes <= Len(stream) /\ stream \in Seq(Token)
         /\ stream' = SubSeq(stream, LengthBytes + 1, Len(stream))
         /\ Buffer(n) \in Lengths /\ \A k \in 1..LengthBytes : Buffer(n)[k] = stream[k][3]
<1>1. stream \in Seq(Token) /\ cut \in BOOLEAN
  BY DEF Uncut, StreamTypes
<1>2. ~(n < LengthBytes)
  BY DEF Takes
<1>3. n = LengthBytes
  BY <1>2, AheadFacts
<1>4. \A k \in 1..LengthBytes : Buffer(n)[k] = stream[k][3]
  BY <1>3, AheadFacts DEF Buffer
<1>5. LengthBytes <= Len(stream) /\ stream' = SubSeq(stream, LengthBytes + 1, Len(stream))
  BY <1>3 DEF Takes
<1>6. QED
  BY <1>1, <1>3, <1>4, <1>5, TakesTypes

\* The length of a header is that of the next message's, or the session is over.
LEMMA ReadHeaderLenStream ==
  ASSUME Uncut, ReadHeaderLen, ~cut'
  PROVE  FlowInv' /\ MessageInv'
<1>1. /\ session = "headerLen" /\ client' = client /\ toSend' = toSend /\ sent' = sent
      /\ handled' = handled
  BY DEF ReadHeaderLen, Reads
<1>2. Current' = Current /\ Current \in Nat /\ Due = <<Current, 0 + 1>>
  <2>1. Len(handled) \in Nat
    BY EmptySeq DEF Uncut, StreamTypes
  <2>2. QED
    BY <1>1, <2>1 DEF Current, Due, DueOf
<1>3. CASE session' = "bodyLen"
           /\ \E n \in 1..LengthBytes :
                 Takes(n) /\ received' = [Nothing EXCEPT !.headerLen = ntohl(Buffer(n))]
  <2>0. PICK n \in 1..LengthBytes :
                 Takes(n) /\ received' = [Nothing EXCEPT !.headerLen = ntohl(Buffer(n))]
    BY <1>3
  <2>1. received' = [headerLen |-> ntohl(Buffer(n)), bodyLen |-> 0, contents |-> <<>>]
    BY <2>0 DEF Nothing
  <2>2. /\ LengthBytes <= Len(stream) /\ stream \in Seq(Token)
        /\ stream' = SubSeq(stream, LengthBytes + 1, Len(stream))
        /\ Buffer(n) \in Lengths /\ \A k \in 1..LengthBytes : Buffer(n)[k] = stream[k][3]
    BY <2>0, TakesWhole
  <2>3. /\ Current \in 1..Len(sent) /\ sent[Current] \in Messages
        /\ Buffer(n) = sent[Current].size[1]
        /\ Flow(stream', toSend, Succ(<<Current, 0 + LengthBytes>>, sent), sent)
        /\ Whole(stream, toSend, Due, sent)
           => Whole(stream', toSend, Succ(<<Current, 0 + LengthBytes>>, sent), sent)
    <3>1. PICK p \in Nat, n1 \in Nat, b \in Lengths : p = 0 /\ n1 = Current /\ b = Buffer(n)
      BY <1>2, <2>2
    <3>2. Sent(sent) /\ Flow(stream, toSend, <<n1, p + 1>>, sent)
      BY <1>2, <3>1 DEF Uncut, StreamTypes, FlowInv
    <3>3. LengthBytes \in 1..Len(stream)
      BY <2>2, AheadFacts
    <3>4. n1 \in 1..Len(sent) => sent[n1] \in Messages /\ p + LengthBytes <= Size(sent[n1])
      <4>1. n1 \in 1..Len(sent) =>
               /\ sent[n1] \in Messages /\ LengthBytes <= Size(sent[n1])
               /\ LengthBytes + LengthBytes <= Size(sent[n1])
        BY <3>2, LengthsFit
      <4>2. p + LengthBytes = LengthBytes \/ p + LengthBytes = LengthBytes + LengthBytes
        BY <3>1, AheadFacts
      <4>3. QED
        BY <4>1, <4>2
    <3>5. LET r == SubSeq(stream, LengthBytes + 1, Len(stream))
          IN /\ n1 \in 1..Len(sent)
             /\ \A i \in 1..LengthBytes : stream[i] = Tokens(sent[n1])[p + i]
             /\ Flow(r, toSend, Succ(<<n1, p + LengthBytes>>, sent), sent)
             /\ Whole(stream, toSend, <<n1, p + 1>>, sent)
                => Whole(r, toSend, Succ(<<n1, p + LengthBytes>>, sent), sent)
      BY <3>2, <3>3, <3>4, ReadOn
    <3>6. b = sent[n1].size[1]
      <4>1. \A i \in 1..LengthBytes : p + i = i
        BY <3>1
      <4>2. \A i \in 1..LengthBytes : b[i] = Tokens(sent[n1])[i][3]
        BY <2>2, <3>1, <3>5, <4>1
      <4>3. QED
        BY <3>4, <3>5, <4>2, LengthsOf
    <3>7. QED
      BY <1>2, <2>2, <3>1, <3>4, <3>5, <3>6
  <2>4. Succ(<<Current, 0 + LengthBytes>>, sent) = <<Current, LengthBytes + 1>>
    <3>1. PICK h \in Nat, b \in Nat : h = HeaderLen(sent[Current]) /\ b = BodyLen(sent[Current])
      BY <2>3, MessageType
    <3>2. Size(sent[Current]) = Ahead + h + b
      BY <3>1 DEF Size
    <3>3. LengthBytes < Size(sent[Current]) /\ 0 + LengthBytes = LengthBytes
      BY <3>2, AheadFacts
    <3>4. QED
      BY <3>3 DEF Succ
  <2>5. Due' = <<Current, LengthBytes + 1>>
    BY <1>2, <1>3 DEF Due, DueOf
  <2>6. FlowInv'
    BY <1>1, <1>3, <2>3, <2>4, <2>5 DEF Uncut, FlowInv
  <2>7. MessageInv'
    <3>1. session' = "bodyLen" /\ Current' <= Len(sent')
      BY <1>1, <1>2, <1>3, <2>3
    <3>2. received' = [headerLen |-> HeaderLen(sent'[Current']), bodyLen |-> 0, contents |-> <<>>]
      BY <1>1, <1>2, <2>1, <2>3 DEF HeaderLen
    <3>3. QED
      BY <3>1, <3>2 DEF MessageInv
  <2>8. QED
    BY <2>6, <2>7
<1>4. CASE /\ AtEnd /\ session' = "check" /\ received' = Nothing /\ stream' = stream
           /\ clientSocket' = FALSE \/ readVal' = -1
  <2>1. stream = <<>> /\ toSend = <<>> /\ client # "open"
    BY <1>4 DEF AtEnd, Arrived, Uncut, StreamTypes
  <2>2. FlowInv'
    BY <1>1, <1>4, <2>1, FlowEmpty DEF FlowInv
  <2>3. MessageInv'
    BY <1>4 DEF MessageInv
  <2>4. QED
    BY <2>2, <2>3
<1>5. QED
  BY <1>3, <1>4 DEF ReadHeaderLen

\* So is the length of a body; cut off it is taken for 0, and unless the message is
\* empty no contents follow.
LEMMA ReadBodyLenStream ==
  ASSUME Uncut, ReadBodyLen, ~cut'
  PROVE  FlowInv' /\ MessageInv'
<1>1. /\ session = "bodyLen" /\ client' = client /\ toSend' = toSend /\ sent' = sent
      /\ handled' = handled /\ clientSocket' = clientSocket
  BY DEF ReadBodyLen, Reads
<1>2. Current' = Current /\ Current \in Nat /\ Due = <<Current, LengthBytes + 1>>
  <2>1. Len(handled) \in Nat
    BY EmptySeq DEF Uncut, StreamTypes
  <2>2. QED
    BY <1>1, <2>1 DEF Current, Due, DueOf
<1>3. /\ Current <= Len(sent) /\ Current >= 1
      /\ received = [headerLen |-> HeaderLen(sent[Current]), bodyLen |-> 0, contents |-> <<>>]
  <2>1. Len(handled) \in Nat
    BY EmptySeq DEF Uncut, StreamTypes
  <2>2. QED
    BY <1>1, <2>1 DEF Uncut, MessageInv, Current
<1>4. sent[Current] \in Messages
  BY <1>2, <1>3 DEF Uncut, StreamTypes, Sent
<1>5. CASE session' = "contents"
           /\ \E n \in 1..LengthBytes :
                 Takes(n) /\ received' = [received EXCEPT !.bodyLen = ntohl(Buffer(n))]
  <2>0. PICK n \in 1..LengthBytes :
                 Takes(n) /\ received' = [received EXCEPT !.bodyLen = ntohl(Buffer(n))]
    BY <1>5
  <2>1. received' = [headerLen |-> HeaderLen(sent[Current]), bodyLen |-> ntohl(Buffer(n)),
                     contents |-> <<>>]
    BY <1>3, <2>0
  <2>2. /\ LengthBytes <= Len(stream) /\ stream \in Seq(Token)
        /\ stream' = SubSeq(stream, LengthBytes + 1, Len(stream))
        /\ Buffer(n) \in Lengths /\ \A k \in 1..LengthBytes : Buffer(n)[k] = stream[k][3]
    BY <2>0, TakesWhole
  <2>3. /\ Buffer(n) = sent[Current].size[2]
        /\ Flow(stream', toSend, Succ(<<Current, LengthBytes + LengthBytes>>, sent), sent)
        /\ Whole(stream, toSend, Due, sent)
           => Whole(stream', toSend, Succ(<<Current, LengthBytes + LengthBytes>>, sent), sent)
    <3>1. PICK p \in Nat, n1 \in Nat, b \in Lengths :
            p = LengthBytes /\ n1 = Current /\ b = Buffer(n)
      BY <1>2, <2>2, AheadFacts
    <3>2. Sent(sent) /\ Flow(stream, toSend, <<n1, p + 1>>, sent)
      BY <1>2, <3>1 DEF Uncut, StreamTypes, FlowInv
    <3>3. LengthBytes \in 1..Len(stream)
      BY <2>2, AheadFacts
    <3>4. n1 \in 1..Len(sent) => sent[n1] \in Messages /\ p + LengthBytes <= Size(sent[n1])
      <4>1. n1 \in 1..Len(sent) =>
               /\ sent[n1] \in Messages /\ LengthBytes <= Size(sent[n1])
               /\ LengthBytes + LengthBytes <= Size(sent[n1])
        BY <3>2, LengthsFit
      <4>2. p + LengthBytes = LengthBytes \/ p + LengthBytes = LengthBytes + LengthBytes
        BY <3>1, AheadFacts
      <4>3. QED
        BY <4>1, <4>2
    <3>5. LET r == SubSeq(stream, LengthBytes + 1, Len(stream))
          IN /\ n1 \in 1..Len(sent)
             /\ \A i \in 1..LengthBytes : stream[i] = Tokens(sent[n1])[p + i]
             /\ Flow(r, toSend, Succ(<<n1, p + LengthBytes>>, sent), sent)
             /\ Whole(stream, toSend, <<n1, p + 1>>, sent)
                => Whole(r, toSend, Succ(<<n1, p + LengthBytes>>, sent), sent)
      BY <3>2, <3>3, <3>4, ReadOn
    <3>6. b = sent[n1].size[2]
      <4>1. \A i \in 1..LengthBytes : b[i] = Tokens(sent[n1])[LengthBytes + i][3]
        BY <2>2, <3>1, <3>5
      <4>2. QED
        BY <3>4, <3>5, <4>1, LengthsOf
    <3>7. QED
      BY <1>2, <2>2, <3>1, <3>5, <3>6
  <2>4. Due' = Succ(<<Current, LengthBytes + LengthBytes>>, sent)
    <3>1. Len(received'.contents) + Ahead = LengthBytes + LengthBytes
      BY <2>1, AheadFacts
    <3>2. QED
      BY <1>1, <1>2, <1>5, <3>1 DEF Due, DueOf
  <2>5. FlowInv'
    BY <1>1, <1>5, <2>3, <2>4 DEF Uncut, FlowInv
  <2>6. PartOf(received', sent[Current])
    <3>1. PICK h \in Nat, b \in Nat : h = HeaderLen(sent[Current]) /\ b = BodyLen(sent[Current])
      BY <1>4, MessageType
    <3>2. Len(<<>>) = 0 /\ 1..0 = {} /\ 0 <= h + b
      BY <3>1
    <3>3. received'.bodyLen = BodyLen(sent[Current]) /\ received'.contents = <<>>
          /\ received'.headerLen = HeaderLen(sent[Current])
      BY <2>1, <2>3 DEF BodyLen
    <3>4. QED
      BY <3>1, <3>2, <3>3 DEF PartOf
  <2>7. MessageInv'
    BY <1>1, <1>2, <1>3, <1>5, <2>6 DEF MessageInv
  <2>8. QED
    BY <2>5, <2>7
<1>6. CASE /\ AtEnd /\ UNCHANGED <<received, stream>>
           /\ session' = "contents" \/ (session' = "check" /\ readVal' = -1)
  <2>1. stream = <<>> /\ toSend = <<>> /\ client # "open"
    BY <1>6 DEF AtEnd, Arrived, Uncut, StreamTypes
  <2>2. FlowInv'
    BY <1>1, <1>6, <2>1, FlowEmpty DEF FlowInv
  <2>3. CutOff' \/ PartOf(received, sent[Current])
    <3>1. PICK h \in Nat, b \in Nat : h = HeaderLen(sent[Current]) /\ b = BodyLen(sent[Current])
      BY <1>4, MessageType
    <3>2. h + b < UInt32 /\ (h = 0 => b = 0) /\ UInt32 \in Nat
      BY <1>4, <3>1, MessageType, LengthAssumption
    <3>3. received.headerLen = h /\ received.bodyLen = 0 /\ received.contents = <<>>
      BY <1>3, <3>1
    <3>4. CASE h # 0
      <4>1. h \in 1..UInt32 - 1
        BY <3>2, <3>4
      <4>2. QED
        BY <1>1, <1>6, <2>1, <3>3, <4>1 DEF CutOff
    <3>5. CASE h = 0
      <4>1. Len(<<>>) = 0 /\ 1..0 = {} /\ 0 <= h + b
        BY <3>1
      <4>2. QED
        BY <3>1, <3>2, <3>3, <3>5, <4>1 DEF PartOf
    <3>6. QED
      BY <3>4, <3>5
  <2>4. MessageInv'
    BY <1>1, <1>2, <1>3, <1>6, <2>3 DEF MessageInv
  <2>5. QED
    BY <2>2, <2>4
<1>7. QED
  BY <1>5, <1>6 DEF ReadBodyLen

\* As many tokens belong to a message as its lengths say: their sum does not wrap.
LEMMA NeededOf ==
  ASSUME NEW m \in Messages, PartOf(received, m)
  PROVE  Needed = HeaderLen(m) + BodyLen(m)
<1>1. received.headerLen + received.bodyLen < UInt32
  BY MessageType DEF PartOf
<1>2. QED
  BY <1>1 DEF Needed, PartOf

\* However many tokens a read returns, they go on where the last read stopped.
LEMMA ReadContentsStream ==
  ASSUME Uncut, ReadContents
  PROVE  FlowInv' /\ MessageInv'
<1>1. /\ session = "contents" /\ session' = session /\ client' = client /\ toSend' = toSend
      /\ sent' = sent /\ handled' = handled /\ clientSocket' = clientSocket
      /\ Len(received.contents) < Needed
  BY DEF ReadContents, Reads
<1>2. Current' = Current /\ Current \in 1..Len(sent) /\ received \in Received
  <2>1. Len(handled) \in Nat /\ Len(sent) \in Nat /\ received \in Received
    BY EmptySeq DEF Uncut, StreamTypes, Sent
  <2>2. QED
    BY <1>1, <2>1 DEF Uncut, MessageInv, Current
<1>3. CASE Arrived /\ \E n \in 1..Len(stream) :
              /\ n <= Needed - Len(received.contents)
              /\ received' = [received EXCEPT !.contents = @ \o SubSeq(stream, 1, n)]
              /\ stream' = SubSeq(stream, n + 1, Len(stream))
  <2>1. PICK k \in 1..Len(stream) :
              /\ k <= Needed - Len(received.contents)
              /\ received' = [received EXCEPT !.contents = @ \o SubSeq(stream, 1, k)]
              /\ stream' = SubSeq(stream, k + 1, Len(stream))
    BY <1>3
  <2> DEFINE m == sent[Current]
             old == received.contents
             new == SubSeq(stream, 1, k)
  <2>2. stream # <<>> /\ stream \in Seq(Token)
    BY <1>3 DEF Arrived, Uncut, StreamTypes
  <2>3. PartOf(received, m)
    BY <1>1, <2>2 DEF Uncut, MessageInv, CutOff
  <2>4. m \in Messages
    BY <1>2 DEF Uncut, StreamTypes, Sent
  <2>5. old \in Seq(Token) /\ received' = [headerLen |-> HeaderLen(m), bodyLen |-> BodyLen(m),
                                           contents |-> old \o new]
    BY <1>2, <2>1, <2>3 DEF Received, PartOf
  <2>6. new \in Seq(Token) /\ Len(new) = k /\ \A i \in 1..k : new[i] = stream[i]
    BY <2>2, ReadRest
  <2>7. PICK c \in Nat : c = Len(old)
    BY <2>5, EmptySeq
  <2>8. c + k <= HeaderLen(m) + BodyLen(m)
    <3>1. HeaderLen(m) \in Nat /\ BodyLen(m) \in Nat /\ Needed = HeaderLen(m) + BodyLen(m)
      BY <2>3, <2>4, MessageType, NeededOf
    <3>2. PICK needed \in Nat : needed = HeaderLen(m) + BodyLen(m)
      BY <3>1
    <3>3. k <= needed - c /\ k \in Int
      BY <2>1, <2>7, <3>1, <3>2
    <3>4. c + k <= needed
      BY <3>3
    <3>5. QED
      BY <3>2, <3>4
  <2>9. Due = Succ(<<Current, c + Ahead>>, sent)
    BY <1>1, <2>7 DEF Due, DueOf
  <2>10. /\ \A i \in 1..k : stream[i] = Tokens(m)[(c + Ahead) + i]
         /\ Flow(stream', toSend, Succ(<<Current, (c + Ahead) + k>>, sent), sent)
         /\ Whole(stream, toSend, Due, sent)
            => Whole(stream', toSend, Succ(<<Current, (c + Ahead) + k>>, sent), sent)
    <3>1. PICK n \in 1..Len(sent) : n = Current
      BY <1>2
    <3>2. /\ Sent(sent) /\ Flow(stream, toSend, Succ(<<n, c + Ahead>>, sent), sent)
          /\ c + k <= HeaderLen(sent[n]) + BodyLen(sent[n])
      BY <2>8, <2>9, <3>1 DEF Uncut, StreamTypes, FlowInv
    <3>3. LET r == SubSeq(stream, k + 1, Len(stream))
          IN /\ \A i \in 1..k : stream[i] = Tokens(sent[n])[(c + Ahead) + i]
             /\ Flow(r, toSend, Succ(<<n, (c + Ahead) + k>>, sent), sent)
             /\ Whole(stream, toSend, Succ(<<n, c + Ahead>>, sent), sent)
                => Whole(r, toSend, Succ(<<n, (c + Ahead) + k>>, sent), sent)
      BY <3>2, ReadMore
    <3>4. QED
      BY <2>1, <2>9, <3>1, <3>3
  <2>11. /\ old \o new \in Seq(Token) /\ Len(old \o new) = c + k
         /\ \A i \in 1..c + k : (old \o new)[i] = IF i <= c THEN old[i] ELSE new[i - c]
    BY <2>5, <2>6, <2>7, ConcatProperties
  <2> HIDE DEF m, old, new
  <2>12. Due' = Succ(<<Current, (c + Ahead) + k>>, sent)
    <3>1. Len(received'.contents) + Ahead = (c + Ahead) + k
      <4>1. Len(received'.contents) = c + k
        BY <2>5, <2>11
      <4>2. QED
        BY <2>6, <4>1, AheadFacts
    <3>2. QED
      BY <1>1, <1>2, <3>1 DEF Due, DueOf
  <2>13. FlowInv'
    BY <1>1, <2>10, <2>12 DEF Uncut, FlowInv
  <2>14. ASSUME NEW i \in 1..c + k PROVE (old \o new)[i] = Tokens(m)[i + Ahead]
    <3>1. CASE i <= c
      <4>1. i \in 1..c
        BY <3>1
      <4>2. old[i] = Tokens(m)[i + Ahead]
        BY <2>3, <2>7, <4>1 DEF PartOf, old
      <4>3. QED
        BY <2>11, <3>1, <4>2
    <3>2. CASE ~(i <= c)
      <4>1. i - c \in 1..k /\ (c + Ahead) + (i - c) = i + Ahead
        BY <3>2, AheadFacts
      <4>2. new[i - c] = Tokens(m)[i + Ahead]
        BY <2>6, <2>10, <4>1
      <4>3. QED
        BY <2>11, <3>2, <4>2
    <3>3. QED
      BY <3>1, <3>2
  <2>15. PartOf(received', m)
    BY <2>5, <2>8, <2>11, <2>14 DEF PartOf
  <2>16. MessageInv'
    BY <1>1, <1>2, <2>15 DEF MessageInv, m
  <2>17. QED
    BY <2>13, <2>16
<1>4. CASE AtEnd /\ UNCHANGED <<received, stream>>
  <2>1. FlowInv'
    BY <1>1, <1>4 DEF Uncut, FlowInv, Due, Current
  <2>2. MessageInv'
    BY <1>1, <1>2, <1>4 DEF Uncut, MessageInv, CutOff
  <2>3. QED
    BY <2>1, <2>2
<1>5. QED
  BY <1>3, <1>4 DEF ReadContents

\* As many tokens as the lengths say are the message.
LEMMA EndContentsStream ==
  ASSUME Uncut, EndContents
  PROVE  FlowInv' /\ MessageInv'
<1>1. /\ session = "contents" /\ session' = "check" /\ client' = client /\ toSend' = toSend
      /\ sent' = sent /\ handled' = handled /\ stream' = stream /\ received' = received
      /\ clientSocket' = clientSocket /\ readVal' = readVal /\ Len(received.contents) = Needed
  BY DEF EndContents, Reads
<1>2. Current' = Current /\ Current \in 1..Len(sent) /\ received \in Received
  <2>1. Len(handled) \in Nat /\ Len(sent) \in Nat /\ received \in Received
    BY EmptySeq DEF Uncut, StreamTypes, Sent
  <2>2. QED
    BY <1>1, <2>1 DEF Uncut, MessageInv, Current
<1> DEFINE m == sent[Current]
<1>3. m \in Messages
  BY <1>2 DEF Uncut, StreamTypes, Sent
<1>4. PartOf(received, m)
  <2>1. ~CutOff
    <3>1. SUFFICES ASSUME CutOff PROVE FALSE
      OBVIOUS
    <3>2. PICK h \in Nat : h = received.headerLen /\ h \in 1..UInt32 - 1
      BY <1>2, <3>1 DEF CutOff, Received
    <3>3. received.headerLen + received.bodyLen = h + 0 /\ Len(received.contents) = 0
      BY <3>1, <3>2 DEF CutOff
    <3>4. h + 0 = h /\ h < UInt32 /\ h # 0
      BY <3>2, LengthAssumption
    <3>5. Needed = h
      BY <3>3, <3>4 DEF Needed
    <3>6. QED
      BY <1>1, <3>3, <3>4, <3>5
  <2>2. QED
    BY <1>1, <2>1 DEF Uncut, MessageInv
<1>5. PICK h \in Nat, b \in Nat : h = HeaderLen(m) /\ b = BodyLen(m)
  BY <1>3, MessageType
<1>6. PICK size \in Nat : size = h + b
  BY <1>5
<1>7. Len(received.contents) = size
  BY <1>1, <1>3, <1>4, <1>5, <1>6, NeededOf
<1>8. received.contents = Contents(m)
  <2>1. received.contents \in Seq(Token)
    BY <1>2 DEF Received
  <2>2. received.contents = [k \in 1..size |-> received.contents[k]]
    BY <1>7, <2>1
  <2>3. \A k \in 1..size : received.contents[k] = Tokens(m)[k + Ahead]
    BY <1>4, <1>7 DEF PartOf
  <2>4. Contents(m) = [k \in 1..size |-> Tokens(m)[k + Ahead]]
    BY <1>5, <1>6 DEF Contents, Ahead
  <2> HIDE DEF m
  <2>5. QED
    BY <2>2, <2>3, <2>4
<1>9. received = AsReceived(m)
  <2>1. received = [headerLen |-> received.headerLen, bodyLen |-> received.bodyLen,
                    contents |-> received.contents]
    BY <1>2 DEF Received
  <2>2. QED
    BY <1>4, <1>8, <2>1 DEF PartOf, AsReceived
<1>10. Due' = Due
  <2>1. Due' = <<Current + 1, 1>>
    BY <1>1, <1>2 DEF Due, DueOf
  <2>2. Due = Succ(<<Current, size + Ahead>>, sent)
    BY <1>1, <1>7 DEF Due, DueOf
  <2>3. Size(sent[Current]) = size + Ahead
    <3>1. Size(sent[Current]) = Ahead + h + b
      BY <1>5 DEF Size
    <3>2. QED
      BY <1>6, <3>1, AheadFacts
  <2>4. ~(size + Ahead < size + Ahead)
    BY AheadFacts
  <2>5. Succ(<<Current, size + Ahead>>, sent) = <<Current + 1, 1>>
    BY <2>3, <2>4 DEF Succ
  <2>6. QED
    BY <2>1, <2>2, <2>5
<1>11. FlowInv'
  BY <1>1, <1>10 DEF Uncut, FlowInv
<1>12. MessageInv'
  BY <1>1, <1>2, <1>9 DEF MessageInv
<1>13. QED
  BY <1>11, <1>12

\* What is handled is the message whose turn it is.
LEMMA HandledIsNext ==
  ASSUME Uncut, Handle
  PROVE  /\ Current \in 1..Len(sent) /\ received = AsReceived(sent[Current])
         /\ handled' = Append(handled, received) /\ sent' = sent
<1>1. session = "check" /\ clientSocket /\ readVal # -1 /\ handled' = Append(handled, received)
      /\ sent' = sent
  BY DEF Handle, GivenUp, Reads
<1>2. Len(handled) \in Nat /\ Len(sent) \in Nat
  BY EmptySeq DEF Uncut, StreamTypes, Sent
<1>3. QED
  BY <1>1, <1>2 DEF Uncut, MessageInv, Current

LEMMA HandleStream ==
  ASSUME Uncut, Handle
  PROVE  FlowInv' /\ MessageInv'
<1>1. /\ session = "check" /\ session' \in {"headerLen", "write"} /\ received' = Nothing
      /\ client' = client /\ toSend' = toSend /\ sent' = sent /\ stream' = stream
      /\ handled' = Append(handled, received)
  BY DEF Handle, Reads
<1>2. handled \in Seq(Received) /\ received \in Received
  BY DEF Uncut, StreamTypes
<1>3. handled' \in Seq(Received) /\ Len(handled') = Len(handled) + 1
  BY <1>1, <1>2, AppendProperties
<1>4. Due' = Due
  <2>1. Due = <<Current + 1, 1>> /\ Due' = <<Current', 1>>
    BY <1>1 DEF Due, DueOf
  <2>2. Current' = Current + 1
    BY <1>3 DEF Current
  <2>3. QED
    BY <2>1, <2>2
<1>5. FlowInv'
  BY <1>1, <1>4 DEF Uncut, FlowInv
<1>6. MessageInv'
  BY <1>1 DEF MessageInv
<1>7. QED
  BY <1>5, <1>6

LEMMA EndSessionStream ==
  ASSUME EndSession
  PROVE  FlowInv' /\ MessageInv'
<1>1. /\ session' = "accept" /\ client' = "closed" /\ toSend' = <<>> /\ stream' = <<>>
  BY DEF EndSession
<1>2. FlowInv'
  BY <1>1, FlowEmpty DEF FlowInv
<1>3. MessageInv'
  BY <1>1 DEF MessageInv
<1>4. QED
  BY <1>2, <1>3

LEMMA WriteStream ==
  ASSUME Uncut, Answer \/ StatusMessage \/ Throw
  PROVE  FlowInv' /\ MessageInv'
<1>1. /\ UNCHANGED <<toSend, stream, sent, received, handled>>
      /\ clientSocket' = clientSocket /\ readVal' = readVal
  BY DEF Answer, StatusMessage, Writes, Throw, clientVars, readVars
<1>2. client' = "open" <=> client = "open"
  BY DEF Answer, StatusMessage, WritePart, Throw, clientVars
<1>3. session' = session \/ (session \in Between /\ session' \in Between)
  BY DEF Answer, StatusMessage, Throw, readVars, Between
<1>4. QED
  BY <1>1, <1>2, <1>3, QuietStream

-----------------------------------------------------------------------------
LEMMA InitStream == Init => StreamInv
<1> SUFFICES ASSUME Init PROVE StreamInv
  OBVIOUS
<1>1. /\ client = "closed" /\ toSend = <<>> /\ stream = <<>> /\ session = "accept"
      /\ received = Nothing /\ sent = <<>> /\ handled = <<>> /\ cut = FALSE
  BY DEF Init
<1>2. Sent(<<>>)
  BY LinkAssumption, EmptySeq DEF Sent
<1>3. FlowInv
  BY <1>1, FlowEmpty DEF FlowInv
<1>4. MessageInv
  BY <1>1 DEF MessageInv
<1>5. StreamTypes
  BY <1>1, <1>2, NothingReceived, EmptySeq DEF StreamTypes
<1>6. QED
  BY <1>3, <1>4, <1>5 DEF StreamInv

LEMMA StepStream ==
  ASSUME StreamInv, [Next]_vars
  PROVE  StreamInv'
<1>1. StreamTypes'
  BY StepTypes DEF StreamInv
<1>2. ASSUME ~cut' PROVE FlowInv' /\ MessageInv'
  <2>1. CASE connectClient
    BY <2>1, ConnectStream
  <2>2. CASE ~connectClient
    <3>1. Uncut
      BY <1>2, <2>2, CutStays DEF StreamInv, Uncut
    <3>2. CASE Client
      BY <2>2, <3>1, <3>2, BeginStream, ArriveStream, LeaveStream DEF Client
    <3>3. CASE SessionThread
      BY <1>2, <3>1, <3>3, ReadHeaderLenStream, ReadBodyLenStream, ReadContentsStream,
         EndContentsStream, HandleStream, EndSessionStream, WriteStream DEF SessionThread
    <3>4. CASE StatusThread
      BY <3>1, <3>4, WriteStream DEF StatusThread
    <3>5. CASE UNCHANGED vars
      BY <3>1, <3>5, QuietStream DEF vars
    <3>6. QED
      BY <3>2, <3>3, <3>4, <3>5 DEF Next
  <2>3. QED
    BY <2>1, <2>2
<1>3. QED
  BY <1>1, <1>2 DEF StreamInv

\* Until a read finds only a part of a length, what is under way and what has been
\* received belong to the messages that were sent, at the place where receiveTCP
\* stands, down to the bytes of the lengths; afterwards only the types remain.
THEOREM StreamInvariant == Spec => []StreamInv
<1>1. Init => StreamInv
  BY InitStream
<1>2. StreamInv /\ [Next]_vars => StreamInv'
  BY StepStream
<1>3. QED
  BY <1>1, <1>2, PTL DEF Spec

-----------------------------------------------------------------------------
(* The channel.                                                             *)

\* What was sent, as the channel sees it.
SentAsReceived == [k \in 1..Len(sent) |-> AsReceived(sent[k])]

\* A message begun is one sent, before any of its tokens arrives.
LEMMA BeginSends ==
  ASSUME StreamTypes, Begin
  PROVE  Channel!Send
<1>1. PICK m \in Messages : sent' = Append(sent, m)
  BY DEF Begin
<1>2. handled' = handled /\ cut' = cut
  BY DEF Begin, readVars
<1>3. sent \in Seq(Messages) /\ Len(sent) \in Nat
  BY DEF StreamTypes, Sent
<1>4. /\ Len(sent') = Len(sent) + 1 /\ sent'[Len(sent) + 1] = m
      /\ \A i \in 1..Len(sent) : sent'[i] = sent[i]
  BY <1>1, <1>3
<1>5. SentAsReceived' = [k \in 1..Len(sent) + 1 |-> AsReceived(sent'[k])]
  BY <1>4 DEF SentAsReceived
<1> DEFINE R == {AsReceived(n) : n \in Messages}
<1>6. SentAsReceived \in Seq(R) /\ Len(SentAsReceived) = Len(sent)
      /\ \A i \in 1..Len(sent) : SentAsReceived[i] = AsReceived(sent[i])
  <2>1. \A i \in 1..Len(sent) : AsReceived(sent[i]) \in R
    BY <1>3
  <2> HIDE DEF R
  <2>2. QED
    BY <1>3, <2>1 DEF SentAsReceived
<1>7. SentAsReceived' \in Seq(R) /\ Len(SentAsReceived') = Len(sent) + 1
      /\ \A i \in 1..Len(sent) + 1 : SentAsReceived'[i] = AsReceived(sent'[i])
  <2>1. ASSUME NEW i \in 1..Len(sent) + 1 PROVE AsReceived(sent'[i]) \in R
    <3>1. i \in 1..Len(sent) \/ i = Len(sent) + 1
      BY <1>3
    <3>2. sent'[i] \in Messages
      BY <1>3, <1>4, <3>1
    <3>3. QED
      BY <3>2
  <2> HIDE DEF R
  <2>2. Len(sent) + 1 \in Nat
    BY <1>3
  <2>3. QED
    BY <1>5, <2>1, <2>2
<1>8. AsReceived(m) \in R
  OBVIOUS
<1> HIDE DEF R
<1>9. SentAsReceived' = Append(SentAsReceived, AsReceived(m))
  <2> DEFINE a == Append(SentAsReceived, AsReceived(m))
  <2>1. /\ a \in Seq(R) /\ Len(a) = Len(sent) + 1
        /\ \A i \in 1..Len(sent) : a[i] = AsReceived(sent[i])
        /\ a[Len(sent) + 1] = AsReceived(m)
    BY <1>3, <1>6, <1>8, AppendProperties
  <2> HIDE DEF a
  <2>2. ASSUME NEW i \in 1..Len(sent) + 1 PROVE SentAsReceived'[i] = a[i]
    <3>1. i \in 1..Len(sent) \/ i = Len(sent) + 1
      BY <1>3
    <3>2. QED
      BY <1>4, <1>7, <2>1, <3>1
  <2>3. SentAsReceived' = a
    BY <1>7, <2>1, <2>2, SeqEqual
  <2>4. QED
    BY <2>3 DEF a
<1>10. Len(SentAsReceived') = Len(SentAsReceived) + 1
  BY <1>6, <1>7
<1>11. QED
  BY <1>2, <1>8, <1>9, <1>10 DEF Channel!Send, SentAsReceived, R, AllReceived

\* What is handled is the next message, or one of a client who is misread.
LEMMA HandleHandles ==
  ASSUME StreamInv, Handle
  PROVE  Channel!Handle \/ Channel!Misread
<1>1. sent' = sent /\ cut' = cut /\ SentAsReceived' = SentAsReceived
  BY DEF Handle, Reads, SentAsReceived
<1>2. CASE ~cut
  <2>1. Uncut
    BY <1>2 DEF StreamInv, Uncut
  <2>2. /\ Current \in 1..Len(sent) /\ received = AsReceived(sent[Current])
        /\ handled' = Append(handled, received)
    BY <2>1, HandledIsNext
  <2>3. Len(sent) \in Nat /\ Len(handled) \in Nat
    BY <2>1, EmptySeq DEF Uncut, StreamTypes, Sent
  <2>4. Len(SentAsReceived) = Len(sent) /\ SentAsReceived[Current] = received
    BY <2>2, <2>3 DEF SentAsReceived
  <2>5. Len(handled) < Len(SentAsReceived)
    BY <2>2, <2>3, <2>4 DEF Current
  <2>6. handled' = Append(handled, SentAsReceived[Len(handled) + 1])
    BY <2>2, <2>4 DEF Current
  <2>7. QED
    BY <1>1, <2>5, <2>6 DEF Channel!Handle, SentAsReceived
<1>3. CASE cut
  <2>1. handled' = Append(handled, received) /\ handled \in Seq(Received) /\ received \in Received
    BY DEF Handle, StreamInv, StreamTypes
  <2>2. Len(handled') = Len(handled) + 1
    BY <2>1, AppendProperties
  <2>3. QED
    BY <1>1, <1>3, <2>2 DEF Channel!Misread, SentAsReceived
<1>4. QED
  BY <1>2, <1>3

\* A length is read whole, or in part for all the channel to know.
LEMMA LengthCuts ==
  ASSUME StreamTypes, ReadHeaderLen \/ ReadBodyLen
  PROVE  Channel!Cut \/ UNCHANGED <<SentAsReceived, handled, cut>>
<1>1. sent' = sent /\ handled' = handled /\ SentAsReceived' = SentAsReceived
  BY DEF ReadHeaderLen, ReadBodyLen, Reads, SentAsReceived
<1>2. cut' = cut \/ \E n \in 1..LengthBytes : Takes(n)
  BY DEF ReadHeaderLen, ReadBodyLen
<1>3. cut' = cut \/ cut' = TRUE
  <2>1. ASSUME NEW n \in 1..LengthBytes, Takes(n) PROVE cut' = cut \/ cut' = TRUE
    <3>1. cut \in BOOLEAN /\ cut' = (cut \/ n < LengthBytes)
      BY <2>1 DEF StreamTypes, Takes
    <3>2. CASE n < LengthBytes
      BY <3>1, <3>2
    <3>3. CASE ~(n < LengthBytes)
      BY <3>1, <3>3
    <3>4. QED
      BY <3>2, <3>3
  <2>2. QED
    BY <1>2, <2>1
<1>4. QED
  BY <1>1, <1>3 DEF Channel!Cut, SentAsReceived

LEMMA ConnectReconnects ==
  ASSUME connectClient
  PROVE  Channel!Reconnect
<1>1. sent' = <<>> /\ handled' = <<>> /\ cut' = FALSE /\ Len(<<>>) = 0
  BY DEF connectClient
<1>2. SentAsReceived' = <<>>
  BY <1>1 DEF SentAsReceived
<1>3. QED
  BY <1>1, <1>2 DEF Channel!Reconnect, SentAsReceived

\* However the contents are cut up and wherever the client leaves, a step of the
\* link is a step of the channel or changes nothing that the channel knows of; a
\* length of which a read finds a part is the channel's Cut.
THEOREM ChannelImplemented == Spec => ImplementsChannel
<1>1. Init => Channel!Init
  <2>1. SUFFICES ASSUME Init PROVE Channel!Init
    OBVIOUS
  <2>2. sent = <<>> /\ handled = <<>> /\ cut = FALSE /\ Len(<<>>) = 0
    BY <2>1 DEF Init
  <2>3. SentAsReceived = <<>>
    BY <2>2 DEF SentAsReceived
  <2>4. QED
    BY <2>2, <2>3 DEF Channel!Init, SentAsReceived
<1>2. StreamInv /\ [Next]_vars => [Channel!ChannelNext]_<<SentAsReceived, handled, cut>>
  <2> SUFFICES ASSUME StreamInv, [Next]_vars
               PROVE  Channel!ChannelNext \/ UNCHANGED <<SentAsReceived, handled, cut>>
    OBVIOUS
  <2>1. CASE connectClient
    BY <2>1, ConnectReconnects DEF Channel!ChannelNext
  <2>2. CASE Begin
    BY <2>2, BeginSends DEF Channel!ChannelNext, StreamInv
  <2>3. CASE Handle
    BY <2>3, HandleHandles DEF Channel!ChannelNext
  <2>4. CASE ReadHeaderLen \/ ReadBodyLen
    BY <2>4, LengthCuts DEF Channel!ChannelNext, StreamInv
  <2>5. CASE sent' = sent /\ handled' = handled /\ cut' = cut
    BY <2>5 DEF SentAsReceived
  <2>6. Arrive \/ Leave => sent' = sent /\ handled' = handled /\ cut' = cut
    BY DEF Arrive, Leave, readVars
  <2>7. ReadContents \/ EndContents \/ EndSession \/ Throw
          => sent' = sent /\ handled' = handled /\ cut' = cut
    BY DEF ReadContents, EndContents, EndSession, Throw, Reads, clientVars, readVars
  <2>8. Answer \/ StatusMessage => sent' = sent /\ handled' = handled /\ cut' = cut
    BY DEF Answer, StatusMessage, Writes
  <2>9. UNCHANGED vars => sent' = sent /\ handled' = handled /\ cut' = cut
    BY DEF vars
  <2>10. QED
    BY <2>1, <2>2, <2>3, <2>4, <2>5, <2>6, <2>7, <2>8, <2>9
       DEF Next, Client, SessionThread, StatusThread
<1>3. QED
  BY <1>1, <1>2, StreamInvariant, PTL
     DEF Spec, ImplementsChannel, Channel!ChannelSpec, Channel!channelVars, SentAsReceived

-----------------------------------------------------------------------------
(* The type.                                                                *)

RunningInv == attended \in BOOLEAN /\ alive \in BOOLEAN

\* The two flags outside the stream.
LEMMA Running == Spec => []RunningInv
<1>1. Init => RunningInv
  BY DEF Init, RunningInv
<1>2. RunningInv /\ [Next]_vars => RunningInv'
  <2> SUFFICES ASSUME RunningInv, [Next]_vars PROVE RunningInv'
    OBVIOUS
  <2>1. CASE Client
    BY <2>1 DEF RunningInv, Client, connectClient, Begin, Arrive, Leave, readVars
  <2>2. CASE SessionThread /\ ~Answer
    BY <2>2 DEF RunningInv, SessionThread, ReadHeaderLen, ReadBodyLen, ReadContents, EndContents,
       Throw, Handle, EndSession, Reads, readVars
  <2>3. CASE Answer \/ StatusMessage
    BY <2>3 DEF RunningInv, Answer, StatusMessage, WritePart, Writes
  <2>4. CASE UNCHANGED vars
    BY <2>4 DEF RunningInv, vars
  <2>5. QED
    BY <2>1, <2>2, <2>3, <2>4 DEF Next, StatusThread
<1>3. QED
  BY <1>1, <1>2, PTL DEF Spec

\* The variables keep their types: what is received is made of tokens, and
\* each thread is in one of the four parts of sendTCP.
THEOREM TypeCorrect == Spec => []TypeOK
<1>1. IInv /\ StreamInv /\ RunningInv => TypeOK
  <2> SUFFICES ASSUME IInv, StreamInv, RunningInv PROVE TypeOK
    OBVIOUS
  <2>1. /\ client \in {"open", "closed", "reset"} /\ clientSocket \in BOOLEAN
        /\ session \in {"accept", "headerLen", "bodyLen", "contents", "check", "write"}
        /\ readVal \in {-1, 0, 1} /\ writing \in [Threads -> 0..3]
        /\ reader.part \in 1..4 /\ reader.from \in Threads
        /\ framed \in BOOLEAN /\ overlap \in BOOLEAN
    BY DEF IInv, ServedInv, WriteInv, ReadInv, Sessions
  <2>2. toSend \in Seq(Token) /\ stream \in Seq(Token)
    BY DEF StreamInv, StreamTypes
  <2>3. /\ received.headerLen \in Nat /\ received.bodyLen \in Nat
        /\ received.contents \in Seq(Token) /\ cut \in BOOLEAN
    BY DEF StreamInv, StreamTypes, Received
  <2>4. QED
    BY <2>1, <2>2, <2>3 DEF TypeOK, RunningInv
<1>2. QED
  BY <1>1, Invariant, StreamInvariant, Running, PTL
==============================================================================
