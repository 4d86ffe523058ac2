------------------------- MODULE SignalExchangeProofs -------------------------
(***************************************************************************)
(* Theorems about SignalExchange, for every table of signals whose widths  *)
(* fill whole bytes, for every set of requests that write what the         *)
(* assumptions of SignalExchange say, and for every number of clients and  *)
(* requests.                                                               *)
(*                                                                         *)
(* The bits of a datagram are counted through, from the high end of its    *)
(* first byte.  A buffer is described by what each of these places holds,  *)
(* so that the same description serves the encoder, which puts parts of    *)
(* at most eight bits, and the decoder, which takes up the rest of a byte. *)
(***************************************************************************)
EXTENDS SignalExchange, SequenceTheorems, WellFoundedInduction, TLAPS

-----------------------------------------------------------------------------
(* Offset: where a signal lies.                                             *)

\* A set of naturals that is not empty has a least member: what the proofs
\* below use in the place of induction.
LEMMA Least ==
  ASSUME NEW T, T \subseteq Nat, T # {}
  PROVE  \E x \in T : \A y \in T : x <= y
<1>. DEFINE Less == OpToRel(<, Nat)
<1>1. IsWellFoundedOn(Less, Nat)
  BY NatLessThanWellFounded DEF OpToRel
<1>2. \A a, b \in Nat : <<a, b>> \in Less <=> a < b
  BY DEF OpToRel
<1>. HIDE DEF Less
<1>3. PICK x \in T : \A y \in T : ~ (<<y, x>> \in Less)
  BY <1>1, WFMin
<1>4. \A y \in T : ~ (y < x)
  BY <1>2, <1>3
<1>. QED
  BY <1>4

\* Widths, as Offset adds them up.
IsWidths(w) == /\ Len(w) \in Nat
               /\ \A k \in 1..Len(w) : w[k] \in Nat

\* f holds the sums of the first widths, as the definition of Offset chooses it.
Sums(w, n, f) == f = [j \in 0..n |-> IF j = 0 THEN 0 ELSE f[j - 1] + w[j]]

\* There is such an f: of the lengths without one the least would be one more
\* than a length that has one.
LEMMA SumsExist ==
  ASSUME NEW w, NEW n \in Nat
  PROVE  \E f : Sums(w, n, f)
<1>. DEFINE T == {m \in Nat : ~ \E f : Sums(w, m, f)}
<1>1. SUFFICES ASSUME T # {} PROVE FALSE
  OBVIOUS
<1>2. PICK m \in T : \A y \in T : m <= y
  BY <1>1, Least
<1>3. CASE m = 0
  <2>1. [j \in 0..0 |-> 0] = [j \in 0..0 |-> IF j = 0 THEN 0 ELSE [i \in 0..0 |-> 0][j - 1] + w[j]]
    OBVIOUS
  <2>2. Sums(w, 0, [j \in 0..0 |-> 0])
    BY <2>1 DEF Sums
  <2>. QED
    BY <1>3, <2>2
<1>4. CASE m # 0
  <2>1. m - 1 \in Nat /\ m - 1 \notin T
    BY <1>2, <1>4
  <2>2. PICK f : Sums(w, m - 1, f)
    BY <2>1
  <2>3. DOMAIN f = 0..m - 1 /\ \A j \in 0..m - 1 : f[j] = IF j = 0 THEN 0 ELSE f[j - 1] + w[j]
    BY <2>2 DEF Sums
  <2>. DEFINE g == [j \in 0..m |-> IF j = m THEN f[m - 1] + w[m] ELSE f[j]]
  <2>4. \A j \in 0..m : g[j] = IF j = 0 THEN 0 ELSE g[j - 1] + w[j]
    <3>. SUFFICES ASSUME NEW j \in 0..m PROVE g[j] = IF j = 0 THEN 0 ELSE g[j - 1] + w[j]
      OBVIOUS
    <3>1. CASE j = m
      BY <3>1, <1>4
    <3>2. CASE j # m
      BY <3>2, <2>3
    <3>. QED BY <3>1, <3>2
  <2>5. Sums(w, m, g)
    <3>1. DOMAIN g = 0..m
      OBVIOUS
    <3>2. g = [j \in 0..m |-> g[j]]
      OBVIOUS
    <3>. HIDE DEF g
    <3>. QED
      BY <2>4, <3>2 DEF Sums
  <2>. QED
    BY <2>5
<1>. QED
  BY <1>3, <1>4

\* Offset is the sum of the widths before.
LEMMA OffsetStep ==
  ASSUME NEW w, IsWidths(w)
  PROVE  /\ Offset(w, 1) = 0
         /\ \A k \in 1..Len(w) : Offset(w, k + 1) = Offset(w, k) + w[k]
<1>. DEFINE F == CHOOSE f : Sums(w, Len(w), f)
<1>1. \A k : Offset(w, k) = F[k - 1]
  BY DEF Offset, Sums
<1>2. Sums(w, Len(w), F)
  BY SumsExist DEF IsWidths
<1>. HIDE DEF F
<1>3. F[0] = 0
  BY <1>2 DEF Sums, IsWidths
<1>4. \A j \in 1..Len(w) : F[j] = F[j - 1] + w[j]
  BY <1>2 DEF Sums, IsWidths
<1>5. Offset(w, 1) = 0
  BY <1>1, <1>3
<1>6. \A k \in 1..Len(w) : Offset(w, k + 1) = F[k] /\ Offset(w, k) = F[k - 1]
  BY <1>1 DEF IsWidths
<1>. QED
  BY <1>4, <1>5, <1>6

LEMMA OffsetNat ==
  ASSUME NEW w, IsWidths(w)
  PROVE  \A k \in 1..Len(w) + 1 : Offset(w, k) \in Nat
<1>. DEFINE T == {k \in 1..Len(w) + 1 : Offset(w, k) \notin Nat}
<1>1. SUFFICES ASSUME T # {} PROVE FALSE
  OBVIOUS
<1>2. Len(w) \in Nat
  BY DEF IsWidths
<1>. T \subseteq Nat
  BY <1>2
<1>3. PICK m \in T : \A y \in T : m <= y
  <2>. HIDE DEF T
  <2>. QED BY <1>1, Least
<1>4. m # 1
  BY OffsetStep
<1>5. m - 1 \in 1..Len(w) /\ m - 1 \notin T /\ (m - 1) + 1 = m
  BY <1>2, <1>3, <1>4
<1>6. Offset(w, m - 1) \in Nat
  BY <1>2, <1>5
<1>7. Offset(w, m) = Offset(w, m - 1) + w[m - 1]
  BY <1>5, OffsetStep
<1>8. w[m - 1] \in Nat
  BY <1>5 DEF IsWidths
<1>. QED
  BY <1>6, <1>7, <1>8

\* A later signal lies further on.
LEMMA OffsetGrows ==
  ASSUME NEW w, IsWidths(w), NEW j \in 1..Len(w) + 1
  PROVE  \A k \in 1..Len(w) + 1 : j <= k => Offset(w, j) <= Offset(w, k)
<1>. DEFINE T == {k \in 1..Len(w) + 1 : j <= k /\ ~ (Offset(w, j) <= Offset(w, k))}
<1>1. SUFFICES ASSUME T # {} PROVE FALSE
  OBVIOUS
<1>2. Len(w) \in Nat
  BY DEF IsWidths
<1>. T \subseteq Nat
  BY <1>2
<1>3. PICK m \in T : \A y \in T : m <= y
  <2>. HIDE DEF T
  <2>. QED BY <1>1, Least
<1>4. m # j
  BY <1>2, OffsetNat
<1>5. m - 1 \in 1..Len(w) /\ m - 1 \notin T /\ (m - 1) + 1 = m /\ j <= m - 1
  BY <1>2, <1>3, <1>4
<1>6. Offset(w, j) <= Offset(w, m - 1)
  BY <1>2, <1>5
<1>7. Offset(w, m) = Offset(w, m - 1) + w[m - 1]
  BY <1>5, OffsetStep
<1>8. w[m - 1] \in Nat
  BY <1>5 DEF IsWidths
<1>9. Offset(w, j) \in Nat /\ Offset(w, m - 1) \in Nat
  BY <1>2, <1>5, OffsetNat
<1>. QED
  BY <1>6, <1>7, <1>8, <1>9

-----------------------------------------------------------------------------
(* Putting bits into bytes.                                                 *)

\* The bit of the datagram that is bit c of byte k, counted from the high end of
\* the first byte; and what it is set to.
At(k, c) == 8 * (k - 1) + 7 - c
Bit(data, q) == (7 - (q % 8)) \in data[(q \div 8) + 1]
\* The place at which the next bit is put.
Position(b) == 8 * (b.index - 1) + b.startBit

IsBuffer(b, bytes) ==
    /\ b.data \in [1..bytes -> SUBSET Byte]
    /\ b.index \in 1..bytes + 1 /\ b.startBit \in Byte

\* At and Bit count the same bits.
LEMMA BitAt ==
  /\ \A data : \A k \in Nat \ {0}, c \in Byte :
        At(k, c) \in Nat /\ (Bit(data, At(k, c)) <=> c \in data[k])
  /\ \A q \in Nat : /\ (q \div 8) + 1 \in Nat \ {0} /\ 7 - (q % 8) \in Byte
                    /\ At((q \div 8) + 1, 7 - (q % 8)) = q
<1>1. ASSUME NEW k \in Nat \ {0}, NEW c \in Byte
      PROVE  /\ At(k, c) \in Nat
             /\ (At(k, c) \div 8) + 1 = k /\ 7 - (At(k, c) % 8) = c
  BY DEF At, Byte
<1>2. ASSUME NEW q \in Nat
      PROVE  /\ (q \div 8) + 1 \in Nat \ {0} /\ 7 - (q % 8) \in Byte
             /\ At((q \div 8) + 1, 7 - (q % 8)) = q
  BY DEF At, Byte
<1>. QED
  BY <1>1, <1>2 DEF Bit

\* Put moves on by as many bits as it puts, and keeps the buffer a buffer.
LEMMA PutMoves ==
  ASSUME NEW bytes \in Nat, NEW b, IsBuffer(b, bytes), NEW piece, NEW n \in 1..8,
         Position(b) + n <= 8 * bytes
  PROVE  IsBuffer(Put(b, piece, n), bytes) /\ Position(Put(b, piece, n)) = Position(b) + n
<1>. DEFINE new == Put(b, piece, n)
<1>1. PICK i \in 1..bytes + 1, s \in 0..7 : i = b.index /\ s = b.startBit
  BY DEF IsBuffer, Byte
<1>2. Position(b) = 8 * (i - 1) + s
  BY <1>1 DEF Position
<1>3. i \in 1..bytes /\ i + 1 \in 1..bytes + 1
  BY <1>2
<1>4. \A word, k : Shl(word, k) \subseteq Byte /\ Shr(word, k) \subseteq Byte
  BY DEF Shl, Shr
<1>5. CASE n <= 8 - s
  <2>1. new = [data |-> [b.data EXCEPT ![i] = @ \cup Shl(piece, 8 - s - n)],
               index |-> IF n = 8 - s THEN i + 1 ELSE i,
               startBit |-> (s + n) % 8]
    BY <1>1, <1>5 DEF Put
  <2>8. PICK v : v = Shl(piece, 8 - s - n) /\ v \subseteq Byte
    BY <1>4
  <2>9. new.data = [b.data EXCEPT ![i] = @ \cup v] /\ b.data \in [1..bytes -> SUBSET Byte]
    BY <2>1, <2>8 DEF IsBuffer
  <2>2. new.data \in [1..bytes -> SUBSET Byte]
    <3>1. PICK old, data : old = b.data /\ data = new.data
      OBVIOUS
    <3>2. data = [old EXCEPT ![i] = @ \cup v] /\ old \in [1..bytes -> SUBSET Byte]
      BY <2>9, <3>1
    <3>3. data \in [1..bytes -> SUBSET Byte]
      BY <2>8, <3>2
    <3>. QED
      BY <3>1, <3>3
  <2>3. new.index = IF n = 8 - s THEN i + 1 ELSE i
    BY <2>1
  <2>4. (s + n) % 8 = IF n = 8 - s THEN 0 ELSE s + n
    BY <1>5
  <2>5. new.startBit = IF n = 8 - s THEN 0 ELSE s + n
    BY <2>1, <2>4
  <2>. HIDE DEF new
  <2>6. new.index \in 1..bytes + 1 /\ new.startBit \in Byte
    BY <1>3, <1>5, <2>3, <2>5 DEF Byte
  <2>7. Position(new) = 8 * (i - 1) + s + n
    BY <1>5, <2>3, <2>5 DEF Position
  <2>. QED
    BY <1>2, <2>2, <2>6, <2>7 DEF IsBuffer, new
<1>6. CASE ~ (n <= 8 - s)
  <2>1. new = [data |-> [b.data EXCEPT ![i] = @ \cup Shr(piece, n - (8 - s)),
                                       ![i + 1] = @ \cup Shl(piece, 8 - (n - (8 - s)))],
               index |-> i + 1, startBit |-> n - (8 - s)]
    BY <1>1, <1>6 DEF Put
  <2>8. PICK v, w : /\ v = Shr(piece, n - (8 - s)) /\ v \subseteq Byte
                    /\ w = Shl(piece, 8 - (n - (8 - s))) /\ w \subseteq Byte
    BY <1>4
  <2>9. /\ new.data = [b.data EXCEPT ![i] = @ \cup v, ![i + 1] = @ \cup w]
        /\ b.data \in [1..bytes -> SUBSET Byte] /\ i # i + 1
    BY <2>1, <2>8 DEF IsBuffer
  <2>2. new.data \in [1..bytes -> SUBSET Byte]
    <3>1. PICK old, data : old = b.data /\ data = new.data
      OBVIOUS
    <3>2. data = [old EXCEPT ![i] = @ \cup v, ![i + 1] = @ \cup w] /\ old \in [1..bytes -> SUBSET Byte]
      BY <2>9, <3>1
    <3>3. data \in [1..bytes -> SUBSET Byte]
      BY <2>8, <3>2
    <3>. QED
      BY <3>1, <3>3
  <2>3. new.index = i + 1 /\ new.startBit = n - (8 - s)
    BY <2>1
  <2>. HIDE DEF new
  <2>6. new.index \in 1..bytes + 1 /\ new.startBit \in Byte
    BY <1>3, <1>6, <2>3 DEF Byte
  <2>7. Position(new) = 8 * (i - 1) + s + n
    BY <1>6, <2>3 DEF Position
  <2>. QED
    BY <1>2, <2>2, <2>6, <2>7 DEF IsBuffer, new
<1>. QED
  BY <1>5, <1>6

\* A bit of a shifted byte.
LEMMA ShlBit ==
  ASSUME NEW word, word \subseteq Byte, NEW k \in Int, NEW c \in Byte
  PROVE  c \in Shl(word, k) <=> c - k \in word
<1>1. \A x \in Byte : c = x + k <=> x = c - k
  BY DEF Byte
<1>. QED
  BY <1>1 DEF Shl

LEMMA ShrBit ==
  ASSUME NEW word, word \subseteq Byte, NEW k \in Nat, NEW c \in Byte
  PROVE  c \in Shr(word, k) <=> c + k \in word
<1>1. \A x \in Byte : c = x - k <=> x = c + k
  BY DEF Byte
<1>2. c + k >= k
  BY DEF Byte
<1>. QED
  BY <1>1, <1>2 DEF Shr

\* Which bit of which byte Put sets: those of the piece, counted from the end
\* of its place, those above its width too as far as its first byte goes.
LEMMA PutBytes ==
  ASSUME NEW bytes \in Nat, NEW b, IsBuffer(b, bytes),
         NEW piece, piece \subseteq Byte, NEW n \in 1..8, Position(b) + n <= 8 * bytes,
         NEW k \in 1..bytes, NEW c \in Byte
  PROVE  c \in Put(b, piece, n).data[k] <=>
             \/ c \in b.data[k]
             \/ k >= b.index /\ Position(b) + n - 1 - At(k, c) \in piece
<1>. DEFINE new == Put(b, piece, n)
<1>1. PICK i \in 1..bytes + 1, s \in 0..7 : i = b.index /\ s = b.startBit
  BY DEF IsBuffer, Byte
<1>2. DOMAIN b.data = 1..bytes
  BY DEF IsBuffer
<1>8. PICK p \in Nat : p = Position(b) /\ p = 8 * (i - 1) + s
  BY <1>1 DEF Position
<1>3. i \in 1..bytes
  BY <1>8
<1>4. PICK m \in Int : m = Position(b) + n - 1 - At(k, c) /\ m = 8 * (i - k) + s + n - 8 + c
  <2>1. c \in 0..7
    BY DEF Byte
  <2>2. PICK m \in Int : m = p + n - 1 - At(k, c)
    BY <2>1 DEF At
  <2>3. m = 8 * (i - k) + s + n - 8 + c
    BY <1>8, <2>1, <2>2 DEF At
  <2>. QED
    BY <1>8, <2>2, <2>3
<1>5. SUFFICES c \in new.data[k] <=> c \in b.data[k] \/ (k >= i /\ m \in piece)
  BY <1>1, <1>4
<1>6. CASE n <= 8 - s
  <2>1. new.data = [b.data EXCEPT ![i] = @ \cup Shl(piece, 8 - s - n)]
    BY <1>1, <1>6 DEF Put
  <2>. HIDE DEF new
  <2>2. CASE k = i
    <3>1. m = c - (8 - s - n)
      BY <1>4, <2>2 DEF Byte
    <3>2. 8 - s - n \in Int
      OBVIOUS
    <3>3. c \in Shl(piece, 8 - s - n) <=> m \in piece
      BY <3>1, <3>2, ShlBit
    <3>4. new.data[k] = b.data[k] \cup Shl(piece, 8 - s - n)
      BY <1>2, <2>1, <2>2
    <3>. QED
      BY <3>3, <3>4, <2>2
  <2>3. CASE k # i
    <3>1. new.data[k] = b.data[k]
      BY <1>2, <2>1, <2>3
    <3>2. k > i => m < 0
      BY <1>4, <1>6 DEF Byte
    <3>3. k >= i => ~ (m \in piece)
      BY <3>2, <2>3 DEF Byte
    <3>. QED
      BY <3>1, <3>3
  <2>. QED BY <2>2, <2>3
<1>7. CASE ~ (n <= 8 - s)
  <2>0. PICK over \in 1..7 : over = n - (8 - s)
    BY <1>7
  <2>1. new.data = [b.data EXCEPT ![i] = @ \cup Shr(piece, over),
                                  ![i + 1] = @ \cup Shl(piece, 8 - over)]
    BY <1>1, <1>7, <2>0 DEF Put
  <2>. HIDE DEF new
  <2>2. CASE k = i
    <3>1. m = c + over
      BY <1>4, <2>0, <2>2 DEF Byte
    <3>3. c \in Shr(piece, over) <=> m \in piece
      BY <3>1, ShrBit
    <3>4. new.data[k] = b.data[k] \cup Shr(piece, over)
      BY <1>2, <1>3, <2>1, <2>2
    <3>. QED
      BY <3>3, <3>4, <2>2
  <2>3. CASE k = i + 1
    <3>1. m = c - (8 - over)
      BY <1>4, <2>0, <2>3 DEF Byte
    <3>2. 8 - over \in Int
      OBVIOUS
    <3>3. c \in Shl(piece, 8 - over) <=> m \in piece
      BY <3>1, <3>2, ShlBit
    <3>4. new.data[k] = b.data[k] \cup Shl(piece, 8 - over)
      BY <1>2, <1>3, <2>1, <2>3
    <3>. QED
      BY <3>3, <3>4, <2>3
  <2>4. CASE k # i /\ k # i + 1
    <3>1. new.data[k] = b.data[k]
      BY <1>2, <2>1, <2>4
    <3>2. k >= i => m < 0
      BY <1>4, <2>4 DEF Byte
    <3>3. k >= i => ~ (m \in piece)
      BY <3>2 DEF Byte
    <3>. QED
      BY <3>1, <3>3
  <2>. QED BY <2>2, <2>3, <2>4
<1>. QED
  BY <1>6, <1>7

\* The same by places: the bits behind the place of the piece stay as they are,
\* those before it too unless the piece has more bits than its width.
LEMMA PutBits ==
  ASSUME NEW bytes \in Nat, NEW b, IsBuffer(b, bytes),
         NEW piece, piece \subseteq Byte, NEW n \in 1..8, Position(b) + n <= 8 * bytes,
         NEW q \in 0..8 * bytes - 1
  PROVE  Bit(Put(b, piece, n).data, q) <=>
             \/ Bit(b.data, q)
             \/ q >= 8 * (b.index - 1) /\ Position(b) + n - 1 - q \in piece
<1>1. PICK k \in Nat \ {0}, c \in Byte : q = At(k, c)
  <2>1. q \in Nat
    OBVIOUS
  <2>2. /\ (q \div 8) + 1 \in Nat \ {0} /\ 7 - (q % 8) \in Byte
        /\ At((q \div 8) + 1, 7 - (q % 8)) = q
    BY <2>1, BitAt
  <2>. QED BY <2>2
<1>2. k \in 1..bytes
  BY <1>1 DEF At, Byte
<1>3. b.index \in 1..bytes + 1
  BY DEF IsBuffer
<1>4. k >= b.index <=> q >= 8 * (b.index - 1)
  <2>. PICK i \in Nat : i = b.index
    BY <1>3
  <2>. QED BY <1>1 DEF At, Byte
<1>5. \A data : Bit(data, q) <=> c \in data[k]
  BY <1>1, BitAt
<1>. QED
  BY <1>1, <1>2, <1>4, <1>5, PutBytes

\* The place of the next bit that TakeBits reads.
Progress(d) == 8 * (d.index - 1) + (IF d.remaining = 0 THEN 0 ELSE 8 - d.remaining)

\* What the decoder holds of a signal that ends at the place 'end': its
\* bits read so far.
Reading(d, bytes, data, width, end) ==
    /\ d.index \in 1..bytes + 1 /\ d.remaining \in Byte /\ d.read \in 0..width
    /\ end = Progress(d) + width - d.read
    /\ d.word = {b \in 0..width - 1 : b >= width - d.read /\ Bit(data, end - 1 - b)}

\* TakeBits reads on to the end of the byte or of the signal, whichever is
\* first, and the bits it adds are those of the datagram.
LEMMA TakeBitsReads ==
  ASSUME NEW bytes \in Nat, NEW data, NEW width \in Nat \ {0}, NEW d,
         NEW end \in 0..8 * bytes, Reading(d, bytes, data, width, end), d.read # width
  PROVE  /\ Reading(TakeBits(d, data, width), bytes, data, width, end)
         /\ TakeBits(d, data, width).read # 0
<1>. DEFINE e == TakeBits(d, data, width)
<1>1. PICK i \in Nat \ {0}, r \in 0..7, read \in Nat :
         i = d.index /\ r = d.remaining /\ read = d.read /\ read < width
  BY DEF Byte, Reading
<1>2. PICK have \in 1..8 : have = (IF d.remaining > 0 THEN d.remaining ELSE 8)
  BY <1>1
<1>3. PICK n \in 1..8 : n = Fewer(width - read, have) /\ n <= have /\ n <= width - read
                        /\ (n = have \/ n = width - read)
  BY <1>1, <1>2 DEF Fewer
<1>4. PICK left \in 0..7 : left = have - n
  BY <1>2, <1>3
<1>5. end = 8 * (i - 1) + 8 - have + width - read
  BY <1>1, <1>2 DEF Progress, Reading
<1>6. i \in 1..bytes
  BY <1>1, <1>2, <1>5
<1>7. PICK taken : taken = Shr(data[i] \cap (left..have - 1), left)
  OBVIOUS
<1>8. /\ e.read = read + n /\ e.remaining = left
      /\ e.index = IF left = 0 THEN i + 1 ELSE i
      /\ e.word = d.word \cup {b + width - read - n : b \in taken}
  BY <1>1, <1>2, <1>3, <1>4, <1>7 DEF TakeBits
<1>. HIDE DEF e
<1>9. e.index \in 1..bytes + 1 /\ e.remaining \in Byte /\ e.read \in 1..width
  <2>1. read + n \in 1..width
    BY <1>3
  <2>2. i \in 1..bytes + 1 /\ i + 1 \in 1..bytes + 1
    BY <1>6
  <2>. QED
    BY <1>8, <2>1, <2>2 DEF Byte
<1>10. end = Progress(e) + width - e.read
  BY <1>1, <1>3, <1>4, <1>5, <1>8 DEF Progress
<1>11. \A b \in Nat : b \in {x + width - read - n : x \in taken} <=>
          b >= width - (read + n) /\ b < width - read /\ Bit(data, end - 1 - b)
  <2>. SUFFICES ASSUME NEW b \in Nat
                PROVE  b \in {x + width - read - n : x \in taken} <=>
                        b >= width - (read + n) /\ b < width - read /\ Bit(data, end - 1 - b)
    OBVIOUS
  <2>1. PICK c \in Int : c = b + have + read - width
    OBVIOUS
  <2>2. PICK x0 \in Int : x0 = c - left
    OBVIOUS
  <2>3. taken \subseteq Int
    BY <1>7 DEF Shr, Byte
  <2>4. \A x \in Int : b = x + width - read - n <=> x = x0
    BY <1>4, <2>1, <2>2
  <2>5. b \in {x + width - read - n : x \in taken} <=> x0 \in taken
    BY <2>3, <2>4
  <2>6. x0 \in taken <=> c \in data[i] /\ left <= c /\ c <= have - 1
    <3>1. x0 \in taken <=> x0 \in Byte /\ \E y \in data[i] \cap (left..have - 1) : y >= left /\ x0 = y - left
      BY <1>7 DEF Shr
    <3>2. \A y \in left..have - 1 : y >= left /\ (x0 = y - left <=> y = c)
      BY <2>2
    <3>3. left <= c /\ c <= have - 1 => x0 \in Byte
      BY <2>2 DEF Byte
    <3>4. c \in left..have - 1 <=> left <= c /\ c <= have - 1
      OBVIOUS
    <3>5. x0 \in taken <=> x0 \in Byte /\ c \in data[i] /\ c \in left..have - 1
      BY <3>1, <3>2
    <3>. QED
      BY <3>3, <3>4, <3>5
  <2>7. left <= c /\ c <= have - 1 <=> b >= width - (read + n) /\ b < width - read
    BY <1>4, <2>1
  <2>8. ASSUME left <= c, c <= have - 1
        PROVE  c \in data[i] <=> Bit(data, end - 1 - b)
    <3>1. c \in Byte
      BY <2>8 DEF Byte
    <3>2. end - 1 - b = At(i, c)
      BY <1>5, <2>1 DEF At
    <3>. QED
      BY <3>1, <3>2, BitAt
  <2>. QED
    BY <2>5, <2>6, <2>7, <2>8
<1>12. \A b \in Nat : b \in d.word <=> b < width /\ b >= width - read /\ Bit(data, end - 1 - b)
  <2>1. \A b \in Nat : b \in 0..width - 1 <=> b < width
    OBVIOUS
  <2>2. d.word = {b \in 0..width - 1 : b >= width - read /\ Bit(data, end - 1 - b)}
    BY <1>1 DEF Reading
  <2>. QED BY <2>1, <2>2
<1>13. e.word \subseteq Nat
  <2>1. \A x \in taken : x \in Nat
    BY <1>7 DEF Shr, Byte
  <2>2. \A x \in taken : x + width - read - n \in Nat
    BY <1>3, <2>1
  <2>3. d.word \subseteq Nat
    BY DEF Reading
  <2>. QED BY <1>8, <2>2, <2>3
<1>14. \A b \in Nat : b \in e.word <=> b < width /\ b >= width - (read + n) /\ Bit(data, end - 1 - b)
  <2>. SUFFICES ASSUME NEW b \in Nat
                PROVE  b \in e.word <=> b < width /\ b >= width - (read + n) /\ Bit(data, end - 1 - b)
    OBVIOUS
  <2>1. b \in e.word <=> b \in d.word \/ b \in {x + width - read - n : x \in taken}
    BY <1>8
  <2>3. b < width - read => b < width
    OBVIOUS
  <2>4. b >= width - read => b >= width - (read + n)
    OBVIOUS
  <2>5. b >= width - read \/ b < width - read
    OBVIOUS
  <2>. QED
    BY <2>1, <2>3, <2>4, <2>5, <1>11, <1>12
<1>15. e.word = {b \in 0..width - 1 : b >= width - e.read /\ Bit(data, end - 1 - b)}
  <2>1. \A b \in Nat : b \in 0..width - 1 <=> b < width
    OBVIOUS
  <2>2. \A b : b \in 0..width - 1 => b \in Nat
    OBVIOUS
  <2>3. e.read = read + n
    BY <1>8
  <2>4. e.word = {b \in 0..width - 1 : b >= width - (read + n) /\ Bit(data, end - 1 - b)}
    BY <1>13, <1>14, <2>1, <2>2
  <2>. QED
    BY <2>3, <2>4
<1>16. e.read \in 0..width /\ e.read # 0
  BY <1>9
<1>. QED
  BY <1>9, <1>10, <1>15, <1>16 DEF e, Reading

-----------------------------------------------------------------------------
(* The invariants.                                                          *)

\* The bits of a signal that are left to be put at its j-th part and after it.
Left(width, j) == IF j = LastPart(width) THEN width ELSE 8 * (j + 1)

N == Len(Table)
Name(k) == Table[k][1]
\* Bit b of the k-th signal's place in the datagram.
Home(k, b) == Offset(Widths, k + 1) - 1 - b

\* Types.  Besides those of TypeOK: the words, and that only a connected client has
\* writes under way.
Typed ==
    /\ signals \in [Names -> SUBSET Nat] /\ readAs \in [Names -> SUBSET Nat]
    /\ asp \in [Names -> SUBSET Nat]
    /\ \A n \in Names : asp[n] \subseteq 0..Widths[Place(n)] - 1
    /\ todo \in Seq((Names \cup {Time}) \X SUBSET Nat)
    /\ connected \in BOOLEAN /\ buttonTime \in {"zero", "new", "old"}
    /\ looper \in {"test", "clear", "time"}
    /\ link \in {"idle", "encode", "sent", "decode", "decoded", "answered", "lost"}
    /\ torn \in BOOLEAN /\ shown \in BOOLEAN /\ raced \in BOOLEAN
    /\ clients \in 0..Connections /\ requests \in 0..MaxRequests
    /\ version \in [Names -> Nat] /\ carried \in [Names -> Nat]
    /\ (todo # <<>> => connected) /\ (connected => clients # 0)

\* What a buffer holds of the words of the signals, as far as it is filled.
Packed(k, b, words) ==
    \A c \in 0..Widths[k] - 1 :
        Home(k, c) < Position(b) => (Bit(b.data, Home(k, c)) <=> c \in words[k])
Spoilt(k, b, words) ==
    \E g \in 1..N : Offset(Widths, g) < Position(b) /\ SpoiltBy(Widths, k, words, g)
Holds(b, words) ==
    /\ IsBuffer(b, Bytes) /\ Position(b) <= 8 * Bytes
    /\ \A q \in Position(b)..8 * Bytes - 1 : ~ Bit(b.data, q)
    /\ \A k \in 1..N : Packed(k, b, words) \/ Spoilt(k, b, words)

\* The buffer is filled up to the j-th part of the f-th signal; the words with
\* the rest of it read anew.
AtPart(b, f, j) ==
    /\ j \in 0..LastPart(Widths[f])
    /\ Position(b) = Offset(Widths, f + 1) - Left(Widths[f], j)
Rereads(words, new, f, j, word) ==
    /\ \A k \in 1..N : k # f => new[k] = words[k]
    /\ new[f] = IF j = LastPart(Widths[f]) THEN word
                ELSE (words[f] \ (0..8 * j + 7)) \cup (word \cap (0..8 * j + 7))

\* The datagram holds the words that were read, as far as they were put.
BufferInv == Holds(buffer, ReadWords)
\* The encoder stands where the signal and the part it is at begin.
EncodeInv ==
    /\ field \in 1..N /\ part \in 0..LastPart(Widths[field])
    /\ link = "encode" => Position(buffer) = Offset(Widths, field + 1) - Left(Widths[field], part)
    /\ link \in {"sent", "decode", "decoded"} => Position(buffer) = 8 * Bytes
    /\ link \in {"sent", "decode"} => part = 0
\* The word that lies at the place of the k-th signal.
Value(k) == {b \in 0..Widths[k] - 1 : Bit(buffer.data, Home(k, b))}
\* The decoder has given the ASPM the words of the signals before the one it is at.
DecodeInv ==
    /\ link = "decode" =>
          /\ Reading(decoder, Bytes, buffer.data, Widths[field], Offset(Widths, field + 1))
          /\ decoder.read # Widths[field]
          /\ \A k \in 1..field - 1 : asp[Name(k)] = Value(k)
    /\ link = "decoded" => \A k \in 1..N : asp[Name(k)] = Value(k)

WireInv == BufferInv /\ EncodeInv /\ DecodeInv

\* The time of a press is about to be written.
Pending == todo # <<>> /\ Head(todo)[1] = Time
\* What ShownBeforeReleased asks for.
Seen == shown \/ raced \/ link = "lost"
\* A press that is still to be written is followed by its time.
PressOrder ==
    \A i \in 1..Len(todo) : todo[i][1] = Button => i + 1 \in 1..Len(todo) /\ todo[i + 1][1] = Time
\* The button loop is about to clear only what the ASPM was sent: to become old
\* with a press that was not shown, the time must be that of another press,
\* and such a press is raced.
PressInv ==
    /\ PressOrder
    /\ ~ connected => shown \/ raced
    /\ looper = "clear" => Seen
    /\ looper = "test" /\ buttonTime = "old" /\ signals[Button] # {} => Seen
    /\ looper = "test" /\ buttonTime # "zero" /\ signals[Button] = {} /\ ~ Pending => raced

\* The number of the last request.
LastRequest == IF clients = 0 THEN 0 ELSE CurrentRequest
\* No signal is of a later request than the last, and all that the mode asks
\* for is of the request of the mode or of a later one: a request that sets
\* the mode has set the rest before.
VersionInv ==
    /\ \A n \in Names : version[n] <= LastRequest /\ carried[n] <= version[n]
    /\ \A n \in Selects : version[Mode] <= version[n]
    /\ \A i \in 1..Len(todo) : todo[i][1] = Mode =>
          \A n \in Selects : version[n] = CurrentRequest \/ \E j \in 1..i - 1 : todo[j][1] = n
\* The signals that a datagram carries behind the mode.
After(n) == Place(Mode) < Place(n)
\* The same of the values in the datagram.  A datagram that no request fell into
\* has read every signal in one state; one that was torn has read the signals
\* behind the mode after the mode.
CarryInv ==
    /\ link = "encode" =>
          /\ \A n \in Selects : After(n) /\ Place(n) < field => carried[n] >= carried[Mode]
          /\ ~ torn => \A n \in Names : Place(n) < field => carried[n] = version[n]
    /\ link \in {"sent", "decode", "decoded"} =>
          \A n \in Selects : carried[n] >= carried[Mode] \/ (torn /\ ~ After(n))

-----------------------------------------------------------------------------
(* The table of signals and the parts of a signal.                          *)

\* A name has one place in the table.
LEMMA TableFacts ==
  /\ N \in Nat \ {0} /\ DOMAIN Table = 1..N
  /\ Table \in [1..N -> Names \X (Nat \ {0})]
  /\ \A k \in 1..N : Name(k) \in Names /\ Widths[k] \in Nat \ {0}
  /\ \A j, k \in 1..N : Name(j) = Name(k) => j = k
  /\ \A n \in Names : Place(n) \in 1..N /\ Name(Place(n)) = n
  /\ \A k \in 1..N : Place(Name(k)) = k
<1>1. N \in Nat /\ DOMAIN Table = 1..N /\ Table \in [1..N -> Names \X (Nat \ {0})]
  BY ExchangeAssumption DEF N
<1>2. \A k \in 1..N : Name(k) \in Names /\ Widths[k] \in Nat \ {0}
  BY <1>1 DEF Name, Widths
<1>3. \A j, k \in 1..N : Name(j) = Name(k) => j = k
  BY <1>1, ExchangeAssumption DEF Name
<1>4. \A n \in Names : \E k \in 1..N : Table[k][1] = n
  BY <1>1 DEF Names
<1>5. \A n \in Names : Place(n) \in 1..N /\ Name(Place(n)) = n
  BY <1>1, <1>4 DEF Place, Name
<1>6. \A k \in 1..N : Place(Name(k)) = k
  BY <1>2, <1>3, <1>5
<1>7. N # 0
  BY <1>1, <1>5, ExchangeAssumption
<1>. QED
  BY <1>1, <1>2, <1>3, <1>5, <1>6, <1>7

LEMMA WidthsFacts == IsWidths(Widths) /\ Len(Widths) = N
<1>1. Widths = [k \in 1..N |-> Table[k][2]]
  BY TableFacts DEF Widths
<1>2. Widths \in [1..N -> Nat]
  BY <1>1, TableFacts
<1>3. Widths \in Seq(Nat) /\ Len(Widths) = N
  BY <1>2, TableFacts, SeqDef
<1>. QED
  BY <1>3, TableFacts DEF IsWidths

\* The signals lie in the datagram one behind the other and fill it.
LEMMA OffsetFacts ==
  /\ Offset(Widths, 1) = 0
  /\ \A k \in 1..N : Offset(Widths, k + 1) = Offset(Widths, k) + Widths[k]
  /\ \A k \in 1..N + 1 : Offset(Widths, k) \in Nat
  /\ \A j, k \in 1..N + 1 : j <= k => Offset(Widths, j) <= Offset(Widths, k)
  /\ Bytes \in Nat /\ Offset(Widths, N + 1) = 8 * Bytes
<1>1. \A k \in 1..N + 1 : Offset(Widths, k) \in Nat
  BY WidthsFacts, OffsetNat
<1>2. Offset(Widths, 1) = 0 /\ \A k \in 1..N : Offset(Widths, k + 1) = Offset(Widths, k) + Widths[k]
  BY WidthsFacts, OffsetStep
<1>3. \A j, k \in 1..N + 1 : j <= k => Offset(Widths, j) <= Offset(Widths, k)
  BY WidthsFacts, OffsetGrows
<1>4. PICK z \in Nat : z = Offset(Widths, N + 1)
  BY <1>1, TableFacts
<1>5. z % 8 = 0 /\ Bytes = z \div 8
  BY <1>4, ExchangeAssumption DEF Bytes, N
<1>6. Bytes \in Nat /\ z = 8 * Bytes
  BY <1>5
<1>. QED
  BY <1>1, <1>2, <1>3, <1>4, <1>6

\* The parts of a signal: the last is put first, and each of the others is a byte.
LEMMA PartFacts ==
  ASSUME NEW w \in Nat \ {0}, NEW j \in 0..LastPart(w)
  PROVE  /\ LastPart(w) \in Nat /\ 8 * LastPart(w) < w /\ w <= 8 * LastPart(w) + 8
         /\ PartWidth(w, j) \in 1..8 /\ Left(w, j) = PartWidth(w, j) + 8 * j
         /\ Left(w, j) \in 1..w /\ (j # LastPart(w) => PartWidth(w, j) = 8 /\ Left(w, j) < w)
         /\ Left(w, LastPart(w)) = w
         /\ (j > 0 => j - 1 \in 0..LastPart(w) /\ j - 1 # LastPart(w) /\ Left(w, j - 1) = 8 * j)
         /\ (j = 0 => PartWidth(w, 0) = Left(w, 0) /\ Left(w, j) = PartWidth(w, j))
<1>1. PICK l \in Nat : l = LastPart(w) /\ 8 * l < w /\ w <= 8 * l + 8
  BY DEF LastPart
<1>. QED
  BY <1>1 DEF PartWidth, Left

\* The bits of a part, by their place in the word.
LEMMA PartBits ==
  ASSUME NEW w \in Nat \ {0}, NEW j \in 0..LastPart(w), NEW word \in SUBSET Nat
  PROVE  /\ Part(word, w, j) \subseteq Byte
         /\ \A x \in Byte : x \in Part(word, w, j) <=>
                               8 * j + x \in word /\ (j = 0 => x < PartWidth(w, 0))
<1>1. j \in Nat
  BY PartFacts
<1>2. Part(word, w, j) \subseteq Byte
  <2>1. \A b \in 8 * j .. 8 * j + 7 : b - 8 * j \in Byte
    BY <1>1 DEF Byte
  <2>. QED BY <2>1 DEF Part
<1>3. ASSUME NEW x \in Byte
      PROVE  x \in Part(word, w, j) <=> 8 * j + x \in word /\ (j = 0 => x < PartWidth(w, 0))
  <2>1. \A b \in Nat : b \in 8 * j .. 8 * j + 7 /\ x = b - 8 * j <=> b = 8 * j + x
    BY <1>1 DEF Byte
  <2>2. x \in {b - 8 * j : b \in word \cap (8 * j .. 8 * j + 7)} <=> 8 * j + x \in word
    BY <2>1
  <2>3. x \in Nat /\ PartWidth(w, 0) \in Nat
    <3>1. 0 \in 0..LastPart(w)
      BY PartFacts
    <3>. QED
      BY <3>1, PartFacts DEF Byte
  <2>4. x \in 0..PartWidth(w, 0) - 1 <=> x < PartWidth(w, 0)
    BY <2>3
  <2>. QED
    BY <2>2, <2>4 DEF Part
<1>. QED
  BY <1>2, <1>3

\* A part of a signal is put behind what the buffer holds, and the buffer then
\* holds the words with that part read anew.  Each signal that was put before
\* keeps its bits, or the new part has spoilt it.
LEMMA PutPacks ==
  ASSUME NEW b, NEW words \in [1..N -> SUBSET Nat], Holds(b, words),
         NEW f \in 1..N, NEW j \in Nat, AtPart(b, f, j),
         NEW word \in SUBSET Nat, NEW new, Rereads(words, new, f, j, word)
  PROVE  LET next == Put(b, Part(word, Widths[f], j), PartWidth(Widths[f], j))
         IN Holds(next, new) /\ Position(next) = Offset(Widths, f + 1) - 8 * j
<1>. DEFINE piece == Part(word, Widths[f], j)
            next == Put(b, piece, PartWidth(Widths[f], j))
<1>1. PICK w \in Nat \ {0} : w = Widths[f]
  BY TableFacts
<1>2. PICK last \in Nat : last = LastPart(w) /\ 8 * last < w /\ w <= 8 * last + 8 /\ j \in 0..last
  BY <1>1, PartFacts DEF AtPart
<1>21. j \in 0..LastPart(w)
  BY <1>2
<1>3. PICK n \in 1..8 : n = PartWidth(w, j) /\ Left(w, j) = n + 8 * j
  BY <1>21, PartFacts
<1>23. n + 8 * j <= w /\ (j # last => n = 8 /\ n + 8 * j < w) /\ (j = last => n + 8 * j = w)
  <2>1. PICK l \in 1..w : l = Left(w, j) /\ l = n + 8 * j
    BY <1>3, <1>21, PartFacts
  <2>2. (j # last => n = 8 /\ l < w)
    BY <1>2, <1>3, <1>21, <2>1, PartFacts
  <2>3. (j = last => l = w)
    BY <1>2, <2>1, PartFacts
  <2>. QED BY <2>1, <2>2, <2>3
<1>4. PICK o0 \in Nat, o1 \in Nat : o0 = Offset(Widths, f) /\ o1 = Offset(Widths, f + 1)
                                    /\ o1 = o0 + w /\ o1 <= 8 * Bytes
  <2>1. f \in 1..N + 1 /\ f + 1 \in 1..N + 1 /\ f + 1 <= N + 1 /\ N + 1 \in 1..N + 1
    BY TableFacts
  <2>. QED
    BY <1>1, <2>1, OffsetFacts
<1>24. o1 = o0 + w
  BY <1>4
<1>5. PICK p \in Nat : p = Position(b) /\ p = o1 - (n + 8 * j)
  <2>1. Position(b) = o1 - (n + 8 * j)
    BY <1>1, <1>3, <1>4 DEF AtPart
  <2>2. o1 - (n + 8 * j) \in Nat
    BY <1>23, <1>24
  <2>. QED BY <2>1, <2>2
<1>25. p = o1 - (n + 8 * j)
  BY <1>5
<1>26. p >= o0 /\ (j = last => p = o0) /\ (j # last => p > o0) /\ p < o1
  BY <1>23, <1>24, <1>25
<1>6. p + n = o1 - 8 * j
  BY <1>25
<1>27. p + n <= 8 * Bytes
  <2>1. 8 * Bytes \in Nat /\ o1 <= 8 * Bytes
    BY <1>4, OffsetFacts
  <2>. QED BY <1>6, <2>1
<1>22. /\ \A k \in 1..N : k # f => new[k] = words[k]
       /\ new[f] = IF j = last THEN word
                   ELSE (words[f] \ (0..8 * j + 7)) \cup (word \cap (0..8 * j + 7))
  BY <1>1, <1>2 DEF Rereads
<1>7. Bytes \in Nat /\ IsBuffer(b, Bytes) /\ \A q \in p..8 * Bytes - 1 : ~ Bit(b.data, q)
  BY <1>5, OffsetFacts DEF Holds
<1>8. piece \subseteq Byte /\ \A x \in Byte : x \in piece <=> 8 * j + x \in word /\ (j = 0 => x < PartWidth(w, 0))
  BY <1>1, <1>21, PartBits
<1>9. next = Put(b, piece, n)
  BY <1>1, <1>3
<1>. HIDE DEF piece, next
<1>10. IsBuffer(next, Bytes) /\ Position(next) = p + n
  <2>1. Position(b) + n <= 8 * Bytes
    BY <1>5, <1>27
  <2>2. Bytes \in Nat /\ IsBuffer(b, Bytes)
    BY <1>7
  <2>3. IsBuffer(Put(b, piece, n), Bytes) /\ Position(Put(b, piece, n)) = Position(b) + n
    BY <2>1, <2>2, PutMoves
  <2>. QED
    BY <1>5, <1>9, <2>3
<1>11. PICK i \in 1..Bytes + 1, s \in 0..7 : i = b.index /\ p = 8 * (i - 1) + s
  BY <1>5, <1>7 DEF IsBuffer, Position, Byte
<1>12. ASSUME NEW q \in 0..8 * Bytes - 1
       PROVE  Bit(next.data, q) <=> Bit(b.data, q) \/ (q >= 8 * (i - 1) /\ p + n - 1 - q \in piece)
  <2>1. Position(b) + n <= 8 * Bytes
    BY <1>5, <1>27
  <2>. QED
    BY <1>5, <1>7, <1>8, <1>9, <1>11, <2>1, PutBits
<1>13. \A q \in p + n..8 * Bytes - 1 : ~ Bit(next.data, q)
  <2>. SUFFICES ASSUME NEW q \in p + n..8 * Bytes - 1 PROVE ~ Bit(next.data, q)
    OBVIOUS
  <2>1. q \in 0..8 * Bytes - 1 /\ q \in p..8 * Bytes - 1 /\ ~ (p + n - 1 - q \in Byte)
    BY <1>7 DEF Byte
  <2>. QED
    BY <1>7, <1>8, <1>12, <2>1
<1>14. ASSUME NEW k \in 1..N, NEW c \in 0..Widths[k] - 1
       PROVE  /\ Home(k, c) \in 0..8 * Bytes - 1
              /\ k < f => Home(k, c) <= Offset(Widths, k + 1) - 1 /\ Offset(Widths, k + 1) <= o0
                          /\ Offset(Widths, k + 1) \in Nat
              /\ k > f => Home(k, c) >= o1
              /\ k = f => Home(k, c) = o1 - 1 - c
  <2>1. k \in 1..N + 1 /\ k + 1 \in 1..N + 1 /\ k + 1 <= N + 1 /\ N + 1 \in 1..N + 1 /\ f \in 1..N + 1 /\ f + 1 \in 1..N + 1
    BY TableFacts
  <2>2. PICK v \in Nat \ {0} : v = Widths[k]
    BY TableFacts
  <2>3. PICK h0 \in Nat, h1 \in Nat : h0 = Offset(Widths, k) /\ h1 = Offset(Widths, k + 1)
                                    /\ h1 = h0 + v /\ h1 <= 8 * Bytes
    BY <2>1, <2>2, OffsetFacts
  <2>4. Home(k, c) = h1 - 1 - c /\ c \in 0..v - 1
    BY <2>2, <2>3 DEF Home
  <2>5. k < f => h1 <= o0
    <3>1. k < f => k + 1 <= f
      OBVIOUS
    <3>. QED BY <1>4, <2>1, <2>3, <3>1, OffsetFacts
  <2>6. k > f => o1 <= h0
    <3>1. k > f => f + 1 <= k
      OBVIOUS
    <3>. QED BY <1>4, <2>1, <2>3, <3>1, OffsetFacts
  <2>7. Home(k, c) \in 0..8 * Bytes - 1
    <3>1. Bytes \in Nat /\ h1 = h0 + v /\ h1 <= 8 * Bytes /\ c \in 0..v - 1
      BY <2>3, <2>4, OffsetFacts
    <3>2. h1 - 1 - c \in 0..8 * Bytes - 1
      BY <3>1
    <3>. QED BY <2>4, <3>2
  <2>8. k < f => Home(k, c) <= h1 - 1
    BY <2>4
  <2>9. k > f => Home(k, c) >= o1
    <3>1. \A o \in Nat : o <= h0 => h1 - 1 - c >= o
      BY <2>3, <2>4
    <3>2. o1 \in Nat
      BY <1>4
    <3>. QED BY <2>4, <2>6, <3>1, <3>2
  <2>10. k = f => Home(k, c) = o1 - 1 - c
    BY <1>4, <2>3, <2>4
  <2>. QED
    BY <2>3, <2>5, <2>7, <2>8, <2>9, <2>10
<1>15. Packed(f, next, new)
  <2>1. ASSUME NEW c \in 0..w - 1, Home(f, c) < p + n
        PROVE  Bit(next.data, Home(f, c)) <=> c \in new[f]
    <3>1. PICK q \in 0..8 * Bytes - 1 : q = Home(f, c) /\ q = o1 - 1 - c
      BY <1>1, <1>14
    <3>2. PICK x \in Int : x = p + n - 1 - q /\ x = c - 8 * j /\ x >= 0
      BY <1>6, <2>1, <3>1
    <3>3. CASE x <= 7
      <4>1. x \in Byte /\ 8 * j + x = c
        BY <3>2, <3>3, <1>2 DEF Byte
      <4>2. j = 0 => x < PartWidth(w, 0)
        <5>1. j = 0 => n = PartWidth(w, 0)
          BY <1>3
        <5>2. j = 0 => c < n
          BY <1>2, <1>23, <3>2, <3>3
        <5>. QED BY <3>2, <5>1, <5>2
      <4>3. x \in piece <=> c \in word
        BY <1>8, <4>1, <4>2
      <4>4. q >= p
        <5>1. q = o1 - 1 - c /\ c \in 0..w - 1 /\ c - 8 * j <= 7
          BY <3>1, <3>2, <3>3
        <5>2. c < n + 8 * j
          BY <1>23, <5>1
        <5>. QED BY <1>25, <5>1, <5>2
      <4>5. ~ Bit(b.data, q)
        <5>1. q \in p..8 * Bytes - 1
          BY <4>4, <3>1, <1>7
        <5>. QED BY <1>7, <5>1
      <4>6. q >= 8 * (i - 1)
        BY <4>4, <1>11
      <4>7. Bit(next.data, q) <=> c \in word
        BY <1>12, <3>2, <4>3, <4>5, <4>6
      <4>8. c \in new[f] <=> c \in word
        <5>1. c \in 0..8 * j + 7
          BY <3>2, <3>3, <1>2
        <5>. QED BY <1>22, <5>1
      <4>. QED BY <3>1, <4>7, <4>8
    <3>4. CASE ~ (x <= 7)
      <4>1. ~ (x \in piece)
        BY <1>8, <3>4 DEF Byte
      <4>2. Bit(next.data, q) <=> Bit(b.data, q)
        BY <1>12, <3>2, <4>1
      <4>3. j # last /\ q < p
        <5>1. q = o1 - 1 - c /\ c \in 0..w - 1 /\ c - 8 * j > 7
          BY <3>1, <3>2, <3>4
        <5>2. c >= n + 8 * j
          BY <5>1
        <5>. QED BY <1>23, <1>25, <5>1, <5>2
      <4>4. Packed(f, b, words)
        <5>1. ~ Spoilt(f, b, words)
          <6>. SUFFICES ASSUME NEW g \in 1..N, Offset(Widths, g) < p, f < g PROVE FALSE
            BY <1>5 DEF Spoilt, SpoiltBy
          <6>1. g \in 1..N + 1 /\ f + 1 \in 1..N + 1 /\ f + 1 <= g
            BY TableFacts
          <6>2. PICK og \in Nat : og = Offset(Widths, g) /\ o1 <= og
            BY <1>4, <6>1, OffsetFacts
          <6>. QED BY <6>2, <1>26
        <5>. QED BY <5>1 DEF Holds
      <4>5. Bit(b.data, q) <=> c \in words[f]
        BY <1>1, <1>5, <3>1, <4>3, <4>4 DEF Packed
      <4>6. c \in new[f] <=> c \in words[f]
        <5>1. ~ (c \in 0..8 * j + 7)
          BY <3>2, <3>4, <1>2
        <5>. QED BY <1>22, <4>3, <5>1
      <4>. QED BY <3>1, <4>2, <4>5, <4>6
    <3>. QED BY <3>3, <3>4
  <2>. QED
    BY <1>1, <1>10, <2>1 DEF Packed
<1>16. ASSUME NEW k \in 1..N, k > f
       PROVE  Packed(k, next, new)
  <2>1. \A c \in 0..Widths[k] - 1 : ~ (Home(k, c) < p + n)
    <3>. SUFFICES ASSUME NEW c \in 0..Widths[k] - 1 PROVE ~ (Home(k, c) < p + n)
      OBVIOUS
    <3>1. PICK q \in Nat : q = Home(k, c) /\ q >= o1
      BY <1>14, <1>16
    <3>. QED BY <3>1, <1>6
  <2>. QED BY <1>10, <2>1 DEF Packed
<1>17. ASSUME NEW k \in 1..N, k < f, Spoilt(k, b, words)
       PROVE  Spoilt(k, next, new)
  <2>1. PICK g \in 1..N : Offset(Widths, g) < p /\ SpoiltBy(Widths, k, words, g)
    BY <1>5, <1>17 DEF Spoilt
  <2>2. PICK og \in Nat : og = Offset(Widths, g)
    BY OffsetFacts, TableFacts
  <2>3. og < p + n
    BY <2>1, <2>2
  <2>4. CASE g # f
    BY <1>10, <1>22, <2>1, <2>2, <2>3, <2>4 DEF Spoilt, SpoiltBy
  <2>5. CASE g = f
    <3>1. j # last
      BY <1>4, <1>26, <2>1, <2>5
    <3>2. words[f] # words[f] \cap (0..w - 1)
      BY <1>1, <2>1, <2>5 DEF SpoiltBy, Within
    <3>3. PICK c \in Nat : c \in words[f] /\ c >= w
      BY <3>2
    <3>4. ~ (c \in 0..8 * j + 7)
      BY <3>3, <3>1, <1>23
    <3>5. c \in new[f]
      BY <3>3, <3>4, <3>1, <1>22
    <3>6. new[f] # new[f] \cap (0..w - 1)
      BY <3>3, <3>5
    <3>. QED
      BY <1>1, <1>10, <2>1, <2>2, <2>3, <2>5, <3>6 DEF Spoilt, SpoiltBy, Within
  <2>. QED BY <2>4, <2>5
<1>18. ASSUME NEW k \in 1..N, k < f, Packed(k, b, words)
       PROVE  Packed(k, next, new) \/ Spoilt(k, next, new)
  <2>1. SUFFICES ASSUME NEW c \in 0..Widths[k] - 1, Home(k, c) < p + n,
                        ~ (Bit(next.data, Home(k, c)) <=> c \in new[k])
                 PROVE  Spoilt(k, next, new)
    BY <1>10 DEF Packed
  <2>2. PICK e \in Nat : e = Offset(Widths, k + 1) /\ e <= o0
    BY <1>14, <1>18
  <2>3. PICK q \in 0..8 * Bytes - 1 : q = Home(k, c) /\ q <= e - 1
    BY <1>14, <1>18, <2>2
  <2>4. q < p
    BY <1>26, <2>2, <2>3
  <2>5. Bit(b.data, q) <=> c \in new[k]
    BY <1>5, <1>18, <1>22, <2>3, <2>4 DEF Packed
  <2>6. q >= 8 * (i - 1) /\ p + n - 1 - q \in piece
    BY <1>12, <2>1, <2>3, <2>5
  <2>7. PICK x \in Byte : x = p + n - 1 - q /\ x \in piece
    BY <1>8, <2>6
  <2>8. x >= n /\ x <= 7
    <3>1. x = p + n - 1 - q /\ x \in 0..7
      BY <2>7 DEF Byte
    <3>. QED BY <2>4, <3>1
  <2>9. j = last
    BY <1>23, <2>8 DEF Byte
  <2>10. 8 * j + x \in word /\ j # 0
    <3>1. j = 0 => n = PartWidth(w, 0)
      BY <1>3
    <3>. QED BY <1>8, <2>7, <2>8, <3>1
  <2>11. w > 8 /\ w % 8 # 0
    <3>1. w = 8 * j + n /\ n \in 1..7 /\ j \in Nat /\ j # 0
      BY <1>23, <2>8, <2>9, <2>10 DEF Byte
    <3>. QED BY <3>1
  <2>12. new[f] # new[f] \cap (0..w - 1)
    <3>1. PICK c2 \in Nat : c2 = 8 * j + x /\ c2 >= w
      BY <1>23, <2>8, <2>9 DEF Byte
    <3>2. c2 \in new[f]
      BY <1>22, <2>9, <2>10, <3>1
    <3>. QED BY <3>1, <3>2
  <2>13. (e - 1) \div 8 = o0 \div 8
    <3>1. p = o0 /\ o0 = 8 * (i - 1) + s /\ e - 1 >= 8 * (i - 1) /\ e - 1 < o0
      <4>1. p = o0 /\ o0 = 8 * (i - 1) + s
        BY <1>11, <1>26, <2>9
      <4>2. q >= 8 * (i - 1) /\ q <= e - 1 /\ e <= o0
        BY <2>2, <2>3, <2>6
      <4>. QED BY <4>1, <4>2
    <3>2. o0 \div 8 = i - 1
      BY <3>1
    <3>3. (e - 1) \div 8 = i - 1
      BY <3>1
    <3>. QED BY <3>2, <3>3
  <2>14. SpoiltBy(Widths, k, new, f)
    <3>1. k < f /\ Widths[f] > 8 /\ Widths[f] % 8 # 0
      BY <1>1, <1>18, <2>11
    <3>2. new[f] # Within(new[f], Widths[f])
      BY <1>1, <2>12 DEF Within
    <3>3. (Offset(Widths, k + 1) - 1) \div 8 = Offset(Widths, f) \div 8
      BY <1>4, <2>2, <2>13
    <3>. QED
      BY <3>1, <3>2, <3>3 DEF SpoiltBy
  <2>15. o0 < p + n
    BY <1>26
  <2>16. Offset(Widths, f) < Position(next)
    BY <1>4, <1>10, <2>15
  <2>. QED
    BY <2>14, <2>16 DEF Spoilt
<1>19. \A k \in 1..N : Packed(k, next, new) \/ Spoilt(k, next, new)
  <2>. SUFFICES ASSUME NEW k \in 1..N PROVE Packed(k, next, new) \/ Spoilt(k, next, new)
    OBVIOUS
  <2>1. k = f \/ k > f \/ k < f
    OBVIOUS
  <2>2. Packed(k, b, words) \/ Spoilt(k, b, words)
    BY DEF Holds
  <2>. QED
    BY <1>15, <1>16, <1>17, <1>18, <2>1, <2>2
<1>20. Position(next) <= 8 * Bytes /\ Position(next) = o1 - 8 * j
  BY <1>6, <1>10, <1>27
<1>. QED
  BY <1>4, <1>10, <1>13, <1>19, <1>20 DEF Holds, next, piece

-----------------------------------------------------------------------------
(* The datagram: every step keeps BufferInv, EncodeInv and DecodeInv.       *)

LEMMA ReadWordsFacts ==
  ASSUME Typed
  PROVE  ReadWords \in [1..N -> SUBSET Nat] /\ \A k \in 1..N : ReadWords[k] = readAs[Name(k)]
<1>1. DOMAIN Table = 1..N /\ \A k \in 1..N : Table[k][1] \in Names
  BY TableFacts DEF Name
<1>. QED
  BY <1>1 DEF ReadWords, Typed, Name

\* A blank datagram holds whatever words.
LEMMA BlankHolds ==
  ASSUME NEW words
  PROVE  Holds(Blank(Bytes), words) /\ Position(Blank(Bytes)) = 0
<1>. DEFINE b == Blank(Bytes)
<1>1. PICK z \in Nat : z = Bytes
  BY OffsetFacts
<1>2. /\ b.data = [k \in 1..z |-> {}] /\ b.index = 1 /\ b.startBit = 0
  BY <1>1 DEF Blank
<1>. HIDE DEF b
<1>3. Position(b) = 0
  BY <1>2 DEF Position
<1>4. IsBuffer(b, Bytes)
  BY <1>1, <1>2 DEF IsBuffer, Byte
<1>5. \A q \in 0..8 * z - 1 : ~ Bit(b.data, q)
  <2>. SUFFICES ASSUME NEW q \in 0..8 * z - 1 PROVE ~ Bit(b.data, q)
    OBVIOUS
  <2>1. (q \div 8) + 1 \in 1..z
    OBVIOUS
  <2>. QED BY <1>2, <2>1 DEF Bit
<1>6. ASSUME NEW k \in 1..N PROVE Packed(k, b, words)
  <2>. SUFFICES ASSUME NEW c \in 0..Widths[k] - 1 PROVE ~ (Home(k, c) < 0)
    BY <1>3 DEF Packed
  <2>1. k \in 1..N + 1 /\ k + 1 \in 1..N + 1
    BY TableFacts
  <2>2. PICK v \in Nat \ {0} : v = Widths[k]
    BY TableFacts
  <2>3. PICK h0 \in Nat, h1 \in Nat : h0 = Offset(Widths, k) /\ h1 = Offset(Widths, k + 1) /\ h1 = h0 + v
    BY <2>1, <2>2, OffsetFacts
  <2>4. Home(k, c) = h1 - 1 - c /\ c \in 0..v - 1
    BY <2>2, <2>3 DEF Home
  <2>. QED BY <2>3, <2>4
<1>. QED
  BY <1>1, <1>3, <1>4, <1>5, <1>6 DEF Holds, b

\* The first part of a signal begins where the signal does.
LEMMA FirstPart ==
  /\ 1 \in 1..N /\ LastPart(Widths[1]) \in 0..LastPart(Widths[1])
  /\ Offset(Widths, 1 + 1) - Left(Widths[1], LastPart(Widths[1])) = 0
<1>1. 1 \in 1..N
  BY TableFacts
<1>2. PICK w \in Nat \ {0} : w = Widths[1]
  BY <1>1, TableFacts
<1>3. LastPart(w) \in Nat /\ LastPart(w) \in 0..LastPart(w)
  BY DEF LastPart
<1>4. Left(w, LastPart(w)) = w
  BY DEF Left
<1>5. Offset(Widths, 1 + 1) = w
  BY <1>1, <1>2, OffsetFacts
<1>. QED
  BY <1>1, <1>2, <1>3, <1>4, <1>5

LEMMA TypedInit == Init => Typed
<1>. SUFFICES ASSUME Init PROVE Typed
  OBVIOUS
<1>1. signals \in [Names -> SUBSET Nat] /\ readAs \in [Names -> SUBSET Nat] /\ asp \in [Names -> SUBSET Nat]
      /\ \A n \in Names : asp[n] \subseteq 0..Widths[Place(n)] - 1
  BY ExchangeAssumption DEF Init
<1>2. todo \in Seq((Names \cup {Time}) \X SUBSET Nat)
  BY DEF Init
<1>3. clients \in 0..Connections /\ requests \in 0..MaxRequests
  BY ExchangeAssumption DEF Init
<1>. QED
  BY <1>1, <1>2, <1>3 DEF Init, Typed

LEMMA WireInit == Init => WireInv
<1>. SUFFICES ASSUME Init PROVE WireInv
  OBVIOUS
<1>1. BufferInv
  BY BlankHolds DEF Init, BufferInv
<1>2. EncodeInv
  BY FirstPart DEF Init, EncodeInv
<1>3. DecodeInv
  BY DEF Init, DecodeInv
<1>. QED
  BY <1>1, <1>2, <1>3 DEF WireInv

\* Steps of the session and of the button loop leave the datagram alone.
LEMMA WireQuiet ==
  ASSUME WireInv, UNCHANGED <<link, field, part, buffer, readAs, decoder, asp>>
  PROVE  WireInv'
<1>1. BufferInv'
  BY DEF WireInv, BufferInv, ReadWords
<1>2. EncodeInv'
  BY DEF WireInv, EncodeInv
<1>3. DecodeInv'
  BY DEF WireInv, DecodeInv, Value
<1>. QED
  BY <1>1, <1>2, <1>3 DEF WireInv

LEMMA WireBegin ==
  ASSUME WireInv, BeginEncode
  PROVE  WireInv'
<1>1. BufferInv'
  BY BlankHolds DEF BeginEncode, BufferInv
<1>2. EncodeInv'
  BY FirstPart, BlankHolds DEF BeginEncode, EncodeInv
<1>3. DecodeInv'
  BY DEF BeginEncode, DecodeInv
<1>. QED
  BY <1>1, <1>2, <1>3 DEF WireInv

\* Every part that is put lies behind the one before.
LEMMA WireEncode ==
  ASSUME Typed, WireInv, EncodePart
  PROVE  WireInv'
<1>. DEFINE word == signals[Name(field)]
<1>1. field \in 1..N /\ part \in 0..LastPart(Widths[field]) /\ link = "encode"
      /\ Position(buffer) = Offset(Widths, field + 1) - Left(Widths[field], part)
  BY DEF WireInv, EncodeInv, EncodePart
<1>2. PICK w \in Nat \ {0} : w = Widths[field]
  BY <1>1, TableFacts
<1>3. part \in Nat
  <2>1. LastPart(w) \in Nat
    BY DEF LastPart
  <2>. QED BY <1>1, <1>2, <2>1
<1>4. AtPart(buffer, field, part)
  BY <1>1 DEF AtPart
<1>5. Name(field) \in Names /\ word \in SUBSET Nat
  BY <1>1, TableFacts DEF Typed
<1>6. readAs' = [readAs EXCEPT ![Name(field)] =
                   IF part = LastPart(Widths[field]) THEN word
                   ELSE (@ \ (0..8 * part + 7)) \cup (word \cap (0..8 * part + 7))]
  BY DEF EncodePart, Name
<1>7. \A k \in 1..N : ReadWords[k] = readAs[Name(k)] /\ ReadWords'[k] = readAs'[Name(k)]
  <2>1. DOMAIN Table = 1..N
    BY TableFacts
  <2>. QED BY <2>1 DEF ReadWords, Name
<1>8. readAs \in [Names -> SUBSET Nat]
  BY DEF Typed
<1>9. Rereads(ReadWords, ReadWords', field, part, word)
  <2>1. ASSUME NEW k \in 1..N, k # field PROVE ReadWords'[k] = ReadWords[k]
    <3>1. Name(k) # Name(field) /\ Name(k) \in Names
      BY <1>1, <2>1, TableFacts
    <3>. QED BY <1>6, <1>7, <1>8, <3>1
  <2>2. ReadWords'[field] = IF part = LastPart(Widths[field]) THEN word
                ELSE (ReadWords[field] \ (0..8 * part + 7)) \cup (word \cap (0..8 * part + 7))
    BY <1>1, <1>5, <1>6, <1>7, <1>8
  <2>. QED BY <2>1, <2>2 DEF Rereads
<1>10. buffer' = Put(buffer, Part(word, Widths[field], part), PartWidth(Widths[field], part))
  BY DEF EncodePart, Name
<1>11. Holds(buffer, ReadWords) /\ ReadWords \in [1..N -> SUBSET Nat]
  BY ReadWordsFacts DEF WireInv, BufferInv
<1>12. Holds(buffer', ReadWords') /\ Position(buffer') = Offset(Widths, field + 1) - 8 * part
  <2>. HIDE DEF word
  <2>. QED
    BY <1>1, <1>3, <1>4, <1>5, <1>9, <1>10, <1>11, PutPacks
<1>13. EncodeInv'
  <2>1. CASE part > 0 /\ part' = part - 1 /\ UNCHANGED <<field, link>>
    <3>1. part - 1 \in 0..LastPart(w) /\ Left(w, part - 1) = 8 * part
      BY <1>1, <1>2, <2>1, PartFacts
    <3>2. Position(buffer') = Offset(Widths, field' + 1) - Left(Widths[field'], part')
      BY <1>2, <1>12, <2>1, <3>1
    <3>. QED
      BY <1>1, <1>2, <2>1, <3>1, <3>2 DEF EncodeInv
  <2>2. CASE part = 0 /\ field < Len(Table) /\ field' = field + 1 /\ part' = LastPart(Widths[field + 1])
             /\ UNCHANGED link
    <3>1. field + 1 \in 1..N
      BY <1>1, <2>2, TableFacts DEF N
    <3>2. PICK v \in Nat \ {0} : v = Widths[field + 1]
      BY <3>1, TableFacts
    <3>3. LastPart(v) \in Nat /\ LastPart(v) \in 0..LastPart(v) /\ Left(v, LastPart(v)) = v
      BY DEF LastPart, Left
    <3>4. PICK h0 \in Nat, h1 \in Nat : h0 = Offset(Widths, field + 1) /\ h1 = Offset(Widths, (field + 1) + 1)
                                        /\ h1 = h0 + v
      <4>1. field + 1 \in 1..N + 1 /\ (field + 1) + 1 \in 1..N + 1
        <5>1. N \in Nat
          BY ExchangeAssumption DEF N
        <5>2. PICK g \in 1..N : g = field + 1
          BY <3>1
        <5>3. g \in 1..N + 1 /\ g + 1 \in 1..N + 1
          BY <5>1
        <5>. QED BY <5>2, <5>3
      <4>. QED BY <3>1, <3>2, <4>1, OffsetFacts
    <3>5. Position(buffer') = h0
      BY <1>12, <2>2, <3>4
    <3>6. Position(buffer') = Offset(Widths, field' + 1) - Left(Widths[field'], part')
      <4>1. h1 - v = h0
        BY <3>4
      <4>. QED BY <2>2, <3>2, <3>3, <3>4, <3>5, <4>1
    <3>. QED
      BY <1>1, <2>2, <3>1, <3>2, <3>3, <3>6 DEF EncodeInv
  <2>3. CASE part = 0 /\ field = Len(Table) /\ link' = "sent" /\ UNCHANGED <<field, part>>
    <3>1. Position(buffer') = 8 * Bytes
      <4>1. PICK h \in Nat : h = Offset(Widths, N + 1) /\ h = 8 * Bytes
        BY OffsetFacts, TableFacts
      <4>2. Position(buffer') = h - 8 * 0
        BY <1>12, <2>3, <4>1 DEF N
      <4>. QED BY <4>1, <4>2
    <3>. QED
      BY <1>1, <2>3, <3>1 DEF EncodeInv
  <2>. QED
    BY <2>1, <2>2, <2>3 DEF EncodePart
<1>14. link' \in {"encode", "sent"}
  BY <1>1 DEF EncodePart
<1>. QED
  BY <1>12, <1>13, <1>14 DEF WireInv, BufferInv, DecodeInv

\* The decoder begins at the first bit.
LEMMA WireReceive ==
  ASSUME WireInv, Receive
  PROVE  WireInv'
<1>1. BufferInv'
  BY DEF WireInv, BufferInv, ReadWords, Receive
<1>2. EncodeInv'
  <2>1. link = "sent" /\ part = 0 /\ Position(buffer) = 8 * Bytes
    BY DEF WireInv, EncodeInv, Receive
  <2>2. 1 \in 1..N /\ 0 \in 0..LastPart(Widths[1])
    <3>1. PICK w \in Nat \ {0} : w = Widths[1]
      BY FirstPart, TableFacts
    <3>2. LastPart(w) \in Nat
      BY DEF LastPart
    <3>. QED BY FirstPart, <3>1, <3>2
  <2>. QED
    BY <2>1, <2>2 DEF EncodeInv, Receive
<1>3. DecodeInv'
  <2>1. PICK w \in Nat \ {0} : w = Widths[1]
    BY FirstPart, TableFacts
  <2>2. Offset(Widths, 1 + 1) = w
    BY <2>1, FirstPart, OffsetFacts
  <2>3. Start.index = 1 /\ Start.remaining = 0 /\ Start.read = 0 /\ Start.word = {}
    BY DEF Start
  <2>4. Progress(Start) = 0
    BY <2>3 DEF Progress
  <2>5. {b \in 0..w - 1 : b >= w - 0 /\ Bit(buffer.data, w - 1 - b)} = {}
    BY DEF Bit
  <2>6. 1 \in 1..Bytes + 1 /\ 0 \in Byte /\ 0 \in 0..w
    BY OffsetFacts DEF Byte
  <2>7. Reading(Start, Bytes, buffer.data, w, w)
    BY <2>3, <2>4, <2>5, <2>6 DEF Reading
  <2>. QED
    BY <2>1, <2>2, <2>3, <2>7 DEF DecodeInv, Receive
<1>. QED
  BY <1>1, <1>2, <1>3 DEF WireInv

\* What a turn of the decoder gives: it is further on in the signal, or at its end.
LEMMA DecoderStep ==
  ASSUME WireInv, link = "decode"
  PROVE  LET d == TakeBits(decoder, buffer.data, Widths[field])
         IN Reading(d, Bytes, buffer.data, Widths[field], Offset(Widths, field + 1)) /\ d.read # 0
<1>1. field \in 1..N /\ field + 1 \in 1..N + 1 /\ N + 1 \in 1..N + 1 /\ field + 1 <= N + 1
  BY TableFacts DEF WireInv, EncodeInv
<1>2. PICK w \in Nat \ {0} : w = Widths[field]
  BY <1>1, TableFacts
<1>3. PICK end \in 0..8 * Bytes : end = Offset(Widths, field + 1)
  BY <1>1, OffsetFacts
<1>4. Reading(decoder, Bytes, buffer.data, w, end) /\ decoder.read # w
  BY <1>2, <1>3 DEF WireInv, DecodeInv
<1>5. Bytes \in Nat
  BY OffsetFacts
<1>6. Reading(TakeBits(decoder, buffer.data, w), Bytes, buffer.data, w, end)
      /\ TakeBits(decoder, buffer.data, w).read # 0
  BY <1>4, <1>5, TakeBitsReads
<1>. QED
  BY <1>2, <1>3, <1>6

\* A word that is read to its end is the word at the place of the signal.
LEMMA DecodedWord ==
  ASSUME WireInv, NEW d, field \in 1..N, d.read = Widths[field],
         Reading(d, Bytes, buffer.data, Widths[field], Offset(Widths, field + 1))
  PROVE  d.word = Value(field)
<1>1. PICK w \in Nat \ {0} : w = Widths[field]
  BY TableFacts
<1>2. d.word = {b \in 0..w - 1 : b >= w - w /\ Bit(buffer.data, Offset(Widths, field + 1) - 1 - b)}
  BY <1>1 DEF Reading
<1>3. \A b \in 0..w - 1 : b >= w - w
  OBVIOUS
<1>4. d.word = {b \in 0..w - 1 : Bit(buffer.data, Offset(Widths, field + 1) - 1 - b)}
  BY <1>2, <1>3
<1>. QED
  BY <1>1, <1>4 DEF Value, Home

LEMMA WireDecode ==
  ASSUME Typed, WireInv, DecodeBits
  PROVE  WireInv'
<1>. DEFINE d == TakeBits(decoder, buffer.data, Widths[field])
<1>1. BufferInv'
  BY DEF WireInv, BufferInv, ReadWords, DecodeBits
<1>2. link = "decode" /\ field \in 1..N /\ part = 0 /\ Position(buffer) = 8 * Bytes
      /\ part \in 0..LastPart(Widths[field])
  BY DEF WireInv, EncodeInv, DecodeBits
<1>3. PICK w \in Nat \ {0} : w = Widths[field]
  BY <1>2, TableFacts
<1>4. PICK end \in Nat : end = Offset(Widths, field + 1)
  <2>1. field + 1 \in 1..N + 1
    BY <1>2, TableFacts
  <2>. QED BY <2>1, OffsetFacts
<1>5. Reading(d, Bytes, buffer.data, w, end)
  BY <1>2, <1>3, <1>4, DecoderStep
<1>6. UNCHANGED <<part, buffer, readAs>>
  BY DEF DecodeBits
<1>7. \A k \in 1..field - 1 : asp[Name(k)] = Value(k)
  BY <1>2 DEF WireInv, DecodeInv
<1>8. \A k : Value(k)' = Value(k)
  BY <1>6 DEF Value
<1>11. N \in Nat
  BY TableFacts
<1>9. CASE d.read < Widths[field] /\ decoder' = d /\ UNCHANGED <<field, link, asp>>
  <2>1. EncodeInv'
    BY <1>2, <1>6, <1>9 DEF EncodeInv
  <2>2. d.read # w
    BY <1>3, <1>5, <1>9 DEF Reading
  <2>. HIDE DEF d
  <2>3. DecodeInv'
    BY <1>2, <1>3, <1>4, <1>5, <1>6, <1>7, <1>8, <1>9, <2>2 DEF DecodeInv
  <2>. QED BY <1>1, <2>1, <2>3 DEF WireInv
<1>10. CASE /\ d.read = Widths[field]
            /\ asp' = [asp EXCEPT ![Table[field][1]] = d.word]
            /\ decoder' = Begin(d)
            /\ IF field < Len(Table) THEN field' = field + 1 /\ UNCHANGED link
               ELSE link' = "decoded" /\ UNCHANGED field
  <2>1. d.word = Value(field)
    BY <1>2, <1>3, <1>4, <1>5, <1>10, DecodedWord
  <2>. HIDE DEF d
  <2>2. \A k \in 1..field : asp'[Name(k)] = Value(k)
    <3>. SUFFICES ASSUME NEW k \in 1..field PROVE asp'[Name(k)] = Value(k)
      OBVIOUS
    <3>1. asp' = [asp EXCEPT ![Name(field)] = Value(field)] /\ DOMAIN asp = Names
      BY <1>10, <2>1 DEF Name, Typed
    <3>2. k \in 1..N /\ Name(k) \in Names /\ Name(field) \in Names
      <4>1. k \in 1..N
        BY <1>2, <1>11
      <4>. QED BY <1>2, <4>1, TableFacts
    <3>3. CASE k = field
      BY <3>1, <3>2, <3>3
    <3>4. CASE k # field
      <4>1. Name(k) # Name(field) /\ k \in 1..field - 1
        BY <1>2, <3>2, <3>4, TableFacts
      <4>. QED BY <1>7, <3>1, <3>2, <4>1
    <3>. QED BY <3>3, <3>4
  <2>3. CASE field < N
    <3>1. field' = field + 1 /\ link' = link /\ field + 1 \in 1..N
      BY <1>2, <1>10, <2>3 DEF N
    <3>2. PICK v \in Nat \ {0} : v = Widths[field + 1]
      BY <3>1, TableFacts
    <3>3. LastPart(v) \in Nat
      BY DEF LastPart
    <3>4. EncodeInv'
      BY <1>2, <1>6, <3>1, <3>2, <3>3 DEF EncodeInv
    <3>5. PICK h \in Nat : h = Offset(Widths, (field + 1) + 1) /\ h = end + v
      <4>1. field + 1 \in 1..N + 1 /\ (field + 1) + 1 \in 1..N + 1
        BY <3>1, <1>2, <1>11
      <4>. QED BY <1>4, <3>1, <3>2, <4>1, OffsetFacts
    <3>6. decoder'.index = d.index /\ decoder'.remaining = d.remaining /\ decoder'.read = 0 /\ decoder'.word = {}
      <4>1. d = [read |-> d.read, remaining |-> d.remaining, index |-> d.index, word |-> d.word]
        BY DEF d, TakeBits
      <4>. QED BY <1>10, <4>1 DEF Begin
    <3>7. Progress(decoder') = Progress(d)
      BY <3>6 DEF Progress
    <3>8. Progress(d) = end
      <4>1. PICK g \in Int : g = Progress(d)
        BY <1>5 DEF Reading, Progress, Byte
      <4>2. end = g + w - w
        BY <1>3, <1>5, <1>10, <4>1 DEF Reading
      <4>. QED BY <4>1, <4>2
    <3>9. {b \in 0..v - 1 : b >= v - 0 /\ Bit(buffer.data, h - 1 - b)} = {}
      BY DEF Bit
    <3>10. h = Progress(decoder') + v - 0
      BY <3>5, <3>7, <3>8
    <3>11. Reading(decoder', Bytes, buffer.data, v, h)
      BY <1>5, <3>6, <3>9, <3>10 DEF Reading
    <3>12. \A k \in 1..(field + 1) - 1 : asp'[Name(k)] = Value(k)
      BY <1>2, <2>2
    <3>13. DecodeInv'
      BY <1>2, <1>6, <1>8, <3>1, <3>2, <3>5, <3>6, <3>11, <3>12 DEF DecodeInv
    <3>. QED BY <1>1, <3>4, <3>13 DEF WireInv
  <2>4. CASE ~ (field < N)
    <3>1. link' = "decoded" /\ field' = field
      BY <1>10, <2>4 DEF N
    <3>4. field = N
      BY <1>2, <1>11, <2>4
    <3>2. EncodeInv'
      BY <1>2, <1>6, <3>1 DEF EncodeInv
    <3>3. DecodeInv'
      BY <1>8, <2>2, <3>1, <3>4 DEF DecodeInv
    <3>. QED BY <1>1, <3>2, <3>3 DEF WireInv
  <2>. QED BY <2>3, <2>4
<1>. QED
  BY <1>9, <1>10 DEF DecodeBits

LEMMA WireRest ==
  ASSUME WireInv, Turn \/ Decode \/ Lose
  PROVE  WireInv'
<1>1. UNCHANGED <<field, part, buffer, readAs, decoder, asp>> /\ link' \in {"answered", "idle", "lost"}
  BY DEF Turn, Decode, Lose, encodeVars, aspVars
<1>2. BufferInv'
  BY <1>1 DEF WireInv, BufferInv, ReadWords
<1>3. EncodeInv'
  BY <1>1 DEF WireInv, EncodeInv
<1>4. DecodeInv'
  BY <1>1 DEF DecodeInv
<1>. QED
  BY <1>2, <1>3, <1>4 DEF WireInv

-----------------------------------------------------------------------------
(* Types, and the theorems about the data.                                  *)

LEMMA RequestNat ==
  ASSUME Typed, clients # 0
  PROVE  CurrentRequest \in Nat
<1>1. PICK c \in Nat, m \in Nat, r \in Nat : c = clients - 1 /\ m = MaxRequests /\ r = requests
  BY ExchangeAssumption DEF Typed
<1>2. c * m \in Nat
  OBVIOUS
<1>3. CurrentRequest = c * m + r
  BY <1>1 DEF CurrentRequest
<1>. QED
  BY <1>2, <1>3

\* What is to be written is a signal and its word, or the time of a press.
LEMMA TodoFacts ==
  ASSUME Typed, todo # <<>>
  PROVE  /\ Len(todo) \in Nat \ {0} /\ DOMAIN todo = 1..Len(todo)
         /\ Head(todo) = todo[1]
         /\ Head(todo)[1] \in Names \cup {Time} /\ Head(todo)[2] \subseteq Nat
         /\ Tail(todo) \in Seq((Names \cup {Time}) \X SUBSET Nat)
         /\ Len(Tail(todo)) = Len(todo) - 1
         /\ \A i \in 1..Len(todo) - 1 : Tail(todo)[i] = todo[i + 1]
<1>. DEFINE S == (Names \cup {Time}) \X SUBSET Nat
<1>1. todo \in Seq(S)
  BY DEF Typed
<1>. HIDE DEF S
<1>2. Head(todo) \in S /\ Tail(todo) \in Seq(S) /\ Len(Tail(todo)) = Len(todo) - 1
      /\ \A i \in 1..Len(Tail(todo)) : Tail(todo)[i] = todo[i + 1]
  BY <1>1, HeadTailProperties
<1>3. Len(todo) \in Nat \ {0} /\ DOMAIN todo = 1..Len(todo) /\ Head(todo) = todo[1]
  BY <1>1, EmptySeq, LenProperties
<1>4. Head(todo)[1] \in Names \cup {Time} /\ Head(todo)[2] \subseteq Nat
  BY <1>2 DEF S
<1>. QED
  BY <1>2, <1>3, <1>4 DEF S

LEMMA TypedSession ==
  ASSUME Typed, Connect \/ Disconnect \/ Request \/ WriteSignal
  PROVE  Typed'
<1>1. CASE Connect
  <2>1. clients + 1 \in 0..Connections /\ clients + 1 # 0 /\ 0 \in 0..MaxRequests
    BY <1>1, ExchangeAssumption DEF Typed, Connect
  <2>. QED
    BY <1>1, <2>1 DEF Typed, Connect, encodeVars, buttonVars, aspVars
<1>2. CASE Disconnect
  BY <1>2 DEF Typed, Disconnect, encodeVars, buttonVars, aspVars
<1>3. CASE Request
  <2>1. requests + 1 \in 0..MaxRequests
    BY <1>3, ExchangeAssumption DEF Typed, Request
  <2>2. todo' \in Seq((Names \cup {Time}) \X SUBSET Nat)
    BY <1>3, ExchangeAssumption DEF Request
  <2>. QED
    BY <1>3, <2>1, <2>2 DEF Typed, Request, encodeVars, buttonVars, aspVars
<1>4. CASE WriteSignal
  <2>1. todo # <<>> /\ clients # 0
    BY <1>4 DEF WriteSignal, Typed
  <2>2. CurrentRequest \in Nat
    BY <2>1, RequestNat
  <2>3. todo' \in Seq((Names \cup {Time}) \X SUBSET Nat) /\ todo' = Tail(todo)
    BY <1>4, <2>1, TodoFacts DEF WriteSignal
  <2>4. Head(todo)[1] \in Names \cup {Time} /\ Head(todo)[2] \subseteq Nat
    BY <2>1, TodoFacts
  <2>5. signals' \in [Names -> SUBSET Nat] /\ version' \in [Names -> Nat]
    <3>1. CASE Head(todo)[1] = Time
      BY <1>4, <3>1 DEF WriteSignal, Typed
    <3>2. CASE Head(todo)[1] # Time
      <4>1. /\ signals' = [signals EXCEPT ![Head(todo)[1]] = Head(todo)[2]]
            /\ version' = [version EXCEPT ![Head(todo)[1]] = CurrentRequest]
        BY <1>4, <3>2 DEF WriteSignal
      <4>. QED BY <2>2, <2>4, <4>1 DEF Typed
    <3>. QED BY <3>1, <3>2
  <2>6. buttonTime' \in {"zero", "new", "old"} /\ torn' \in BOOLEAN /\ shown' \in BOOLEAN /\ raced' \in BOOLEAN
    BY <1>4 DEF WriteSignal, Typed
  <2>7. UNCHANGED <<connected, clients, requests, looper, link, readAs, asp, carried>>
    BY <1>4 DEF WriteSignal, aspVars
  <2>8. connected
    BY <2>1 DEF Typed
  <2>. QED
    BY <2>1, <2>3, <2>5, <2>6, <2>7, <2>8 DEF Typed
<1>. QED
  BY <1>1, <1>2, <1>3, <1>4

LEMMA TypedButton ==
  ASSUME Typed, ButtonLoop \/ TimePasses
  PROVE  Typed'
<1>1. Button \in Names
  BY ExchangeAssumption
<1>2. CASE TestButton
  BY <1>2 DEF Typed, TestButton, Rest, sessionVars, encodeVars, aspVars
<1>3. CASE ClearButton
  <2>1. signals' \in [Names -> SUBSET Nat]
    BY <1>1, <1>3 DEF Typed, ClearButton
  <2>. QED
    BY <1>3, <2>1 DEF Typed, ClearButton, Rest, sessionVars, encodeVars, aspVars
<1>4. CASE ClearTime
  BY <1>4 DEF Typed, ClearTime, Rest, sessionVars, encodeVars, aspVars
<1>5. CASE TimePasses
  BY <1>5 DEF Typed, TimePasses, Rest, sessionVars, encodeVars, aspVars
<1>. QED
  BY <1>2, <1>3, <1>4, <1>5 DEF ButtonLoop

LEMMA TypedLink ==
  ASSUME Typed, WireInv, SignalLoop \/ Lose
  PROVE  Typed'
<1>1. CASE BeginEncode
  BY <1>1 DEF Typed, BeginEncode, Elsewhere, sessionVars, buttonVars, aspVars
<1>2. CASE EncodePart
  <2>1. field \in 1..N /\ Name(field) \in Names
    BY TableFacts DEF WireInv, EncodeInv
  <2>2. carried' = [carried EXCEPT ![Name(field)] = version[Name(field)]]
    BY <1>2 DEF EncodePart, Name
  <2>3. carried' \in [Names -> Nat]
    BY <2>1, <2>2 DEF Typed
  <2>4. readAs' \in [Names -> SUBSET Nat]
    <3>1. PICK new : readAs' = [readAs EXCEPT ![Name(field)] = new]
                     /\ \A x \in new : x \in readAs[Name(field)] \/ x \in signals[Name(field)]
      <4>1. readAs' = [readAs EXCEPT ![Name(field)] =
                         IF part = LastPart(Widths[field]) THEN signals[Name(field)]
                         ELSE (@ \ (0..8 * part + 7)) \cup (signals[Name(field)] \cap (0..8 * part + 7))]
        BY <1>2 DEF EncodePart, Name
      <4>2. CASE part = LastPart(Widths[field])
        BY <4>1, <4>2
      <4>3. CASE part # LastPart(Widths[field])
        BY <4>1, <4>3
      <4>. QED BY <4>2, <4>3
    <3>2. new \subseteq Nat
      BY <2>1, <3>1 DEF Typed
    <3>. QED BY <2>1, <3>1, <3>2 DEF Typed
  <2>5. link' \in {"encode", "sent"}
    BY <1>2 DEF EncodePart
  <2>. QED
    BY <1>2, <2>3, <2>4, <2>5 DEF Typed, EncodePart, Elsewhere, sessionVars, buttonVars, aspVars
<1>3. CASE Receive
  BY <1>3 DEF Typed, Receive, Elsewhere, sessionVars, buttonVars
<1>4. CASE DecodeBits
  <2>. DEFINE d == TakeBits(decoder, buffer.data, Widths[field])
  <2>1. field \in 1..N /\ Name(field) \in Names /\ Place(Name(field)) = field /\ link = "decode"
    BY <1>4, TableFacts DEF WireInv, EncodeInv, DecodeBits
  <2>2. d.word \subseteq 0..Widths[field] - 1
    BY <2>1, DecoderStep DEF Reading
  <2>3. asp' = asp \/ asp' = [asp EXCEPT ![Name(field)] = d.word]
    BY <1>4 DEF DecodeBits, Name
  <2>. HIDE DEF d
  <2>4. d.word \subseteq Nat
    <3>1. PICK w \in Nat : w = Widths[field]
      BY <2>1, TableFacts
    <3>2. 0..w - 1 \subseteq Nat
      OBVIOUS
    <3>. QED BY <2>2, <3>1, <3>2
  <2>5. asp' \in [Names -> SUBSET Nat] /\ \A n \in Names : asp'[n] \subseteq 0..Widths[Place(n)] - 1
    BY <2>1, <2>2, <2>3, <2>4 DEF Typed
  <2>6. link' \in {"decode", "decoded"}
    BY <1>4, <2>1 DEF DecodeBits
  <2>. QED
    BY <1>4, <2>5, <2>6 DEF Typed, DecodeBits, Elsewhere, sessionVars, buttonVars
<1>5. CASE Turn
  BY <1>5 DEF Typed, Turn, Elsewhere, sessionVars, buttonVars, encodeVars
<1>6. CASE Decode
  BY <1>6 DEF Typed, Decode, Elsewhere, sessionVars, buttonVars, encodeVars, aspVars
<1>7. CASE Lose
  BY <1>7 DEF Typed, Lose, Elsewhere, sessionVars, buttonVars, encodeVars, aspVars
<1>. QED
  BY <1>1, <1>2, <1>3, <1>4, <1>5, <1>6, <1>7 DEF SignalLoop

\* The invariant of the datagram.
DataInv == Typed /\ WireInv

\* The inductive invariant of the datagram holds of every reachable state.
LEMMA DataInvariant == Spec => []DataInv
<1>1. Init => DataInv
  BY TypedInit, WireInit DEF DataInv
<1>2. DataInv /\ [Next]_vars => DataInv'
  <2>. SUFFICES ASSUME DataInv, [Next]_vars PROVE DataInv'
    OBVIOUS
  <2>1. CASE Connect \/ Disconnect \/ Request \/ WriteSignal
    <3>1. UNCHANGED <<link, field, part, buffer, readAs, decoder, asp>>
      BY <2>1 DEF Connect, Disconnect, Request, WriteSignal, encodeVars, aspVars
    <3>. QED
      BY <2>1, <3>1, TypedSession, WireQuiet DEF DataInv
  <2>2. CASE ButtonLoop \/ TimePasses
    <3>1. UNCHANGED <<link, field, part, buffer, readAs, decoder, asp>>
      BY <2>2 DEF ButtonLoop, TestButton, ClearButton, ClearTime, TimePasses, Rest, encodeVars, aspVars
    <3>. QED
      BY <2>2, <3>1, TypedButton, WireQuiet DEF DataInv
  <2>3. CASE SignalLoop \/ Lose
    <3>1. WireInv'
      BY <2>3, WireBegin, WireEncode, WireReceive, WireDecode, WireRest DEF DataInv, SignalLoop
    <3>. QED
      BY <2>3, <3>1, TypedLink DEF DataInv
  <2>4. CASE UNCHANGED vars
    <3>1. UNCHANGED <<link, field, part, buffer, readAs, decoder, asp>>
      BY <2>4 DEF vars, encodeVars, aspVars
    <3>2. Typed'
      BY <2>4 DEF DataInv, Typed, vars, sessionVars, buttonVars, encodeVars, aspVars
    <3>. QED
      BY <3>1, <3>2, WireQuiet DEF DataInv
  <2>. QED
    BY <2>1, <2>2, <2>3, <2>4 DEF Next
<1>. QED
  BY <1>1, <1>2, PTL DEF Spec

\* Type correctness: the bytes of the datagram stay bytes and its bits are put
\* inside it (encodeTCMSignalData, udppacket.hpp), for every table of signals
\* whose widths fill bytes.
THEOREM ExchangeTypeCorrect == Spec => []TypeOK
<1>1. DataInv => TypeOK
  <2>1. DataInv => field \in DOMAIN Table /\ part \in 0..LastPart(Widths[field])
    BY TableFacts DEF DataInv, WireInv, EncodeInv
  <2>2. DataInv => /\ buffer.data \in [1..Bytes -> SUBSET Byte]
                   /\ buffer.index \in 1..Bytes + 1 /\ buffer.startBit \in Byte
    BY DEF DataInv, WireInv, BufferInv, Holds, IsBuffer
  <2>. QED
    BY <2>1, <2>2 DEF DataInv, Typed, TypeOK
<1>. QED
  BY <1>1, DataInvariant, PTL

\* What encodeTCMSignalData packed decodeTCMSignalData unpacks: each signal has
\* the value that was read, cut to its width, unless a value with too many bits
\* spoilt it, for every table of signals, however wide they are and wherever
\* in the bytes they lie.
THEOREM SignalsArriveAsRead == Spec => []ArrivesAsRead
<1>1. DataInv => ArrivesAsRead
  <2>. SUFFICES ASSUME DataInv, link = "decoded", NEW k \in DOMAIN Table
                PROVE  \/ asp[Table[k][1]] = Within(ReadWords[k], Widths[k])
                       \/ \E g \in DOMAIN Table : SpoiltBy(Widths, k, ReadWords, g)
    BY DEF ArrivesAsRead
  <2>1. k \in 1..N /\ DOMAIN Table = 1..N
    BY TableFacts
  <2>2. asp[Table[k][1]] = Value(k) /\ Position(buffer) = 8 * Bytes
    BY <2>1 DEF DataInv, WireInv, DecodeInv, EncodeInv, Name
  <2>3. CASE Spoilt(k, buffer, ReadWords)
    BY <2>1, <2>3 DEF Spoilt
  <2>4. CASE Packed(k, buffer, ReadWords)
    <3>1. PICK w \in Nat : w = Widths[k]
      BY <2>1, TableFacts
    <3>2. k \in 1..N + 1 /\ k + 1 \in 1..N + 1 /\ N + 1 \in 1..N + 1 /\ k + 1 <= N + 1
      BY <2>1, TableFacts
    <3>3. PICK h \in Nat, top \in Nat : h = Offset(Widths, k + 1) /\ top = 8 * Bytes /\ h <= top
      BY <3>2, OffsetFacts
    <3>4. \A c \in 0..w - 1 : Home(k, c) < 8 * Bytes
      BY <3>3 DEF Home
    <3>5. \A c \in 0..w - 1 : Bit(buffer.data, Home(k, c)) <=> c \in ReadWords[k]
      BY <2>2, <2>4, <3>1, <3>4 DEF Packed
    <3>6. Value(k) = ReadWords[k] \cap (0..w - 1)
      BY <3>1, <3>5 DEF Value
    <3>. QED
      BY <2>2, <3>1, <3>6 DEF Within
  <2>. QED
    BY <2>1, <2>3, <2>4 DEF DataInv, WireInv, BufferInv, Holds
<1>. QED
  BY <1>1, DataInvariant, PTL

-----------------------------------------------------------------------------
(* The button.                                                              *)

\* Every write that is left of a request is one of it.
LEMMA RequestSeq ==
  ASSUME NEW r \in Requests
  PROVE  r \in Seq((Names \cup {Time}) \X SUBSET Nat) /\ Len(r) \in Nat /\ DOMAIN r = 1..Len(r)
<1>. DEFINE S == (Names \cup {Time}) \X SUBSET Nat
<1>1. r \in Seq(S)
  BY ExchangeAssumption
<1>. HIDE DEF S
<1>2. Len(r) \in Nat /\ DOMAIN r = 1..Len(r)
  BY <1>1, LenProperties
<1>. QED
  BY <1>1, <1>2 DEF S

LEMMA PressInit == Init => PressInv
<1>. SUFFICES ASSUME Init PROVE PressInv
  OBVIOUS
<1>1. PressOrder
  BY DEF Init, PressOrder
<1>. QED
  BY <1>1 DEF Init, PressInv

\* A client that leaves before its press was shown leaves it raced.
LEMMA PressSession ==
  ASSUME Typed, PressInv, Connect \/ Disconnect \/ Request
  PROVE  PressInv'
<1>1. CASE Connect
  <2>1. UNCHANGED <<signals, todo, buttonTime, looper, link, shown, raced>> /\ connected'
    BY <1>1 DEF Connect, buttonVars
  <2>. QED
    BY <2>1 DEF PressInv, PressOrder, Pending, Seen
<1>2. CASE Disconnect
  <2>1. UNCHANGED <<signals, todo, buttonTime, looper, link, shown>> /\ raced' = (raced \/ ~ shown)
    BY <1>2 DEF Disconnect, buttonVars
  <2>. QED
    BY <2>1 DEF PressInv, PressOrder, Pending, Seen
<1>3. CASE Request
  <2>1. UNCHANGED <<signals, connected, buttonTime, looper, link, shown, raced>> /\ connected /\ todo = <<>>
        /\ todo' \in Requests
    BY <1>3 DEF Request, buttonVars
  <2>2. PressOrder'
    BY <2>1, RequestSeq, PressAssumption DEF PressOrder
  <2>3. ~ Pending
    BY <2>1 DEF Pending
  <2>. QED
    BY <2>1, <2>2, <2>3 DEF PressInv, Seen
<1>. QED
  BY <1>1, <1>2, <1>3

\* A press that is written while the loop is at work, or that finds the time of
\* another, is raced; any other finds the time zero.
LEMMA PressWrite ==
  ASSUME Typed, PressInv, WriteSignal
  PROVE  PressInv'
<1>. DEFINE name == Head(todo)[1]
            word == Head(todo)[2]
<1>1. todo # <<>> /\ todo' = Tail(todo) /\ UNCHANGED <<connected, looper, link>> /\ connected
  BY DEF WriteSignal, Typed
<1>2. PICK l \in Nat \ {0} : l = Len(todo) /\ Len(todo') = l - 1
      /\ (\A i \in 1..l - 1 : todo'[i] = todo[i + 1]) /\ Head(todo) = todo[1]
  BY <1>1, TodoFacts
<1>3. PressOrder'
  <2>. SUFFICES ASSUME NEW i \in 1..l - 1, todo'[i][1] = Button
                PROVE  i + 1 \in 1..l - 1 /\ todo'[i + 1][1] = Time
    BY <1>2 DEF PressOrder
  <2>1. i + 1 \in 1..l /\ todo[i + 1][1] = Button
    BY <1>2
  <2>2. (i + 1) + 1 \in 1..l /\ todo[(i + 1) + 1][1] = Time
    BY <1>2, <2>1 DEF PressInv, PressOrder
  <2>3. i + 1 \in 1..l - 1
    BY <2>2
  <2>. QED
    BY <1>2, <2>2, <2>3
<1>4. Button # Time /\ Button \in Names
  BY ExchangeAssumption
<1>5. CASE name = Time
  <2>1. buttonTime' = "new" /\ raced' = (raced \/ signals[Button] = {}) /\ UNCHANGED <<signals, shown>>
    BY <1>5 DEF WriteSignal
  <2>. QED
    BY <1>1, <1>3, <2>1 DEF PressInv, Seen
<1>6. CASE name = Button
  <2>1. /\ signals' = [signals EXCEPT ![Button] = word] /\ shown' = (word = {})
        /\ raced' = \/ looper = "clear"
                    \/ buttonTime = "old" /\ signals[Button] # {}
                    \/ buttonTime # "zero" /\ raced
        /\ UNCHANGED buttonTime
    BY <1>4, <1>6 DEF WriteSignal
  <2>2. signals'[Button] = word
    BY <1>4, <2>1 DEF Typed
  <2>3. Pending'
    <3>1. 1 \in 1..l /\ todo[1][1] = Button
      BY <1>2, <1>6
    <3>2. 1 + 1 \in 1..l /\ todo[1 + 1][1] = Time
      BY <1>2, <3>1 DEF PressInv, PressOrder
    <3>3. 1 \in 1..l - 1 /\ todo'[1][1] = Time
      BY <1>2, <3>2
    <3>4. todo' # <<>>
      BY <1>2, <3>3
    <3>5. Head(todo') = todo'[1]
      OBVIOUS
    <3>. QED BY <3>3, <3>4, <3>5 DEF Pending
  <2>4. looper' = "test" /\ buttonTime' = "old" /\ signals'[Button] # {} => Seen'
    <3>. SUFFICES ASSUME looper = "test", buttonTime = "old", word # {} PROVE raced'
      BY <1>1, <2>1, <2>2 DEF Seen
    <3>1. CASE signals[Button] # {}
      BY <2>1, <3>1
    <3>2. CASE signals[Button] = {}
      <4>1. ~ Pending
        BY <1>4, <1>6 DEF Pending
      <4>2. raced
        BY <3>2, <4>1 DEF PressInv
      <4>. QED BY <2>1, <4>2
    <3>. QED BY <3>1, <3>2
  <2>5. looper' = "clear" => Seen'
    BY <1>1, <2>1 DEF Seen
  <2>. QED
    BY <1>1, <1>3, <2>3, <2>4, <2>5 DEF PressInv
<1>7. CASE name # Time /\ name # Button
  <2>1. /\ signals' = [signals EXCEPT ![name] = word] /\ UNCHANGED <<shown, raced, buttonTime>>
    BY <1>7 DEF WriteSignal
  <2>2. signals'[Button] = signals[Button]
    BY <1>4, <1>7, <2>1 DEF Typed
  <2>3. ~ Pending
    BY <1>7 DEF Pending
  <2>. QED
    BY <1>1, <1>3, <2>1, <2>2, <2>3 DEF PressInv, Seen
<1>. QED
  BY <1>5, <1>6, <1>7

\* The loop goes to clear a press only when its time is old, and the time becomes
\* old only when the press has been shown.
LEMMA PressButton ==
  ASSUME Typed, PressInv, ButtonLoop \/ TimePasses
  PROVE  PressInv'
<1>0. UNCHANGED <<todo, connected, link, shown, raced>>
  BY DEF ButtonLoop, TestButton, ClearButton, ClearTime, TimePasses, Rest, sessionVars
<1>1. PressOrder' /\ Pending' = Pending /\ Seen' = Seen
  BY <1>0 DEF PressInv, PressOrder, Pending, Seen
<1>2. CASE TestButton
  <2>1. UNCHANGED signals /\ looper = "test" /\ signals[Button] # {}
        /\ \/ buttonTime' = "new" /\ looper' = "test"
           \/ buttonTime = "old" /\ looper' = "clear" /\ buttonTime' = "old"
    BY <1>2 DEF TestButton
  <2>. QED
    BY <1>0, <1>1, <2>1 DEF PressInv
<1>3. CASE ClearButton
  <2>1. looper' = "time"
    BY <1>3 DEF ClearButton
  <2>. QED
    BY <1>0, <1>1, <2>1 DEF PressInv
<1>4. CASE ClearTime
  <2>1. looper' = "test" /\ buttonTime' = "zero"
    BY <1>4 DEF ClearTime
  <2>. QED
    BY <1>0, <1>1, <2>1 DEF PressInv
<1>5. CASE TimePasses
  <2>1. UNCHANGED <<signals, looper>> /\ buttonTime = "new" /\ (shown \/ ~ connected \/ link = "lost")
    BY <1>5 DEF TimePasses
  <2>2. Seen
    BY <2>1 DEF PressInv, Seen
  <2>. QED
    BY <1>0, <1>1, <2>1, <2>2 DEF PressInv
<1>. QED
  BY <1>2, <1>3, <1>4, <1>5 DEF ButtonLoop

LEMMA PressLink ==
  ASSUME PressInv, SignalLoop \/ Lose
  PROVE  PressInv'
<1>1. UNCHANGED <<signals, todo, connected, buttonTime, looper, raced>>
  BY DEF SignalLoop, BeginEncode, EncodePart, Receive, DecodeBits, Turn, Decode, Lose, Elsewhere, sessionVars, buttonVars
<1>2. shown => shown'
  BY DEF SignalLoop, BeginEncode, EncodePart, Receive, DecodeBits, Turn, Decode, Lose
<1>3. link = "lost" => link' = "lost"
  BY DEF SignalLoop, BeginEncode, EncodePart, Receive, DecodeBits, Turn, Decode, Lose
<1>. QED
  BY <1>1, <1>2, <1>3 DEF PressInv, PressOrder, Pending, Seen

LEMMA PressInvariant == Spec => []PressInv
<1>1. Init => PressInv
  BY PressInit
<1>2. DataInv /\ PressInv /\ [Next]_vars => PressInv'
  <2>1. ASSUME PressInv, UNCHANGED vars PROVE PressInv'
    BY <2>1 DEF vars, sessionVars, buttonVars, PressInv, PressOrder, Pending, Seen
  <2>. QED
    BY <2>1, PressSession, PressWrite, PressButton, PressLink DEF Next, DataInv
<1>. QED
  BY <1>1, <1>2, DataInvariant, PTL DEF Spec

\* A button is let go of only after a datagram has carried it, for every
\* number of clients and requests and wherever the loop of
\* checkManeuverButtonPressTimeout comes in between the two writes of
\* setManeuverButtonPress.
THEOREM PressesAreShown == Spec => ShownBeforeReleased
<1>1. PressInv /\ [Next]_vars => [ClearButton => shown \/ raced \/ link = "lost"]_vars
  BY DEF PressInv, Seen, ClearButton
<1>. QED
  BY <1>1, PressInvariant, PTL DEF Spec, ShownBeforeReleased

-----------------------------------------------------------------------------
(* The requests.                                                            *)

LEMMA SelectFacts == /\ Mode \in Names /\ Selects \subseteq Names /\ Mode \notin Selects /\ Button \notin Selects
                     /\ \A n \in Selects : Place(n) # Place(Mode)
<1>1. Mode \in Names /\ Selects \subseteq Names /\ Mode \notin Selects /\ Button \notin Selects
  BY ExchangeAssumption DEF Selects, Mode, Button
<1>. QED
  BY <1>1, TableFacts

LEMMA VersionInit == Init => VersionInv
<1>. SUFFICES ASSUME Init PROVE VersionInv
  OBVIOUS
<1>1. \A n \in Names : version[n] = 0 /\ carried[n] = 0
  BY DEF Init
<1>2. LastRequest = 0
  BY DEF Init, LastRequest
<1>3. Len(todo) = 0
  BY DEF Init
<1>. QED
  BY <1>1, <1>2, <1>3, SelectFacts DEF VersionInv

\* A new request has a higher number than all before it.
LEMMA VersionSession ==
  ASSUME Typed, VersionInv, Connect \/ Disconnect \/ Request
  PROVE  VersionInv'
<1>1. CASE Connect
  <2>1. UNCHANGED <<todo, version, carried>> /\ clients' = clients + 1 /\ requests' = 0 /\ ~ connected
    BY <1>1 DEF Connect, encodeVars
  <2>2. todo = <<>>
    <3>1. todo # <<>> => connected
      BY DEF Typed
    <3>2. ~ connected
      BY <2>1
    <3>. QED BY <3>1, <3>2
  <2>3. LastRequest <= LastRequest'
    <3>1. PICK c \in Nat, m \in Nat, r \in Nat : c = clients /\ m = MaxRequests /\ r = requests /\ r <= m
      BY ExchangeAssumption DEF Typed
    <3>2. LastRequest' = c * m
      <4>1. c + 1 # 0 /\ (c + 1 - 1) * m + 0 = c * m
        OBVIOUS
      <4>. QED BY <2>1, <3>1, <4>1 DEF LastRequest, CurrentRequest
    <3>3. CASE c = 0
      <4>1. LastRequest = 0 /\ c * m = 0
        BY <3>1, <3>3 DEF LastRequest
      <4>. QED BY <3>2, <4>1
    <3>4. CASE c # 0
      <4>1. LastRequest = (c - 1) * m + r
        BY <3>1, <3>4 DEF LastRequest, CurrentRequest
      <4>2. (c - 1) * m + m = c * m /\ (c - 1) * m \in Nat /\ c * m \in Nat
        BY <3>4
      <4>3. PICK d \in Nat, e \in Nat : d = (c - 1) * m /\ e = c * m
        BY <4>2
      <4>4. d + m = e /\ d + r <= e
        BY <3>1, <4>2, <4>3
      <4>. QED BY <3>2, <4>1, <4>3, <4>4
    <3>. QED BY <3>3, <3>4
  <2>4. LastRequest \in Nat /\ LastRequest' \in Nat
    <3>1. LastRequest \in Nat
      BY RequestNat DEF LastRequest
    <3>2. LastRequest' \in Nat
      <4>1. PICK c \in Nat, m \in Nat : c = clients /\ m = MaxRequests
        BY ExchangeAssumption DEF Typed
      <4>2. c + 1 # 0 /\ (c + 1 - 1) * m + 0 = c * m /\ c * m \in Nat
        OBVIOUS
      <4>. QED BY <2>1, <4>1, <4>2 DEF LastRequest, CurrentRequest
    <3>. QED BY <3>1, <3>2
  <2>5. \A n \in Names : version[n] <= LastRequest'
    BY <2>3, <2>4 DEF VersionInv, Typed
  <2>6. Len(todo') = 0
    BY <2>1, <2>2
  <2>. QED
    BY <2>1, <2>5, <2>6 DEF VersionInv
<1>2. CASE Disconnect
  <2>1. UNCHANGED <<todo, version, carried, clients, requests>>
    BY <1>2 DEF Disconnect, encodeVars
  <2>. QED
    BY <2>1 DEF VersionInv, LastRequest, CurrentRequest
<1>3. CASE Request
  <2>1. UNCHANGED <<version, carried, clients>> /\ requests' = requests + 1 /\ todo' \in Requests
    BY <1>3 DEF Request, encodeVars
  <2>2. \A n \in Names : version[n] <= LastRequest'
    <3>1. PICK c \in Nat, m \in Nat, r \in Nat : c = clients /\ m = MaxRequests /\ r = requests
      BY ExchangeAssumption DEF Typed
    <3>2. CASE c = 0
      BY <2>1, <3>1, <3>2 DEF VersionInv, LastRequest
    <3>3. CASE c # 0
      <4>1. PICK z \in Nat : z = (c - 1) * m
        BY <3>3
      <4>2. LastRequest = z + r /\ LastRequest' = z + (r + 1)
        BY <2>1, <3>1, <3>3, <4>1 DEF LastRequest, CurrentRequest
      <4>. QED BY <4>2 DEF VersionInv, Typed
    <3>. QED BY <3>2, <3>3
  <2>3. \A i \in 1..Len(todo') : todo'[i][1] = Mode => \A n \in Selects : \E j \in 1..i - 1 : todo'[j][1] = n
    BY <2>1, RequestSeq, ManeuverAssumption
  <2>. QED
    BY <2>1, <2>2, <2>3 DEF VersionInv
<1>. QED
  BY <1>1, <1>2, <1>3

\* The mode is written when all that it asks for has been.
LEMMA VersionWrite ==
  ASSUME Typed, VersionInv, WriteSignal
  PROVE  VersionInv' /\ \A n \in Names : version[n] <= version'[n]
<1>. DEFINE name == Head(todo)[1]
            r == CurrentRequest
<1>1. todo # <<>> /\ todo' = Tail(todo) /\ UNCHANGED <<clients, requests, carried>> /\ clients # 0
  BY DEF WriteSignal, Typed
<1>2. PICK l \in Nat \ {0} : l = Len(todo) /\ Len(todo') = l - 1
      /\ (\A i \in 1..l - 1 : todo'[i] = todo[i + 1]) /\ Head(todo) = todo[1]
  BY <1>1, TodoFacts
<1>3. CurrentRequest' = CurrentRequest /\ LastRequest' = LastRequest /\ LastRequest = CurrentRequest
      /\ CurrentRequest \in Nat
  BY <1>1, RequestNat DEF LastRequest, CurrentRequest
<1>4. name \in Names \cup {Time} /\ Time \notin Names
  BY <1>1, TodoFacts, ExchangeAssumption
<1>5. version' = IF name = Time THEN version ELSE [version EXCEPT ![name] = CurrentRequest]
  BY DEF WriteSignal
<1>. HIDE DEF name
<1>6. \A n \in Names : version'[n] = IF n = name THEN CurrentRequest ELSE version[n]
  BY <1>4, <1>5 DEF Typed
<1>7. \A n \in Names : version[n] \in Nat /\ version[n] <= CurrentRequest /\ carried[n] \in Nat /\ carried[n] <= version[n]
  BY <1>3 DEF VersionInv, Typed
<1>8. \A n \in Names : version[n] <= version'[n] /\ version'[n] <= CurrentRequest /\ carried[n] <= version'[n]
  <2>. SUFFICES ASSUME NEW n \in Names
                PROVE  version[n] <= version'[n] /\ version'[n] <= CurrentRequest /\ carried[n] <= version'[n]
    OBVIOUS
  <2>1. PICK v \in Nat, k \in Nat, z \in Nat : v = version[n] /\ k = carried[n] /\ z = CurrentRequest /\ v <= z /\ k <= v
    BY <1>3, <1>7
  <2>. QED BY <1>6, <2>1
<1>9. \A n \in Selects : version'[Mode] <= version'[n]
  <2>. SUFFICES ASSUME NEW n \in Selects PROVE version'[Mode] <= version'[n]
    OBVIOUS
  <2>1. n \in Names /\ Mode \in Names /\ n # Mode
    BY SelectFacts
  <2>2. CASE name = Mode
    <3>1. 1 \in 1..Len(todo) /\ todo[1][1] = Mode /\ 1..1 - 1 = {}
      BY <1>2, <2>2 DEF name
    <3>2. version[n] = CurrentRequest
      BY <3>1 DEF VersionInv
    <3>. QED BY <1>3, <1>6, <2>1, <2>2, <3>2
  <2>3. CASE name # Mode
    <3>1. version'[Mode] = version[Mode] /\ version[Mode] <= version[n]
      BY <1>6, <2>1, <2>3 DEF VersionInv
    <3>2. version[n] <= version'[n] /\ version[n] \in Nat /\ version[Mode] \in Nat /\ version'[n] \in Nat
      BY <1>3, <1>6, <1>7, <1>8, <2>1
    <3>. QED BY <3>1, <3>2
  <2>. QED BY <2>2, <2>3
<1>10. ASSUME NEW i \in 1..l - 1, todo'[i][1] = Mode, NEW n \in Selects
       PROVE  version'[n] = CurrentRequest \/ \E j \in 1..i - 1 : todo'[j][1] = n
  <2>1. n \in Names
    BY SelectFacts
  <2>2. i + 1 \in 1..l /\ todo[i + 1][1] = Mode
    BY <1>2, <1>10
  <2>3. version[n] = CurrentRequest \/ \E j \in 1..(i + 1) - 1 : todo[j][1] = n
    BY <1>2, <2>2 DEF VersionInv
  <2>4. CASE version[n] = CurrentRequest
    BY <1>6, <2>1, <2>4
  <2>5. CASE \E j \in 1..(i + 1) - 1 : todo[j][1] = n
    <3>1. PICK j \in 1..i : todo[j][1] = n
      BY <2>5
    <3>2. CASE j = 1
      BY <1>2, <1>6, <2>1, <3>1, <3>2 DEF name
    <3>3. CASE j # 1
      <4>1. j - 1 \in 1..i - 1 /\ j - 1 \in 1..l - 1 /\ (j - 1) + 1 = j
        BY <3>3
      <4>2. todo'[j - 1] = todo[j]
        BY <1>2, <4>1
      <4>. QED BY <3>1, <4>1, <4>2
    <3>. QED BY <3>2, <3>3
  <2>. QED BY <2>3, <2>4, <2>5
<1>. QED
  BY <1>1, <1>2, <1>3, <1>8, <1>9, <1>10 DEF VersionInv

LEMMA VersionEncode ==
  ASSUME Typed, WireInv, VersionInv, EncodePart
  PROVE  VersionInv' /\ carried' = [carried EXCEPT ![Name(field)] = version[Name(field)]]
         /\ Name(field) \in Names
<1>1. UNCHANGED <<todo, version, clients, requests>>
  BY DEF EncodePart, Elsewhere, sessionVars
<1>2. Name(field) \in Names
  BY TableFacts DEF WireInv, EncodeInv
<1>3. carried' = [carried EXCEPT ![Name(field)] = version[Name(field)]]
  BY DEF EncodePart, Name
<1>4. \A n \in Names : carried'[n] <= version[n]
  BY <1>2, <1>3 DEF Typed, VersionInv
<1>5. LastRequest' = LastRequest /\ CurrentRequest' = CurrentRequest
  BY <1>1 DEF LastRequest, CurrentRequest
<1>. QED
  BY <1>1, <1>2, <1>3, <1>4, <1>5 DEF VersionInv

LEMMA VersionQuiet ==
  ASSUME VersionInv, UNCHANGED <<todo, version, clients, requests, carried>>
  PROVE  VersionInv'
BY DEF VersionInv, LastRequest, CurrentRequest

\* A signal behind the mode is read after it, and by then is of the mode's request
\* at least.
LEMMA CarryEncode ==
  ASSUME Typed, WireInv, VersionInv, CarryInv, EncodePart
  PROVE  CarryInv'
<1>1. link = "encode" /\ field \in 1..N /\ UNCHANGED <<version, torn>>
  BY DEF EncodePart, WireInv, EncodeInv, Elsewhere
<1>2. carried' = [carried EXCEPT ![Name(field)] = version[Name(field)]] /\ Name(field) \in Names
  BY VersionEncode
<1>3. \A n \in Names : n # Name(field) <=> Place(n) # field
  BY <1>1, TableFacts
<1>4. \A n \in Names : carried'[n] = IF Place(n) = field THEN version[n] ELSE carried[n]
  BY <1>2, <1>3 DEF Typed
<1>5. \A n \in Names : Place(n) \in 1..N /\ version[n] \in Nat /\ carried[n] \in Nat /\ carried[n] <= version[n]
  BY TableFacts DEF VersionInv, Typed
<1>6. \A n \in Selects : n \in Names /\ version[Mode] <= version[n] /\ Mode \in Names /\ Place(n) # Place(Mode)
  BY SelectFacts DEF VersionInv
<1>7. \A n \in Selects : After(n) /\ Place(n) <= field => carried'[n] >= carried'[Mode]
  <2>. SUFFICES ASSUME NEW n \in Selects, After(n), Place(n) <= field
                PROVE  carried'[n] >= carried'[Mode]
    OBVIOUS
  <2>1. Place(Mode) < Place(n) /\ Place(Mode) \in 1..N /\ Place(n) \in 1..N
    BY <1>5, <1>6 DEF After
  <2>2. carried'[Mode] = carried[Mode]
    BY <1>1, <1>4, <1>6, <2>1
  <2>3. CASE Place(n) = field
    <3>1. carried'[n] = version[n]
      BY <1>4, <1>6, <2>3
    <3>2. carried[Mode] <= version[Mode] /\ version[Mode] <= version[n]
          /\ carried[Mode] \in Nat /\ version[Mode] \in Nat /\ version[n] \in Nat
      BY <1>5, <1>6
    <3>. QED BY <2>2, <3>1, <3>2
  <2>4. CASE Place(n) # field
    <3>1. carried'[n] = carried[n] /\ Place(n) < field
      BY <1>1, <1>4, <1>6, <2>1, <2>4
    <3>2. carried[n] >= carried[Mode]
      BY <1>1, <3>1 DEF CarryInv
    <3>. QED BY <2>2, <3>1, <3>2
  <2>. QED BY <2>3, <2>4
<1>8. ~ torn => \A n \in Names : Place(n) <= field => carried'[n] = version[n]
  <2>. SUFFICES ASSUME ~ torn, NEW n \in Names, Place(n) <= field PROVE carried'[n] = version[n]
    OBVIOUS
  <2>1. CASE Place(n) = field
    BY <1>4, <2>1
  <2>2. CASE Place(n) # field
    <3>1. Place(n) < field /\ carried'[n] = carried[n]
      BY <1>1, <1>4, <1>5, <2>2
    <3>. QED BY <1>1, <3>1 DEF CarryInv
  <2>. QED BY <2>1, <2>2
<1>9. CASE part > 0 /\ part' = part - 1 /\ UNCHANGED <<field, link>>
  <2>1. \A n \in Names : Place(n) < field => Place(n) <= field
    BY <1>1, <1>5
  <2>. QED
    BY <1>1, <1>6, <1>7, <1>8, <1>9, <2>1 DEF CarryInv, After
<1>10. CASE part = 0 /\ field' = field + 1 /\ UNCHANGED link
  <2>1. \A n \in Names : Place(n) < field + 1 => Place(n) <= field
    BY <1>1, <1>5
  <2>. QED
    BY <1>1, <1>6, <1>7, <1>8, <1>10, <2>1 DEF CarryInv, After
<1>11. CASE part = 0 /\ field = Len(Table) /\ link' = "sent" /\ UNCHANGED <<field, part>>
  <2>1. \A n \in Names : Place(n) <= field
    BY <1>5, <1>11, TableFacts DEF N
  <2>2. ASSUME NEW n \in Selects
        PROVE  carried'[n] >= carried'[Mode] \/ (torn /\ ~ After(n))
    <3>1. CASE After(n)
      BY <1>6, <1>7, <2>1, <3>1
    <3>2. CASE ~ torn
      <4>1. carried'[n] = version[n] /\ carried'[Mode] = version[Mode]
        BY <1>6, <1>8, <2>1, <3>2
      <4>. QED BY <1>5, <1>6, <4>1
    <3>. QED BY <3>1, <3>2
  <2>. QED
    BY <1>1, <1>11, <2>2 DEF CarryInv, After
<1>. QED
  BY <1>9, <1>10, <1>11 DEF EncodePart

\* A write while the datagram is made tears it.
LEMMA CarryWrite ==
  ASSUME Typed, VersionInv, CarryInv, WriteSignal
  PROVE  CarryInv'
<1>1. UNCHANGED <<link, field, carried>>
  BY DEF WriteSignal
<1>0. torn => torn'
  BY DEF WriteSignal
<1>2. link = "encode" /\ ~ torn' => version' = version
  BY DEF WriteSignal
<1>. QED
  BY <1>0, <1>1, <1>2 DEF CarryInv, After

LEMMA CarryRest ==
  ASSUME CarryInv, BeginEncode \/ Receive \/ DecodeBits \/ Turn \/ Decode \/ Lose, WireInv
  PROVE  CarryInv'
<1>1. CASE BeginEncode
  <2>1. \A n \in Names : ~ (Place(n) < 1)
    BY TableFacts
  <2>2. link' = "encode" /\ field' = 1
    BY <1>1 DEF BeginEncode
  <2>. QED
    BY <2>1, <2>2, SelectFacts DEF CarryInv, After
<1>2. CASE Receive
  BY <1>2 DEF Receive, CarryInv, After
<1>3. CASE DecodeBits
  <2>1. link = "decode" /\ link' \in {"decode", "decoded"} /\ UNCHANGED <<carried, torn>>
    BY <1>3 DEF DecodeBits
  <2>. QED
    BY <2>1 DEF CarryInv, After
<1>4. CASE Turn \/ Decode \/ Lose
  <2>1. link' \in {"answered", "idle", "lost"}
    BY <1>4 DEF Turn, Decode, Lose
  <2>. QED
    BY <2>1 DEF CarryInv, After
<1>. QED
  BY <1>1, <1>2, <1>3, <1>4

LEMMA CarryInit == Init => CarryInv
BY DEF Init, CarryInv

\* The invariant of the requests.
AskInv == VersionInv /\ CarryInv

LEMMA AskInvariant == Spec => []AskInv
<1>1. Init => AskInv
  BY VersionInit, CarryInit DEF AskInv
<1>2. DataInv /\ AskInv /\ [Next]_vars => AskInv'
  <2>. SUFFICES ASSUME DataInv, AskInv, [Next]_vars PROVE AskInv'
    OBVIOUS
  <2>1. CASE Connect \/ Disconnect \/ Request
    <3>1. UNCHANGED <<link, field, carried, version, torn>>
      BY <2>1 DEF Connect, Disconnect, Request, encodeVars
    <3>2. CarryInv'
      BY <3>1 DEF AskInv, CarryInv, After
    <3>. QED BY <2>1, <3>2, VersionSession DEF AskInv, DataInv
  <2>2. CASE WriteSignal
    BY <2>2, VersionWrite, CarryWrite DEF AskInv, DataInv
  <2>3. CASE EncodePart
    BY <2>3, VersionEncode, CarryEncode DEF AskInv, DataInv
  <2>4. CASE BeginEncode \/ Receive \/ DecodeBits \/ Turn \/ Decode \/ Lose
    <3>1. UNCHANGED <<todo, version, clients, requests, carried>>
      BY <2>4 DEF BeginEncode, Receive, DecodeBits, Turn, Decode, Lose, Elsewhere, sessionVars, encodeVars
    <3>. QED BY <2>4, <3>1, VersionQuiet, CarryRest DEF AskInv, DataInv
  <2>5. CASE ButtonLoop \/ TimePasses \/ UNCHANGED vars
    <3>1. UNCHANGED <<todo, version, clients, requests, carried, link, field, torn>>
      BY <2>5 DEF ButtonLoop, TestButton, ClearButton, ClearTime, TimePasses, Rest, sessionVars, encodeVars, vars
    <3>2. CarryInv'
      BY <3>1 DEF AskInv, CarryInv, After
    <3>. QED BY <3>1, <3>2, VersionQuiet DEF AskInv
  <2>. QED
    BY <2>1, <2>2, <2>3, <2>4, <2>5 DEF Next, SignalLoop
<1>. QED
  BY <1>1, <1>2, DataInvariant, PTL DEF Spec

\* When the ASPM takes up a mode, the type, direction and side it reads with it
\* are of the request that set the mode or of a later one, and so is the gear
\* unless the request fell into the making of the datagram, for every number
\* of clients and requests.
THEOREM ManeuversAreOfTheirRequest == Spec => TakesWhatWasAsked
<1>1. AskInv /\ [Next]_vars =>
        [Turn /\ TakesUp =>
            \A n \in Selects : \/ carried[n] >= carried[Mode]
                               \/ torn /\ Place(n) < Place(Mode)]_vars
  <2>. SUFFICES ASSUME AskInv, Turn, NEW n \in Selects
                PROVE  carried[n] >= carried[Mode] \/ (torn /\ Place(n) < Place(Mode))
    OBVIOUS
  <2>1. carried[n] >= carried[Mode] \/ (torn /\ ~ After(n))
    BY DEF AskInv, CarryInv, Turn
  <2>2. ~ After(n) => Place(n) < Place(Mode)
    <3>1. Place(n) # Place(Mode) /\ n \in Names /\ Mode \in Names
      BY SelectFacts
    <3>2. Place(n) \in 1..N /\ Place(Mode) \in 1..N
      BY <3>1, TableFacts
    <3>. QED BY <3>1, <3>2 DEF After
  <2>. QED BY <2>1, <2>2
<1>. QED
  BY <1>1, AskInvariant, PTL DEF Spec, TakesWhatWasAsked
===============================================================================
