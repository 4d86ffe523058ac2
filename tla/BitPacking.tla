------------------------------ MODULE BitPacking ------------------------------
(***************************************************************************)
(* How signals are packed into the payload of a PDU and read out of it:    *)
(* encodeTCMSignalData and encodeASPMSignalData, decodeASPMSignalData and  *)
(* decodeTCMSignalData, which are the same but for their tables.  A table  *)
(* lists the signals of a PDU with their widths in bits.                   *)
(*                                                                         *)
(* A word is the set of its 1-bits, 0 the lowest; a byte is a word within  *)
(* 0..7.  A signal is packed in parts, one for each byte of its value, the *)
(* highest first.                                                          *)
(***************************************************************************)
EXTENDS Naturals, Sequences

Byte == 0..7
Shl(word, k) == {b + k : b \in word} \cap Byte
Shr(word, k) == {b - k : b \in {c \in word : c >= k}} \cap Byte

Fewer(a, b) == IF a < b THEN a ELSE b

-----------------------------------------------------------------------------
(* Encoding.                                                                *)

LastPart(width) == (width - 1) \div 8
PartWidth(width, j) == IF j = LastPart(width) THEN width - 8 * j ELSE 8

\* Only a part that is all that is left of its signal is masked to its width: the
\* highest part of a wider signal is taken as a whole byte of the value.
Part(word, width, j) ==
    {b - 8 * j : b \in word \cap (8 * j .. 8 * j + 7)}
    \cap (IF j = 0 THEN 0..PartWidth(width, 0) - 1 ELSE Byte)

Blank(bytes) == [data |-> [k \in 1..bytes |-> {}], index |-> 1, startBit |-> 0]

\* n bits of a part are added behind what is there.
Put_NoModulo(buffer, part, n) ==
    LET remainBits == 8 - buffer.startBit
        i == buffer.index
        over == n - remainBits
    IN IF n <= remainBits
       THEN [data |-> [buffer.data EXCEPT ![i] = @ \cup Shl(part, remainBits - n)],
             index |-> IF n = remainBits THEN i + 1 ELSE i,
             startBit |-> buffer.startBit + n]
       ELSE [data |-> [buffer.data EXCEPT ![i] = @ \cup Shr(part, over),
                                          ![i + 1] = @ \cup Shl(part, 8 - over)],
             index |-> i + 1, startBit |-> over]
Put(buffer, part, n) ==
    LET remainBits == 8 - buffer.startBit
        i == buffer.index
        over == n - remainBits
    IN IF n <= remainBits
       THEN [data |-> [buffer.data EXCEPT ![i] = @ \cup Shl(part, remainBits - n)],
             index |-> IF n = remainBits THEN i + 1 ELSE i,
             startBit |-> (buffer.startBit + n) % 8]
       ELSE [data |-> [buffer.data EXCEPT ![i] = @ \cup Shr(part, over),
                                          ![i + 1] = @ \cup Shl(part, 8 - over)],
             index |-> i + 1, startBit |-> over]

-----------------------------------------------------------------------------
(* Decoding.                                                                *)

Start == [index |-> 1, remaining |-> 0, read |-> 0, word |-> {}]

\* What is read of a signal is what the current byte still has, or as much of
\* it as the signal lacks.  d tells how far the bytes are read, how many bits of
\* the signal, and which of them are 1.
TakeBits_SignalFirst(d, data, width) ==
    LET have == IF d.remaining > 0 THEN d.remaining ELSE 8
        n == Fewer(width - d.read, have)
        left == have - n
        taken == Shr(data[d.index] \cap (left..have - 1), left)
    IN [read |-> d.read + n, remaining |-> left,
        index |-> IF left = 0 THEN d.index + 1 ELSE d.index,
        word |-> d.word \cup {b + d.read : b \in taken}]
TakeBits(d, data, width) ==
    LET have == IF d.remaining > 0 THEN d.remaining ELSE 8
        n == Fewer(width - d.read, have)
        left == have - n
        taken == Shr(data[d.index] \cap (left..have - 1), left)
    IN [read |-> d.read + n, remaining |-> left,
        index |-> IF left = 0 THEN d.index + 1 ELSE d.index,
        word |-> d.word \cup {b + width - d.read - n : b \in taken}]

Begin(d) == [d EXCEPT !.read = 0, !.word = {}]

-----------------------------------------------------------------------------
(* The layout that the two agree on.                                        *)

\* The first bit of the k-th signal, counted from the highest bit of the first
\* byte.
Offset(widths, k) ==
    LET sum[j \in 0..Len(widths)] == IF j = 0 THEN 0 ELSE sum[j - 1] + widths[j] IN sum[k - 1]
Within(word, width) == word \cap (0..width - 1)

\* The highest part of a signal that is wider than a byte, by no whole number of
\* bytes, is not masked: if the value has more bits than the signal, they fall on
\* the signals before it in the byte that it begins in.
SpoiltBy(widths, k, words, g) ==
    /\ k < g /\ widths[g] > 8 /\ widths[g] % 8 # 0
    /\ words[g] # Within(words[g], widths[g])
    /\ (Offset(widths, k + 1) - 1) \div 8 = Offset(widths, g) \div 8
==============================================================================
