----------------------------- MODULE WireFields -----------------------------
(***************************************************************************)
(* What the two wire codecs of the repository share: a packet is a         *)
(* sequence of bytes, little-endian, and every field has a width and a     *)
(* range outside which the encoder raises instead of sending.  The bot's   *)
(* codec (BotWire) gets this from Python's struct and its own checks, the  *)
(* phone's (AppWire) from its Writer and readers; each is written on top   *)
(* of these operators, which belong to neither side.                       *)
(*                                                                         *)
(* TLC's integers have 32 bits, so the four-byte times stop at MaxTime     *)
(* instead of 2^32 - 1: the only bound of the byte level.                  *)
(***************************************************************************)
EXTENDS Integers, Sequences, SequencesExt, TLC

CONSTANT None        \* Python's None, JavaScript's null

MaxTime == 2147483647

\* No packet is empty, so the empty sequence stands for an encoder's error.
Refused == <<>>

\* Every message on the wire has a type from 1 to 15, so type 0 stands for a
\* decoder's error.
Unread == [type |-> 0]

Num(b) == IF b THEN 1 ELSE 0
Bit(n, k) == (n \div 2^k) % 2 = 1
Clamp(n, low, high) == IF n < low THEN low ELSE IF n > high THEN high ELSE n
Known(v, unknown) == IF v = None THEN unknown ELSE v
KnownUnless(v, unknown) == IF v = unknown THEN None ELSE v

\* n / d to the nearest integer, a half going to the even one.
Nearest(n, d) ==
  LET q == n \div d
      r == n % d
  IN IF 2 * r > d \/ (2 * r = d /\ q % 2 = 1) THEN q + 1 ELSE q

\* The sequences one after another, joined in halves: a packet has too many
\* fields for a recursion as deep as it is long.
Joined(seqs) ==
  LET join[from \in 1..Len(seqs), to \in 1..Len(seqs)] ==
        LET mid == (from + to) \div 2
        IN IF from = to THEN seqs[from] ELSE join[from, mid] \o join[mid + 1, to]
  IN IF seqs = <<>> THEN <<>> ELSE join[1, Len(seqs)]

\* The elements of a sequence, each once, in the order Before.
SortedOnce(seq, Before(_, _)) ==
  LET isFirst(i) == \A j \in 1..(i - 1) : seq[j] # seq[i]
      firsts == SelectSeq([i \in DOMAIN seq |-> i], isFirst)
  IN SortSeq([k \in DOMAIN firsts |-> seq[firsts[k]]], Before)

-----------------------------------------------------------------------------
(* Writing. *)

Field(width, low, high, value) ==
  [width |-> width, low |-> low, high |-> high, value |-> value]

U(width, value) ==
  Field(width, 0, IF width = 4 THEN MaxTime ELSE 256^width - 1, value)

S(width, value) ==
  Field(width, -(256^width \div 2), 256^width \div 2 - 1, value)

BytesOf(f) == [i \in 1..f.width |-> (f.value \div 256^(i - 1)) % 256]

\* The fields of n repeated records, in order.
Each(n, FieldsOf(_)) == Joined([i \in 1..n |-> FieldsOf(i)])

Raw(bytes) == [i \in DOMAIN bytes |-> U(1, bytes[i])]

\* The packet, unless a field is out of range or the packet over its limit.
Sent(fields, limit) ==
  LET packet == Joined([i \in DOMAIN fields |-> BytesOf(fields[i])])
  IN IF /\ \A i \in DOMAIN fields :
             /\ fields[i].low <= fields[i].value
             /\ fields[i].value <= fields[i].high
        /\ Len(packet) <= limit
     THEN packet ELSE Refused

-----------------------------------------------------------------------------
(* Reading: the value of the field of the given width after `at` bytes. *)

UAt(p, at, width) ==
  SumFunction([i \in 1..width |-> p[at + i] * 256^(i - 1)])

SAt(p, at, width) ==
  LET raw == UAt(p, at, width)
  IN IF raw >= 256^width \div 2 THEN raw - 256^width ELSE raw

After(p, at) == SubSeq(p, at + 1, Len(p))

\* The bits of a byte sequence, the highest of each byte first, and back.
BitsOf(bytes) ==
  [i \in 1..(8 * Len(bytes)) |->
     Num(Bit(bytes[(i - 1) \div 8 + 1], 7 - ((i - 1) % 8)))]

BytesOfBits(bits) ==
  [b \in 1..((Len(bits) + 7) \div 8) |->
     SumFunction([i \in 1..8 |->
        IF 8 * (b - 1) + i <= Len(bits)
        THEN bits[8 * (b - 1) + i] * 2^(8 - i) ELSE 0])]

-----------------------------------------------------------------------------
(* UTF-8: what tells a code point's first byte from its tail. *)

IsTail(byte) == byte \div 64 = 2

Tails(byte) == IF byte < 192 THEN 0
               ELSE IF byte < 224 THEN 1
               ELSE IF byte < 240 THEN 2 ELSE 3

\* Every code point has exactly the tail bytes its first byte announces.
IsUtf8(bytes) ==
  \A i \in DOMAIN bytes :
     IF IsTail(bytes[i])
     THEN \E k \in 1..3 : /\ i > k
                          /\ Tails(bytes[i - k]) >= k
                          /\ \A j \in 1..(k - 1) : IsTail(bytes[i - j])
     ELSE \A k \in 1..Tails(bytes[i]) :
             i + k <= Len(bytes) /\ IsTail(bytes[i + k])
=============================================================================
