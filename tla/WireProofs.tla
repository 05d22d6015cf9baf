----------------------------- MODULE WireProofs -----------------------------
(***************************************************************************)
(* Proofs that what is read from a wire is what was written to it.         *)
(*                                                                         *)
(* Of WireCodec, for every base, all values and messages: the reader stays *)
(* within a message and on its words, a message is framed whole exactly if *)
(* it fits, and header and arguments written are those that are read.      *)
(*                                                                         *)
(* Of Capture (as C), for any number of helpers, frames and units: what is *)
(* shown of a helper that stops between frames and dies in no header are   *)
(* its frames, whole and in order. The invariant relates the pixels that   *)
(* were read to the units in flight and to those still to be written.      *)
(***************************************************************************)
EXTENDS WireCodec, CaptureFrames, TLAPS

\* The rest of Capture.
CONSTANTS Capacity, AckCapacity, Worlds

VARIABLES running, sink, accepter, stopper, session, streaming, drawer, closer,
          toMod, acks, texture

C == INSTANCE Capture

----------------------------------------------------------------------------
(* Numbers.                                                                *)

LEMMA BaseIs ==
  Base \in Nat /\ Base > 2 /\ SizeMod \in Nat /\ SizeMod > 8 /\ SizeMod = Base * Base
<1>1. Base \in Nat /\ Base > 2
  BY CodecAssumption
<1>2. Base * Base >= 3 * 3
  BY <1>1
<1> QED
  BY <1>1, <1>2 DEF SizeMod

\* Division by a positive number, by the quotient it has to be.
LEMMA Quotient ==
  ASSUME NEW n \in Nat, NEW b \in Nat, b > 0, NEW q \in Nat, NEW r \in Nat,
         n = q * b + r, r < b
  PROVE  n \div b = q /\ n % b = r
  OBVIOUS

LEMMA Divides ==
  ASSUME NEW n \in Nat, NEW b \in Nat, b > 0
  PROVE  /\ n \div b \in Nat /\ n % b \in Nat /\ n % b < b
         /\ n = b * (n \div b) + (n % b)
<1>1. n \div b \in Nat
  OBVIOUS
<1>2. n % b \in Nat /\ n % b < b
  OBVIOUS
<1>3. n - b * (n \div b) = n % b
  BY SMTT(30)
<1>4. n = b * (n \div b) + (n % b)
  <2> DEFINE x == b * (n \div b)
             m == n % b
  <2>1. x \in Nat /\ m \in Nat /\ n - x = m
    BY <1>1, <1>2, <1>3
  <2> HIDE DEF x, m
  <2>2. n = x + m
    BY <2>1
  <2> QED BY <2>2 DEF x, m
<1> QED
  BY <1>1, <1>2, <1>4

LEMMA Products ==
  ASSUME NEW a \in Nat, NEW b \in Nat, NEW c \in Nat
  PROVE  a * b \in Nat /\ (a * b) * c = a * (b * c) /\ a * b = b * a
  OBVIOUS

----------------------------------------------------------------------------
(* Sequences of bytes.                                                     *)

LEMMA Bytes ==
  /\ \A s, t \in Seq(Byte) : s \o t \in Seq(Byte) /\ Len(s \o t) = Len(s) + Len(t)
  /\ \A n \in Nat : Zeroes(n) \in Seq(Byte) /\ Len(Zeroes(n)) = n
  /\ <<0>> \in Seq(Byte) /\ Len(<<0>>) = 1 /\ <<>> \in Seq(Byte) /\ Len(<<>>) = 0
<1>1. 0 \in Byte
  BY BaseIs DEF Byte
<1>2. ASSUME NEW n \in Nat PROVE Zeroes(n) \in Seq(Byte) /\ Len(Zeroes(n)) = n
  <2>1. Zeroes(n) \in [1..n -> Byte] /\ DOMAIN Zeroes(n) = 1..n
    BY <1>1 DEF Zeroes
  <2>2. Zeroes(n) \in Seq(Byte)
    BY <2>1
  <2> QED BY <2>1, <2>2
<1>3. ASSUME NEW s \in Seq(Byte), NEW t \in Seq(Byte)
      PROVE  s \o t \in Seq(Byte) /\ Len(s \o t) = Len(s) + Len(t)
  OBVIOUS
<1>4. <<0>> \in Seq(Byte) /\ Len(<<0>>) = 1 /\ <<>> \in Seq(Byte) /\ Len(<<>>) = 0
  BY <1>1
<1> QED
  BY <1>2, <1>3, <1>4

\* Sequences of bytes joined, one pair at a time.
LEMMA Joined ==
  ASSUME NEW s \in Seq(Byte), NEW t \in Seq(Byte)
  PROVE  s \o t \in Seq(Byte) /\ Len(s \o t) = Len(s) + Len(t)
  BY Bytes, Zenon

LEMMA FirstPart ==
  ASSUME NEW s \in Seq(Byte), NEW t \in Seq(Byte), NEW k \in 1..Len(s)
  PROVE  (s \o t)[k] = s[k]
  OBVIOUS

LEMMA SecondPart ==
  ASSUME NEW s \in Seq(Byte), NEW t \in Seq(Byte), NEW k \in 1..Len(t)
  PROVE  (s \o t)[Len(s) + k] = t[k]
  OBVIOUS

LEMMA PaddingIs ==
  ASSUME NEW n \in Nat
  PROVE  Padding(n) \in Nat /\ (n + Padding(n)) % 4 = 0
  BY DEF Padding

\* A word is four bytes.
LEMMA WordBytes ==
  ASSUME NEW v \in Nat, v < WordMod
  PROVE  U32(v) \in Seq(Byte) /\ Len(U32(v)) = 4
<1>0. Base \in Nat /\ Base > 0 /\ SizeMod \in Nat /\ SizeMod > 0
      /\ SizeMod = Base * Base
  BY BaseIs
<1>1. \A n \in Nat : n % Base \in Byte
  BY <1>0, Divides DEF Byte
<1>2. v \div Base \in Nat /\ v \div SizeMod \in Nat
  BY <1>0, Divides
<1>3. v \div (Base * SizeMod) \in Byte
  <2> DEFINE m == Base * SizeMod
             q == v \div m
  <2>1. m \in Nat /\ m > 0
    BY <1>0
  <2>2. q \in Nat /\ v % m \in Nat /\ v = m * q + (v % m)
    <3> HIDE DEF m
    <3> QED BY <2>1, Divides DEF q
  <2>3. WordMod = m * Base
    BY <1>0 DEF WordMod
  <2>4. q < Base
    <3> SUFFICES ASSUME q >= Base PROVE FALSE
      BY <1>0, <2>2
    <3>1. m * q >= m * Base
      <4> HIDE DEF m, q
      <4> QED BY <1>0, <2>1, <2>2
    <3> HIDE DEF m, q
    <3>2. m * q \in Nat /\ m * Base \in Nat
      BY <1>0, <2>1, <2>2
    <3> DEFINE r == v % m
    <3>3. r \in Nat /\ v = m * q + r
      BY <2>2
    <3> HIDE DEF r
    <3> QED BY <2>3, <3>1, <3>2, <3>3
  <2> QED BY <1>0, <2>2, <2>4 DEF Byte
<1> DEFINE d1 == v % Base
           d2 == (v \div Base) % Base
           d3 == (v \div SizeMod) % Base
           d4 == v \div (Base * SizeMod)
<1>4. d1 \in Byte /\ d2 \in Byte /\ d3 \in Byte /\ d4 \in Byte
  BY <1>1, <1>2, <1>3
<1>5. U32(v) = <<d1, d2, d3, d4>>
  BY DEF U32
<1> HIDE DEF d1, d2, d3, d4
<1> QED
  BY <1>4, <1>5

----------------------------------------------------------------------------
(* What the writer makes.                                                  *)

LEMMA WordModIs == WordMod \in Nat /\ WordMod > 0 /\ WordMod = SizeMod * SizeMod
  BY BaseIs DEF WordMod

LEMMA MarshalIs ==
  ASSUME NEW type \in Types, NEW v \in Values[type]
  PROVE  Marshal(type, v) \in Seq(Byte)
<1>1. CASE type = "u32"
  BY <1>1, ValuesAssumption, WordBytes, WordModIs DEF Marshal, Word
<1>2. ASSUME NEW i \in Int PROVE I32(i) \in Seq(Byte)
  <2>1. i % WordMod \in Nat /\ i % WordMod < WordMod
    BY WordModIs
  <2> QED BY <2>1, WordBytes DEF I32
<1>3. CASE type = "i32"
  <2>1. Half \in Nat
    BY WordModIs DEF Half
  <2>2. v \in Int
    BY <1>3, <2>1, ValuesAssumption
  <2> QED BY <1>2, <1>3, <2>2 DEF Marshal
<1>4. CASE type = "fixed"
  <2>1. v \in Int
    BY <1>4, WordModIs, ValuesAssumption
  <2>2. Truncated(v) \in Int
    BY <2>1 DEF Truncated
  <2> QED BY <1>2, <1>4, <2>2 DEF Marshal, Fixed
<1>5. ASSUME NEW s \in Seq(Byte), Len(s) + 1 < WordMod
      PROVE  String(s) \in Seq(Byte) /\ Array(s) \in Seq(Byte)
  <2>1. U32(Len(s) + 1) \in Seq(Byte) /\ U32(Len(s)) \in Seq(Byte)
    BY <1>5, WordBytes, WordModIs
  <2>2. Zeroes(Padding(Len(s) + 1)) \in Seq(Byte)
        /\ Zeroes(Padding(Len(s))) \in Seq(Byte)
    <3>1. Len(s) \in Nat /\ Len(s) + 1 \in Nat
      OBVIOUS
    <3>2. Padding(Len(s)) \in Nat /\ Padding(Len(s) + 1) \in Nat
      BY <3>1, PaddingIs, Zenon
    <3> QED BY <3>2, Bytes, Zenon
  <2>3. U32(Len(s) + 1) \o s \o <<0>> \o Zeroes(Padding(Len(s) + 1)) \in Seq(Byte)
    BY <2>1, <2>2, Bytes
  <2>4. U32(Len(s)) \o s \o Zeroes(Padding(Len(s))) \in Seq(Byte)
    BY <2>1, <2>2, Bytes
  <2> QED BY <2>3, <2>4 DEF String, Array
<1>6. CASE type = "string"
  BY <1>5, <1>6, ValuesAssumption DEF Marshal
<1>7. CASE type = "array"
  BY <1>5, <1>7, ValuesAssumption DEF Marshal
<1> QED
  BY <1>1, <1>3, <1>4, <1>6, <1>7 DEF Types

\* A quotient of a quotient is one by the product.
LEMMA TwiceDivided ==
  ASSUME NEW n \in Nat, NEW a \in Nat, a > 0, NEW b \in Nat, b > 0
  PROVE  (n \div a) \div b = n \div (a * b)
<1> DEFINE q == n \div a
           r == n % a
           x == q \div b
           y == q % b
<1>1. q \in Nat /\ r \in Nat /\ r < a /\ n = a * q + r
  BY Divides
<1>2. x \in Nat /\ y \in Nat /\ y < b /\ q = b * x + y
  <2> HIDE DEF q
  <2> QED BY <1>1, Divides
<1> HIDE DEF q, r, x, y
<1>3. a * b \in Nat /\ a * b > 0 /\ a * y + r \in Nat
  BY <1>1, <1>2
<1>4. a * y + r < a * b
  <2>1. y + 1 <= b /\ y + 1 \in Nat
    BY <1>2
  <2>2. a * (y + 1) <= a * b
    BY <2>1
  <2>3. a * (y + 1) = a * y + a /\ a * y \in Nat
    BY <1>2
  <2> QED BY <1>1, <1>3, <2>2, <2>3
<1>5. n = x * (a * b) + (a * y + r)
  <2>1. a * (b * x + y) = x * (a * b) + a * y
    BY <1>1, <1>2
  <2> QED BY <1>1, <1>2, <2>1
<1>6. n \div (a * b) = x
  <2> DEFINE m == a * b
             k == a * y + r
  <2>1. m \in Nat /\ m > 0 /\ k \in Nat /\ k < m /\ n = x * m + k
    BY <1>3, <1>4, <1>5
  <2> HIDE DEF m, k
  <2>2. n \div m = x
    BY <1>2, <2>1, Quotient
  <2> QED BY <2>2 DEF m
<1> QED
  BY <1>6 DEF x, q

\* The four digits of a word make it up again.
LEMMA Recomposed ==
  ASSUME NEW v \in Nat
  PROVE  (v % Base) + Base * ((v \div Base) % Base)
           + SizeMod * (((v \div SizeMod) % Base) + Base * (v \div (Base * SizeMod))) = v
<1>0. Base \in Nat /\ Base > 0 /\ SizeMod \in Nat /\ SizeMod > 0
      /\ SizeMod = Base * Base
  BY BaseIs
<1> DEFINE q == v \div Base
           d1 == v % Base
           d2 == q % Base
           w == v \div SizeMod
           d3 == w % Base
           d4 == v \div (Base * SizeMod)
<1>1. q \in Nat /\ d1 \in Nat /\ v = Base * q + d1
  BY <1>0, Divides
<1>2. q \div Base = w
  BY <1>0, TwiceDivided
<1>3. w \in Nat
  BY <1>0, Divides
<1>4. d2 \in Nat /\ q = Base * w + d2
  <2> HIDE DEF q, w
  <2> QED BY <1>0, <1>1, <1>2, Divides
<1>5. w \div Base = d4
  <2>1. w \div Base = v \div (SizeMod * Base)
    BY <1>0, TwiceDivided
  <2>2. SizeMod * Base = Base * SizeMod
    BY <1>0
  <2> QED BY <2>1, <2>2
<1>6. d3 \in Nat /\ d4 \in Nat /\ w = Base * d4 + d3
  <2> HIDE DEF w, d4
  <2> QED BY <1>0, <1>3, <1>5, Divides
<1> HIDE DEF q, d1, d2, w, d3, d4
<1>7. d1 + Base * d2 + SizeMod * (d3 + Base * d4) = v
  <2>1. d3 + Base * d4 = w
    BY <1>0, <1>6
  <2>2. Base * (Base * w + d2) = SizeMod * w + Base * d2
    BY <1>0, <1>3, <1>4
  <2>3. v = (SizeMod * w + Base * d2) + d1
    BY <1>1, <1>4, <2>2
  <2>4. SizeMod * w \in Nat /\ Base * d2 \in Nat
    BY <1>0, <1>3, <1>4
  <2> QED BY <1>1, <2>1, <2>3, <2>4
<1> QED
  BY <1>7 DEF q, d1, d2, w, d3, d4

\* Two's complement there and back.
LEMMA SignedBack ==
  ASSUME NEW i \in Int, -Half <= i, i < Half
  PROVE  /\ i % WordMod \in Nat /\ i % WordMod < WordMod
         /\ Signed(i % WordMod) = i
<1>1. WordMod \in Nat /\ WordMod > 0
  BY WordModIs
<1>2. Half \in Nat /\ 2 * Half <= WordMod
  BY <1>1 DEF Half
<1>3. CASE i >= 0
  <2>1. i % WordMod = i
    BY <1>1, <1>2, <1>3
  <2> QED BY <1>1, <1>2, <1>3, <2>1 DEF Signed
<1>4. CASE i < 0
  <2>1. i % WordMod = i + WordMod
    BY <1>1, <1>2, <1>4
  <2> QED BY <1>1, <1>2, <1>4, <2>1 DEF Signed
<1> QED
  BY <1>3, <1>4

\* Four bytes are read as the word they were written from.
LEMMA WordBack ==
  ASSUME NEW bytes, NEW p \in Nat, NEW v \in Nat,
         \A k \in 1..4 : bytes[p + k] = U32(v)[k]
  PROVE  WordAt(bytes, p) = v
<1> DEFINE d1 == v % Base
           d2 == (v \div Base) % Base
           d3 == (v \div SizeMod) % Base
           d4 == v \div (Base * SizeMod)
<1>1. U32(v) = <<d1, d2, d3, d4>> /\ d1 + Base * d2 + SizeMod * (d3 + Base * d4) = v
  BY Recomposed DEF U32
<1> HIDE DEF d1, d2, d3, d4
<1>2. /\ bytes[p + 1] = d1 /\ bytes[p + 2] = d2
      /\ bytes[p + 3] = d3 /\ bytes[p + 4] = d4
  BY <1>1
<1> QED
  BY <1>1, <1>2, Zenon DEF WordAt

(***************************************************************************)
(* A header is parsed into the object, the opcode and the size it was      *)
(* written with, whatever follows it: size and opcode share a word without *)
(* touching each other. (writeHeader, parseHeader)                         *)
(***************************************************************************)
THEOREM HeaderBack ==
  ASSUME NEW id \in Word, NEW opcode \in 0..(SizeMod - 1), NEW size \in 0..(SizeMod - 1),
         NEW rest \in Seq(Byte)
  PROVE  ParseHeader(WriteHeader(id, opcode, size) \o rest)
           = [objectId |-> id, opcode |-> opcode, size |-> size]
<1>0. SizeMod \in Nat /\ SizeMod > 8 /\ WordMod \in Nat
  BY BaseIs, WordModIs
<1>1. id \in Nat /\ id < WordMod /\ size \in Nat /\ opcode \in Nat
      /\ opcode < SizeMod
  BY <1>0 DEF Word
<1>2. PICK v : v = size * SizeMod + opcode
  OBVIOUS
<1>3. v \in Nat /\ v < WordMod
  <2>1. size + 1 <= SizeMod
    BY <1>0, <1>1
  <2>2. (size + 1) * SizeMod <= SizeMod * SizeMod
    BY <1>0, <1>1, <2>1
  <2>3. (size + 1) * SizeMod = size * SizeMod + SizeMod /\ size * SizeMod \in Nat
    BY <1>0, <1>1
  <2>4. WordMod = SizeMod * SizeMod
    BY DEF WordMod
  <2> QED BY <1>0, <1>1, <1>2, <2>2, <2>3, <2>4
<1>4. PICK low \in Seq(Byte) : low = U32(id) /\ Len(low) = 4
  BY <1>1, WordBytes
<1>5. PICK high \in Seq(Byte) : high = U32(v) /\ Len(high) = 4
  BY <1>3, WordBytes
<1>6. PICK both \in Seq(Byte) : both = low \o high /\ Len(both) = 8
  <2>1. low \o high \in Seq(Byte) /\ Len(low \o high) = Len(low) + Len(high)
    BY Joined, Zenon
  <2>2. PICK both : both = low \o high
    OBVIOUS
  <2>3. both \in Seq(Byte) /\ Len(both) = 8
    BY <1>4, <1>5, <2>1, <2>2
  <2> QED BY <2>2, <2>3
<1>7. PICK bytes : bytes = both \o rest
  OBVIOUS
<1>8. \A k \in 1..4 : bytes[0 + k] = low[k] /\ bytes[4 + k] = high[k]
  <2> TAKE k \in 1..4
  <2>1. k \in 1..Len(both) /\ 4 + k \in 1..Len(both) /\ k \in 1..Len(low)
        /\ k \in 1..Len(high)
    BY <1>4, <1>5, <1>6
  <2>2. bytes[k] = both[k] /\ bytes[4 + k] = both[4 + k]
    BY <1>7, <2>1, FirstPart
  <2>3. both[k] = low[k] /\ both[Len(low) + k] = high[k]
    BY <1>6, <2>1, FirstPart, SecondPart
  <2>4. 0 + k = k
    OBVIOUS
  <2> QED BY <1>4, <2>2, <2>3, <2>4
<1>9. WordAt(bytes, 0) = id /\ WordAt(bytes, 4) = v
  <2>1. (\A k \in 1..4 : bytes[0 + k] = U32(id)[k])
        /\ \A k \in 1..4 : bytes[4 + k] = U32(v)[k]
    BY <1>4, <1>5, <1>8, Zenon
  <2> QED BY <1>1, <1>3, <2>1, WordBack
<1>10. v \div SizeMod = size /\ v % SizeMod = opcode
  <2>1. SizeMod > 0
    BY <1>0
  <2> QED BY <1>0, <1>1, <1>2, <1>3, <2>1, Quotient
<1>11. bytes = WriteHeader(id, opcode, size) \o rest
  BY <1>2, <1>4, <1>5, <1>6, <1>7 DEF WriteHeader
<1> QED
  BY <1>9, <1>10, <1>11 DEF ParseHeader

\* The receiver finds the size an event was framed with.
LEMMA FrameHeader ==
  ASSUME NEW size \in 0..(SizeMod - 1), NEW rest \in Seq(Byte)
  PROVE  ParseHeader(WriteHeader(1, 0, size) \o rest).size = size
<1>1. 1 \in Word /\ 0 \in 0..(SizeMod - 1)
  BY BaseIs, WordModIs DEF Word
<1> QED
  BY <1>1, HeaderBack

----------------------------------------------------------------------------
(* What the reader takes.                                                  *)

\* A read from within the message ends within it, no earlier, and on a word
\* or at its end if there was an argument to read.
Reads(r, p) ==
  /\ r.pos \in Nat /\ p <= r.pos /\ r.pos <= Len(data)
  /\ r.ok /\ p % 4 = 0 => r.pos % 4 = 0 \/ r.pos = Len(data)

LEMMA WordIs ==
  ASSUME data \in Seq(Byte), NEW p \in Nat, p + 4 <= Len(data)
  PROVE  WordAt(data, p) \in Nat
<1>0. Base \in Nat /\ SizeMod \in Nat /\ Byte \subseteq Nat
  BY BaseIs DEF Byte
<1>1. data[p + 1] \in Nat /\ data[p + 2] \in Nat /\ data[p + 3] \in Nat
      /\ data[p + 4] \in Nat
  <2>1. \A k \in 1..Len(data) : data[k] \in Byte
    OBVIOUS
  <2>2. {p + 1, p + 2, p + 3, p + 4} \subseteq 1..Len(data)
    OBVIOUS
  <2> QED BY <1>0, <2>1, <2>2
<1> DEFINE a == data[p + 1]
           b == Base * data[p + 2]
           d == Base * data[p + 4]
           c == data[p + 3] + d
           e == SizeMod * c
<1>2. a \in Nat /\ b \in Nat /\ d \in Nat
  <2>1. \A x, y \in Nat : x * y \in Nat
    OBVIOUS
  <2> QED BY <2>1, <1>0, <1>1, Zenon
<1>3. c \in Nat
  <2> HIDE DEF d
  <2> QED BY <1>1, <1>2
<1>4. e \in Nat
  <2> HIDE DEF c
  <2> QED BY <1>0, <1>3
<1>5. a + b + e \in Nat
  <2> HIDE DEF a, b, e
  <2> QED BY <1>2, <1>4
<1> QED
  BY <1>5 DEF WordAt

LEMMA ReadU32Is ==
  ASSUME data \in Seq(Byte), NEW p \in Nat, p <= Len(data)
  PROVE  /\ Reads(ReadU32(p), p)
         /\ ReadU32(p).ok \in BOOLEAN
         /\ ReadU32(p).ok => ReadU32(p).value \in Nat /\ ReadU32(p).pos = p + 4
         /\ ~ReadU32(p).ok => ReadU32(p) = Nothing(p)
<1>1. CASE Remaining(p) < 4
  BY <1>1 DEF ReadU32, Nothing, Reads
<1>2. CASE ~(Remaining(p) < 4)
  <2>1. p + 4 <= Len(data)
    BY <1>2 DEF Remaining
  <2>2. ReadU32(p) = [ok |-> TRUE, pos |-> p + 4, value |-> WordAt(data, p)]
    BY <1>2 DEF ReadU32, Something
  <2>3. WordAt(data, p) \in Nat
    BY <2>1, WordIs
  <2> QED BY <2>1, <2>2, <2>3 DEF Reads
<1> QED
  BY <1>1, <1>2

LEMMA ReadI32Is ==
  ASSUME data \in Seq(Byte), NEW p \in Nat, p <= Len(data)
  PROVE  Reads(ReadI32(p), p)
<1>1. CASE ReadU32(p).ok
  <2>1. ReadI32(p).pos = p + 4 /\ ReadI32(p).ok
    BY <1>1, ReadU32Is DEF ReadI32, Something
  <2> QED BY <1>1, <2>1, ReadU32Is DEF Reads
<1>2. CASE ~ReadU32(p).ok
  BY <1>2, ReadU32Is DEF ReadI32
<1> QED
  BY <1>1, <1>2

LEMMA ReadFixedIs ==
  ASSUME data \in Seq(Byte), NEW p \in Nat, p <= Len(data)
  PROVE  Reads(ReadFixed(p), p)
<1>1. CASE ReadI32(p).ok
  <2>1. ReadFixed(p).pos = ReadI32(p).pos /\ ReadFixed(p).ok
    BY <1>1 DEF ReadFixed, Something
  <2> QED BY <1>1, <2>1, ReadI32Is DEF Reads
<1>2. CASE ~ReadI32(p).ok
  BY <1>2, ReadI32Is DEF ReadFixed
<1> QED
  BY <1>1, <1>2

\* Behind the length, at p + 4.
LEMMA TakeIs ==
  ASSUME data \in Seq(Byte), NEW p \in Nat, NEW n \in Nat, p + 4 <= Len(data)
  PROVE  Reads(Take(p + 4, n), p)
<1> DEFINE q == p + 4
<1>1. CASE Remaining(q) < n
  BY <1>1 DEF Take, Nothing, Reads
<1>2. CASE ~(Remaining(q) < n)
  <2>1. q + n <= Len(data) /\ Remaining(q + n) = Len(data) - (q + n)
        /\ q + n \in Nat
    BY <1>2 DEF Remaining
  <2>2. Take(q, n).pos = SkipPadding(q + n, n) /\ Take(q, n).ok
    BY <1>2 DEF Take, Something
  <2>3. SkipPadding(q + n, n) = IF Padding(n) <= Len(data) - (q + n)
                                THEN q + n + Padding(n) ELSE Len(data)
    BY <2>1 DEF SkipPadding
  <2>4. Padding(n) \in Nat /\ (n + Padding(n)) % 4 = 0
    BY PaddingIs
  <2>5. SkipPadding(q + n, n) \in Nat /\ p <= SkipPadding(q + n, n)
        /\ SkipPadding(q + n, n) <= Len(data)
    BY <2>1, <2>3, <2>4
  <2>6. p % 4 = 0 =>
          SkipPadding(q + n, n) % 4 = 0 \/ SkipPadding(q + n, n) = Len(data)
    <3> DEFINE k == n + Padding(n)
    <3>1. k \in Nat /\ k % 4 = 0
      BY <2>4
    <3>2. p % 4 = 0 => (p + 4 + k) % 4 = 0
      <4> HIDE DEF k
      <4> QED BY <3>1
    <3>3. q + n + Padding(n) = p + 4 + k
      BY <2>4
    <3> QED BY <2>3, <3>2, <3>3
  <2> QED BY <2>2, <2>5, <2>6 DEF Reads
<1> QED
  BY <1>1, <1>2

LEMMA ReadArrayIs ==
  ASSUME data \in Seq(Byte), NEW p \in Nat, p <= Len(data)
  PROVE  Reads(ReadArray(p), p)
<1>1. CASE ReadU32(p).ok
  <2>1. ReadU32(p).pos = p + 4 /\ ReadU32(p).value \in Nat /\ p + 4 <= Len(data)
    BY <1>1, ReadU32Is DEF Reads
  <2>2. ReadArray(p) = Take(p + 4, ReadU32(p).value)
    BY <1>1, <2>1 DEF ReadArray
  <2> QED BY <2>1, <2>2, TakeIs
<1>2. CASE ~ReadU32(p).ok
  BY <1>2, ReadU32Is DEF ReadArray
<1> QED
  BY <1>1, <1>2

LEMMA ReadStringIs ==
  ASSUME data \in Seq(Byte), NEW p \in Nat, p <= Len(data)
  PROVE  Reads(ReadString(p), p)
<1> DEFINE length == ReadU32(p)
           taken == Take(length.pos, length.value)
<1>1. CASE ~length.ok \/ length.value = 0
  <2>1. ReadString(p) = Nothing(length.pos)
    BY <1>1 DEF ReadString
  <2> QED BY <2>1, ReadU32Is DEF Nothing, Reads
<1>2. CASE length.ok /\ length.value # 0
  <2>1. length.pos = p + 4 /\ length.value \in Nat /\ p + 4 <= Len(data)
    BY <1>2, ReadU32Is DEF Reads
  <2>2. Reads(taken, p)
    <3>1. Reads(Take(p + 4, length.value), p)
      <4> HIDE DEF length
      <4> QED BY <2>1, TakeIs
    <3> QED BY <2>1, <3>1
  <2>3. CASE taken.ok
    <3>1. ReadString(p).pos = taken.pos /\ ReadString(p).ok
      BY <1>2, <2>3 DEF ReadString, Something
    <3> HIDE DEF taken
    <3> QED BY <2>2, <2>3, <3>1 DEF Reads
  <2>4. CASE ~taken.ok
    <3>1. ReadString(p) = taken
      BY <1>2, <2>4 DEF ReadString
    <3> QED BY <2>2, <3>1
  <2> QED BY <2>3, <2>4
<1> QED
  <2>1. length.ok \in BOOLEAN
    BY ReadU32Is
  <2> QED BY <1>1, <1>2, <2>1

LEMMA ReadIs ==
  ASSUME data \in Seq(Byte), NEW p \in Nat, p <= Len(data), NEW type \in Types
  PROVE  Reads(Read(type, p), p)
<1>1. CASE type = "u32"
  BY <1>1, ReadU32Is DEF Read
<1>2. CASE type = "i32"
  BY <1>2, ReadI32Is DEF Read
<1>3. CASE type = "fixed"
  BY <1>3, ReadFixedIs DEF Read
<1>4. CASE type = "string"
  BY <1>4, ReadStringIs DEF Read
<1>5. CASE type = "array"
  BY <1>5, ReadArrayIs DEF Read
<1> QED
  BY <1>1, <1>2, <1>3, <1>4, <1>5 DEF Types

----------------------------------------------------------------------------
(* What was written is read.                                               *)

\* The bytes stand in the message behind position p.
Holds(p, bytes) ==
  /\ p + Len(bytes) <= Len(data)
  /\ \A k \in 1..Len(bytes) : data[p + k] = bytes[k]

LEMMA HoldsParts ==
  ASSUME data \in Seq(Byte), NEW p \in Nat,
         NEW s \in Seq(Byte), NEW t \in Seq(Byte), Holds(p, s \o t)
  PROVE  Holds(p, s) /\ Holds(p + Len(s), t)
<1>1. Len(s) \in Nat /\ Len(t) \in Nat /\ Len(s \o t) = Len(s) + Len(t)
      /\ Len(data) \in Nat
  BY Bytes
<1>2. \A k \in 1..Len(s) : data[p + k] = s[k]
  <2> TAKE k \in 1..Len(s)
  <2>1. k \in 1..Len(s \o t)
    BY <1>1
  <2> QED BY <2>1, FirstPart DEF Holds
<1>3. \A k \in 1..Len(t) : data[(p + Len(s)) + k] = t[k]
  <2> TAKE k \in 1..Len(t)
  <2>1. Len(s) + k \in 1..Len(s \o t)
    BY <1>1
  <2>2. data[p + (Len(s) + k)] = (s \o t)[Len(s) + k]
    BY <2>1 DEF Holds
  <2>3. p + (Len(s) + k) = (p + Len(s)) + k
    BY <1>1
  <2> QED BY <2>2, <2>3, SecondPart
<1> QED
  BY <1>1, <1>2, <1>3 DEF Holds

LEMMA U32Back ==
  ASSUME data \in Seq(Byte), NEW p \in Nat, NEW v \in Nat, v < WordMod,
         Holds(p, U32(v))
  PROVE  ReadU32(p) = Something(p + 4, v)
<1>0. Len(U32(v)) = 4
  BY WordBytes
<1>1. Len(U32(v)) = 4 /\ p + 4 <= Len(data) /\ Len(data) \in Nat
  BY <1>0 DEF Holds
<1>2. ~(Remaining(p) < 4)
  BY <1>1 DEF Remaining
<1>3. \A k \in 1..4 : data[p + k] = U32(v)[k]
  BY <1>1 DEF Holds
<1>4. WordAt(data, p) = v
  BY <1>3, WordBack
<1> QED
  BY <1>2, <1>4 DEF ReadU32

LEMMA I32Back ==
  ASSUME data \in Seq(Byte), NEW p \in Nat, NEW i \in Int, -Half <= i, i < Half,
         Holds(p, I32(i))
  PROVE  ReadI32(p) = Something(p + 4, i)
<1> DEFINE w == i % WordMod
<1>1. w \in Nat /\ w < WordMod /\ Signed(w) = i
  BY SignedBack
<1>2. ReadU32(p) = Something(p + 4, w)
  <2>1. Holds(p, U32(w))
    BY DEF I32
  <2> HIDE DEF w
  <2> QED BY <1>1, <2>1, U32Back
<1> HIDE DEF w
<1> QED
  BY <1>1, <1>2 DEF ReadI32, Something

\* Dropping the fraction stays within the range of the codec.
LEMMA TruncatedIs ==
  ASSUME NEW v \in Int, -WordMod <= v, v <= WordMod - 2
  PROVE  Truncated(v) \in Int /\ -Half <= Truncated(v) /\ Truncated(v) < Half
<1>1. WordMod \in Nat /\ WordMod > 8
  BY BaseIs, WordModIs
<1> DEFINE m == WordMod
<1>2. Half = m \div 2 /\ m \in Nat /\ m > 8 /\ -m <= v /\ v <= m - 2
  BY <1>1 DEF Half
<1> HIDE DEF m
<1>3. CASE v < 0
  <2>1. Truncated(v) = -((-v) \div 2) /\ -v \in Nat /\ -v <= m
    BY <1>2, <1>3 DEF Truncated
  <2> DEFINE h == -v
  <2>2. h \in Nat /\ h <= m /\ h > 0 /\ Truncated(v) = -(h \div 2)
    BY <1>3, <2>1
  <2> HIDE DEF h
  <2>3. h \div 2 \in Nat /\ h \div 2 <= m \div 2 /\ m \div 2 > 0
    BY <1>2, <2>2
  <2> QED BY <1>2, <2>2, <2>3
<1>4. CASE ~(v < 0)
  <2>1. Truncated(v) = v \div 2 /\ v \in Nat /\ v + 2 <= m
    BY <1>2, <1>4 DEF Truncated
  <2>2. v \div 2 \in Nat /\ v \div 2 < m \div 2
    BY <1>2, <2>1
  <2> QED BY <1>2, <2>1, <2>2
<1> QED
  BY <1>3, <1>4

\* n bytes and their padding, all of them there.
LEMMA TakeBack ==
  ASSUME data \in Seq(Byte), NEW q \in Nat, NEW n \in Nat,
         q + n + Padding(n) <= Len(data)
  PROVE  Take(q, n) = Something(q + n + Padding(n), SubSeq(data, q + 1, q + n))
<1>1. Padding(n) \in Nat /\ Len(data) \in Nat
  BY PaddingIs
<1>2. ~(Remaining(q) < n) /\ Padding(n) <= Remaining(q + n)
  BY <1>1 DEF Remaining
<1> QED
  BY <1>2 DEF Take, SkipPadding

LEMMA SubSeqBack ==
  ASSUME data \in Seq(Byte), NEW q \in Nat, NEW s \in Seq(Byte), Holds(q, s)
  PROVE  SubSeq(data, q + 1, q + Len(s)) = s
<1>1. Len(s) \in Nat /\ Len(data) \in Nat /\ q + Len(s) <= Len(data)
  BY DEF Holds
<1> DEFINE t == SubSeq(data, q + 1, q + Len(s))
<1>2. t \in Seq(Byte) /\ Len(t) = Len(s)
  BY <1>1
<1>3. \A k \in 1..Len(s) : t[k] = data[q + k]
  BY <1>1
<1>4. \A k \in 1..Len(s) : t[k] = s[k]
  BY <1>3 DEF Holds
<1> HIDE DEF t
<1>5. t = s
  BY <1>2, <1>4
<1> QED
  BY <1>5 DEF t

LEMMA FrontBack ==
  ASSUME data \in Seq(Byte), NEW q \in Nat, NEW s \in Seq(Byte), Holds(q, s),
         q + (Len(s) + 1) <= Len(data)
  PROVE  SubSeq(SubSeq(data, q + 1, q + (Len(s) + 1)), 1, Len(s)) = s
<1>1. Len(s) \in Nat /\ Len(data) \in Nat
  OBVIOUS
<1> DEFINE u == SubSeq(data, q + 1, q + (Len(s) + 1))
           t == SubSeq(u, 1, Len(s))
<1>2. u \in Seq(Byte) /\ Len(u) = Len(s) + 1
  BY <1>1
<1>3. \A k \in 1..Len(s) + 1 : u[k] = data[q + k]
  BY <1>1
<1> HIDE DEF u
<1>4. t \in Seq(Byte) /\ Len(t) = Len(s)
  BY <1>1, <1>2
<1>5. \A k \in 1..Len(s) : t[k] = u[k]
  BY <1>1, <1>2
<1>6. \A k \in 1..Len(s) : t[k] = s[k]
  BY <1>1, <1>3, <1>5 DEF Holds
<1> HIDE DEF t
<1>7. t = s
  BY <1>4, <1>6
<1> QED
  BY <1>7 DEF t, u

LEMMA TypedValues ==
  /\ WordMod \in Nat /\ Half \in Nat
  /\ \A v \in Values["u32"] : v \in Nat /\ v < WordMod
  /\ \A v \in Values["i32"] : v \in Int /\ -Half <= v /\ v < Half
  /\ \A v \in Values["fixed"] : v \in Int /\ -WordMod <= v /\ v <= WordMod - 2
<1>1. WordMod \in Nat /\ Half \in Nat
  BY WordModIs DEF Half
<1> QED
  BY <1>1, ValuesAssumption DEF Word

\* A string or an array: the length, the bytes, the padding.
LEMMA StringBack ==
  ASSUME data \in Seq(Byte), NEW p \in Nat, NEW s \in Seq(Byte), Len(s) + 1 < WordMod,
         Holds(p, String(s))
  PROVE  ReadString(p) = Something(p + Len(String(s)), s)
<1> DEFINE n == Len(s) + 1
           word == U32(n)
           zeroes == Zeroes(Padding(n))
<1>1. n \in Nat /\ n < WordMod /\ n # 0 /\ Len(data) \in Nat /\ Len(s) \in Nat
  BY WordModIs
<1>2. word \in Seq(Byte) /\ Len(word) = 4
  <2> HIDE DEF n
  <2> QED BY <1>1, WordBytes
<1>3. zeroes \in Seq(Byte) /\ Len(zeroes) = Padding(n) /\ Padding(n) \in Nat
  <2> HIDE DEF n
  <2>1. Padding(n) \in Nat
    BY <1>1, PaddingIs
  <2> QED BY <2>1, Bytes, Zenon
<1>4. String(s) = ((word \o s) \o <<0>>) \o zeroes
  BY DEF String
<1> HIDE DEF word, zeroes
<1>5. /\ word \o s \in Seq(Byte) /\ Len(word \o s) = 4 + Len(s)
      /\ (word \o s) \o <<0>> \in Seq(Byte) /\ Len((word \o s) \o <<0>>) = 4 + n
      /\ Len(String(s)) = 4 + n + Padding(n)
  <2>0. word \o s \in Seq(Byte) /\ Len(word \o s) = Len(word) + Len(s)
    BY <1>2, Joined, Zenon
  <2>1. word \o s \in Seq(Byte) /\ Len(word \o s) = 4 + Len(s)
    BY <1>2, <2>0
  <2>2. (word \o s) \o <<0>> \in Seq(Byte)
        /\ Len((word \o s) \o <<0>>) = 4 + Len(s) + 1
    BY <2>1, Bytes
  <2>3. Len(String(s)) = Len((word \o s) \o <<0>>) + Len(zeroes)
    BY <1>3, <1>4, <2>2, Joined, Zenon
  <2> QED BY <1>1, <1>3, <2>1, <2>2, <2>3
<1>6. Holds(p, word) /\ Holds(p + 4, s)
  <2>0. PICK x \in Seq(Byte) : x = (word \o s) \o <<0>>
    BY <1>5, Zenon
  <2>a. Holds(p, x \o zeroes)
    BY <1>4, <2>0, Zenon
  <2>b. Holds(p, x)
    BY <1>3, <2>a, HoldsParts
  <2>1. Holds(p, (word \o s) \o <<0>>)
    BY <2>0, <2>b, Zenon
  <2>2. Holds(p, word \o s)
    BY <1>5, <2>1, Bytes, HoldsParts
  <2> QED BY <1>2, <2>2, HoldsParts
<1>7. ReadU32(p) = Something(p + 4, n)
  <2> HIDE DEF n
  <2> QED BY <1>1, <1>6, U32Back DEF word
<1>8. p + 4 + n + Padding(n) <= Len(data) /\ p + 4 \in Nat
  BY <1>1, <1>3, <1>5 DEF Holds
<1>9. Take(p + 4, n) = Something(p + 4 + n + Padding(n), SubSeq(data, p + 4 + 1, p + 4 + n))
  <2> HIDE DEF n
  <2> QED BY <1>1, <1>8, TakeBack
<1>10. SubSeq(SubSeq(data, p + 4 + 1, p + 4 + n), 1, n - 1) = s
  <2>1. p + 4 + (Len(s) + 1) <= Len(data) /\ n - 1 = Len(s)
    BY <1>1, <1>3, <1>8
  <2>2. SubSeq(SubSeq(data, p + 4 + 1, p + 4 + (Len(s) + 1)), 1, Len(s)) = s
    BY <1>6, <1>8, <2>1, FrontBack
  <2> QED BY <2>1, <2>2
<1>11. ReadString(p) = Something(p + 4 + n + Padding(n), s)
  <2> HIDE DEF n
  <2> DEFINE taken == Take(p + 4, n)
             end == p + 4 + n + Padding(n)
  <2>1. ReadU32(p).ok /\ ReadU32(p).pos = p + 4 /\ ReadU32(p).value = n
    BY <1>7 DEF Something
  <2>2. taken.ok /\ taken.pos = end /\ SubSeq(taken.value, 1, n - 1) = s
    <3> DEFINE part == SubSeq(data, p + 4 + 1, p + 4 + n)
    <3>1. taken = Something(end, part) /\ SubSeq(part, 1, n - 1) = s
      BY <1>9, <1>10
    <3> HIDE DEF part, taken, end
    <3>2. taken.ok /\ taken.pos = end /\ taken.value = part
      BY <3>1 DEF Something
    <3> QED BY <3>1, <3>2, Zenon
  <2> HIDE DEF end
  <2>3. ReadString(p) = Something(taken.pos, SubSeq(taken.value, 1, n - 1))
    BY <1>1, <2>1, <2>2, Zenon DEF ReadString
  <2> QED BY <2>2, <2>3, Zenon DEF end
<1>12. p + 4 + n + Padding(n) = p + Len(String(s))
  BY <1>1, <1>3, <1>5
<1> QED
  BY <1>11, <1>12

LEMMA ArrayBack ==
  ASSUME data \in Seq(Byte), NEW p \in Nat, NEW s \in Seq(Byte), Len(s) < WordMod,
         Holds(p, Array(s))
  PROVE  ReadArray(p) = Something(p + Len(Array(s)), s)
<1> DEFINE n == Len(s)
           word == U32(n)
           zeroes == Zeroes(Padding(n))
<1>1. n \in Nat /\ n < WordMod /\ Len(data) \in Nat
  OBVIOUS
<1>2. word \in Seq(Byte) /\ Len(word) = 4
  <2> HIDE DEF n
  <2> QED BY <1>1, WordBytes
<1>3. zeroes \in Seq(Byte) /\ Len(zeroes) = Padding(n) /\ Padding(n) \in Nat
  <2> HIDE DEF n
  <2>1. Padding(n) \in Nat
    BY <1>1, PaddingIs
  <2> QED BY <2>1, Bytes, Zenon
<1>4. Array(s) = (word \o s) \o zeroes
  BY DEF Array
<1> HIDE DEF word, zeroes
<1>5. /\ word \o s \in Seq(Byte) /\ Len(word \o s) = 4 + n
      /\ Len(Array(s)) = 4 + n + Padding(n)
  <2>0. word \o s \in Seq(Byte) /\ Len(word \o s) = Len(word) + Len(s)
    BY <1>2, Joined, Zenon
  <2>1. word \o s \in Seq(Byte) /\ Len(word \o s) = 4 + Len(s)
    BY <1>2, <2>0
  <2>2. Len(Array(s)) = Len(word \o s) + Len(zeroes)
    BY <1>3, <1>4, <2>1, Joined, Zenon
  <2> QED BY <1>1, <1>3, <2>1, <2>2
<1>6. Holds(p, word) /\ Holds(p + 4, s)
  <2>0. Holds(p, (word \o s) \o zeroes)
    BY <1>4
  <2>1. Holds(p, word \o s)
    BY <1>3, <1>5, <2>0, HoldsParts, Zenon
  <2> QED BY <1>2, <2>1, HoldsParts
<1>7. ReadU32(p) = Something(p + 4, n)
  <2> HIDE DEF n
  <2> QED BY <1>1, <1>6, U32Back DEF word
<1>8. p + 4 + n + Padding(n) <= Len(data) /\ p + 4 \in Nat
  BY <1>1, <1>3, <1>5 DEF Holds
<1>9. Take(p + 4, n) = Something(p + 4 + n + Padding(n), SubSeq(data, p + 4 + 1, p + 4 + n))
  <2> HIDE DEF n
  <2> QED BY <1>1, <1>8, TakeBack
<1>10. SubSeq(data, p + 4 + 1, p + 4 + n) = s
  BY <1>6, <1>8, SubSeqBack
<1>11. ReadArray(p) = Something(p + 4 + n + Padding(n), s)
  <2> HIDE DEF n
  <2>1. ReadU32(p).ok /\ ReadU32(p).pos = p + 4 /\ ReadU32(p).value = n
    BY <1>7 DEF Something
  <2>2. ReadArray(p) = Take(p + 4, n)
    BY <2>1, Zenon DEF ReadArray
  <2> QED BY <1>9, <1>10, <2>2, Zenon
<1>12. p + 4 + n + Padding(n) = p + Len(Array(s))
  BY <1>1, <1>3, <1>5
<1> QED
  BY <1>11, <1>12

(***************************************************************************)
(* Wherever in a message the bytes of an argument stand, the reader asked  *)
(* for its type there takes all of them and gives the value back: two's    *)
(* complement, the NUL of a string and the paddings included. (Reader)     *)
(***************************************************************************)
THEOREM ArgumentBack ==
  ASSUME data \in Seq(Byte), NEW p \in Nat, NEW type \in Types, NEW v \in Values[type],
         Holds(p, Marshal(type, v))
  PROVE  Read(type, p) = Something(p + Len(Marshal(type, v)), Expected(<<type, v>>))
<1>0. Expected(<<type, v>>) = IF type = "fixed" THEN 2 * Truncated(v) ELSE v
  BY DEF Expected
<1>1. CASE type = "u32"
  <2>1. v \in Nat /\ v < WordMod /\ Marshal(type, v) = U32(v)
        /\ Read(type, p) = ReadU32(p)
    BY <1>1, TypedValues DEF Marshal, Read
  <2>2. Len(U32(v)) = 4 /\ ReadU32(p) = Something(p + 4, v)
    BY <2>1, WordBytes, U32Back
  <2> QED BY <1>0, <1>1, <2>1, <2>2
<1>2. ASSUME NEW i \in Int, -Half <= i, i < Half PROVE Len(I32(i)) = 4
  BY <1>2, SignedBack, WordBytes DEF I32
<1>3. CASE type = "i32"
  <2>1. /\ v \in Int /\ -Half <= v /\ v < Half
        /\ Marshal(type, v) = I32(v) /\ Read(type, p) = ReadI32(p)
    BY <1>3, TypedValues DEF Marshal, Read
  <2>2. Len(I32(v)) = 4 /\ ReadI32(p) = Something(p + 4, v)
    BY <1>2, <2>1, I32Back
  <2> QED BY <1>0, <1>3, <2>1, <2>2
<1>4. CASE type = "fixed"
  <2>1. /\ v \in Int /\ -WordMod <= v /\ v <= WordMod - 2
        /\ Marshal(type, v) = I32(Truncated(v)) /\ Read(type, p) = ReadFixed(p)
    BY <1>4, TypedValues DEF Marshal, Fixed, Read
  <2>2. PICK t : t = Truncated(v)
    OBVIOUS
  <2>3. t \in Int /\ -Half <= t /\ t < Half
    BY <2>1, <2>2, TruncatedIs
  <2>4. Holds(p, I32(t))
    BY <2>1, <2>2
  <2>5. Len(I32(t)) = 4 /\ ReadI32(p) = Something(p + 4, t)
    BY <1>2, <2>3, <2>4, I32Back
  <2>6. ReadFixed(p) = Something(p + 4, 2 * t)
    BY <2>5 DEF ReadFixed, Something
  <2> QED BY <1>0, <1>4, <2>1, <2>2, <2>5, <2>6
<1>5. CASE type = "string"
  <2>1. /\ v \in Seq(Byte) /\ Len(v) + 1 < WordMod
        /\ Marshal(type, v) = String(v) /\ Read(type, p) = ReadString(p)
    BY <1>5, ValuesAssumption DEF Marshal, Read
  <2>2. ReadString(p) = Something(p + Len(String(v)), v)
    BY <2>1, StringBack
  <2> QED BY <1>0, <1>5, <2>1, <2>2
<1>6. CASE type = "array"
  <2>1. /\ v \in Seq(Byte) /\ Len(v) < WordMod
        /\ Marshal(type, v) = Array(v) /\ Read(type, p) = ReadArray(p)
    <3>1. v \in Seq(Byte) /\ Len(v) + 1 < WordMod
      BY <1>6, ValuesAssumption
    <3>2. Len(v) \in Nat /\ WordMod \in Nat
      BY <3>1, WordModIs
    <3>3. Marshal(type, v) = Array(v) /\ Read(type, p) = ReadArray(p)
      BY <1>6 DEF Marshal, Read
    <3> QED BY <3>1, <3>2, <3>3
  <2>2. ReadArray(p) = Something(p + Len(Array(v)), v)
    BY <2>1, ArrayBack
  <2> QED BY <1>0, <1>6, <2>1, <2>2
<1> QED
  BY <1>1, <1>3, <1>4, <1>5, <1>6 DEF Types

----------------------------------------------------------------------------
(* The invariant.                                                          *)

Inv == TypeOK /\ ReaderStaysInside /\ Aligned /\ FramedWhole

LEMMA InvInit == Init => Inv
<1> SUFFICES ASSUME Init PROVE Inv
  OBVIOUS
<1>1. body \in Seq(Byte) /\ data \in Seq(Byte) /\ body = <<>> /\ args = <<>>
      /\ pos = 0
  BY CodecAssumption, Bytes DEF Init
<1>2. stage \in {"writing", "reading", "failed"} /\ Len(data) \in Nat
  BY <1>1 DEF Init
<1> QED
  BY <1>1, <1>2 DEF Inv, TypeOK, ReaderStaysInside, Aligned, FramedWhole

LEMMA WriteKeeps ==
  ASSUME Inv, NEW type \in Types, NEW v \in Values[type], Write(type, v) PROVE Inv'
<1>1. body' \in Seq(Byte)
  <2>1. Marshal(type, v) \in Seq(Byte)
    BY MarshalIs
  <2> QED BY <2>1, Bytes DEF Inv, TypeOK, Write
<1>2. stage = "writing" /\ stage' = stage /\ data' = data /\ pos' = pos
  BY DEF Write
<1> QED
  BY <1>1, <1>2 DEF Inv, TypeOK, ReaderStaysInside, Aligned, FramedWhole

LEMMA FrameKeeps ==
  ASSUME Inv, Frame, pos = 0 PROVE Inv'
<1> DEFINE size == ParseHeader(WriteHeader(1, 0, FramedSize) \o body).size
           n == 8 + Len(body)
<1>1. body \in Seq(Byte) /\ n \in Nat /\ n >= 8 /\ SizeMod \in Nat /\ SizeMod > 8
  BY BaseIs DEF Inv, TypeOK
<1>2. FramedSize \in Nat /\ FramedSize < SizeMod /\ FramedSize <= n
      /\ (n < SizeMod => FramedSize = n)
  <2>0. FramedSize = n % SizeMod
    BY DEF FramedSize
  <2>1. n % SizeMod \in Nat /\ n % SizeMod < SizeMod
    BY <1>1, Divides
  <2>2. n \div SizeMod \in Nat /\ n = SizeMod * (n \div SizeMod) + (n % SizeMod)
    BY <1>1, Divides
  <2>3. n % SizeMod <= n
    <3> DEFINE x == SizeMod * (n \div SizeMod)
               m == n % SizeMod
    <3>1. x \in Nat /\ m \in Nat /\ n = x + m
      BY <1>1, <2>1, <2>2
    <3> HIDE DEF x, m, n
    <3>2. m <= n
      BY <1>1, <3>1
    <3> QED BY <3>2 DEF m
  <2>4. n < SizeMod => n % SizeMod = n
    <3> HIDE DEF n
    <3> QED BY <1>1
  <2> QED BY <2>0, <2>1, <2>3, <2>4
<1>3. size = FramedSize
  <2>1. FramedSize \in 0..(SizeMod - 1)
    BY <1>1, <1>2
  <2> QED BY <1>1, <2>1, FrameHeader
<1>4. stage' \in {"failed", "reading"} /\ args' = args /\ body' = body /\ pos' = pos
  BY DEF Frame
<1>5. data' \in Seq(Byte) /\ (n < SizeMod <=> data' = body)
  <2>1. CASE size < 8
    <3>1. data' = <<>> /\ ~(n < SizeMod)
      BY <1>1, <1>2, <1>3, <2>1 DEF Frame
    <3>2. Len(body) > 0
      BY <1>1, <3>1
    <3> QED BY <3>1, <3>2, Bytes
  <2>2. CASE ~(size < 8)
    <3>1. data' = SubSeq(body, 1, FramedSize - 8)
      BY <1>3, <2>2 DEF Frame
    <3>2. FramedSize - 8 \in Nat /\ FramedSize - 8 <= Len(body)
      BY <1>1, <1>2, <1>3, <2>2
    <3>3. data' \in Seq(Byte) /\ Len(data') = FramedSize - 8
      BY <1>1, <3>1, <3>2
    <3>4. CASE n < SizeMod
      <4>1. data' = SubSeq(body, 1, Len(body))
        BY <1>1, <1>2, <3>1, <3>4
      <4>2. SubSeq(body, 1, Len(body)) = body
        BY <1>1
      <4> QED BY <3>3, <3>4, <4>1, <4>2
    <3>5. CASE ~(n < SizeMod)
      <4>1. Len(data') # Len(body)
        BY <1>1, <1>2, <3>3, <3>5
      <4> QED BY <3>3, <3>5, <4>1
    <3> QED BY <3>4, <3>5
  <2> QED BY <2>1, <2>2
<1>6. Len(data') \in Nat
  BY <1>5
<1>7. TypeOK' /\ ReaderStaysInside' /\ Aligned'
  BY <1>1, <1>4, <1>5, <1>6 DEF TypeOK, ReaderStaysInside, Aligned
<1>8. FramedWhole'
  BY <1>4, <1>5 DEF FramedWhole, Fits
<1> QED
  BY <1>7, <1>8 DEF Inv

LEMMA ReadKeeps ==
  ASSUME Inv, NEW type \in Types, ReadArgument(type) PROVE Inv'
<1> DEFINE r == Read(type, pos)
<1>1. /\ data \in Seq(Byte) /\ pos \in Nat /\ pos <= Len(data) /\ stage = "reading"
      /\ pos % 4 = 0 \/ pos = Len(data)
  BY DEF Inv, TypeOK, ReaderStaysInside, Aligned, ReadArgument
<1>2. Reads(r, pos)
  BY <1>1, ReadIs
<1>3. /\ pos' = r.pos /\ data' = data /\ body' = body /\ args' = args
      /\ stage' = IF r.ok THEN "reading" ELSE "failed"
  BY DEF ReadArgument
<1> HIDE DEF r
<1>4. TypeOK' /\ ReaderStaysInside'
  BY <1>2, <1>3 DEF Inv, TypeOK, ReaderStaysInside, Reads
<1>5. Aligned'
  <2> SUFFICES ASSUME r.ok PROVE pos' % 4 = 0 \/ pos' = Len(data)
    BY <1>3 DEF Aligned
  <2>1. CASE pos % 4 = 0
    BY <1>2, <1>3, <2>1 DEF Reads
  <2>2. CASE pos = Len(data)
    BY <1>1, <1>2, <1>3, <2>2 DEF Reads
  <2> QED BY <1>1, <2>1, <2>2
<1>6. FramedWhole'
  BY <1>1, <1>3 DEF Inv, FramedWhole, Fits
<1> QED
  BY <1>4, <1>5, <1>6 DEF Inv

\* Nothing is read before the message is there.
Unread == stage = "writing" => pos = 0

LEMMA UnreadStep ==
  Inv /\ Unread /\ [Next]_vars => Inv' /\ Unread'
<1> SUFFICES ASSUME Inv, Unread, [Next]_vars PROVE Inv' /\ Unread'
  OBVIOUS
<1>1. ASSUME NEW type \in Types, NEW v \in Values[type], Write(type, v)
      PROVE  Inv' /\ Unread'
  BY <1>1, WriteKeeps DEF Write, Unread
<1>2. CASE Frame
  <2>1. pos = 0 /\ stage' # "writing"
    BY <1>2 DEF Frame, Unread
  <2> QED BY <1>2, <2>1, FrameKeeps DEF Unread
<1>3. ASSUME NEW type \in Types, ReadArgument(type) PROVE Inv' /\ Unread'
  <2>1. stage' # "writing"
    BY <1>3 DEF ReadArgument
  <2> QED BY <1>3, <2>1, ReadKeeps DEF Unread
<1>4. CASE UNCHANGED vars
  BY <1>4 DEF vars, Inv, TypeOK, ReaderStaysInside, Aligned, FramedWhole,
     Fits, Unread
<1> QED
  BY <1>1, <1>2, <1>3, <1>4 DEF Next

THEOREM Invariance == Spec => []Inv
<1>1. Init => Inv /\ Unread
  BY InvInit DEF Init, Unread
<1> QED
  BY <1>1, UnreadStep, PTL DEF Spec

----------------------------------------------------------------------------
(* The arguments lie one behind the other in the buffer, each from one cut *)
(* to the next, and the reader stands at the cut behind those it has read. *)

Argument == UNION {{<<type, v>> : v \in Values[type]} : type \in Types}
Written(k) == Marshal(args[k][1], args[k][2])

Laid(cut) ==
  /\ cut[0] = 0 /\ cut[Len(args)] = Len(body)
  /\ \A k \in 1..Len(args) :
       /\ cut[k] = cut[k - 1] + Len(Written(k)) /\ cut[k] <= Len(body)
       /\ \A j \in 1..Len(Written(k)) : body[cut[k - 1] + j] = Written(k)[j]

ReadTo(cut) ==
  args # <<>> /\ Fits /\ stage # "writing" =>
    /\ stage = "reading" /\ data = body
    /\ \E n \in 0..Len(args) :
         got = [k \in 1..n |-> Expected(args[k])] /\ pos = cut[n]

Untouched == stage = "writing" => got = <<>> /\ pos = 0

Back ==
  /\ args \in Seq(Argument) /\ Untouched
  /\ \E cut \in [Nat -> Nat] : Laid(cut) /\ ReadTo(cut)

LEMMA ArgumentIs ==
  ASSUME NEW a \in Argument
  PROVE  a[1] \in Types /\ a[2] \in Values[a[1]] /\ a = <<a[1], a[2]>>
<1>1. PICK type \in Types : \E v \in Values[type] : a = <<type, v>>
  BY DEF Argument
<1>2. PICK v \in Values[type] : a = <<type, v>>
  BY <1>1
<1> QED
  BY <1>2

LEMMA WrittenIs ==
  ASSUME args \in Seq(Argument), NEW k \in 1..Len(args)
  PROVE  Written(k) \in Seq(Byte) /\ Len(Written(k)) \in Nat
<1>1. args[k] \in Argument
  OBVIOUS
<1>2. Written(k) \in Seq(Byte)
  BY <1>1, ArgumentIs, MarshalIs DEF Written
<1> QED
  BY <1>2

LEMMA BackInit == Init => Back
<1> SUFFICES ASSUME Init PROVE Back
  OBVIOUS
<1>1. args = <<>> /\ body = <<>> /\ got = <<>> /\ pos = 0
  BY DEF Init
<1>2. PICK cut \in [Nat -> Nat] : cut = [n \in Nat |-> 0]
  OBVIOUS
<1>3. Len(args) = 0 /\ Len(body) = 0 /\ args \in Seq(Argument)
  BY <1>1
<1>4. Laid(cut)
  BY <1>2, <1>3 DEF Laid
<1>5. ReadTo(cut) /\ Untouched
  BY <1>1 DEF ReadTo, Untouched
<1> QED
  BY <1>3, <1>4, <1>5 DEF Back

LEMMA WriteBack ==
  ASSUME Inv, Back, NEW type \in Types, NEW v \in Values[type], Write(type, v)
  PROVE  Back'
<1> DEFINE arg == <<type, v>>
           m == Marshal(type, v)
<1>1. PICK cut \in [Nat -> Nat] : Laid(cut)
  BY DEF Back
<1>a. args \in Seq(Argument) /\ body \in Seq(Byte)
  BY DEF Inv, TypeOK, Back
<1>b. PICK n \in Nat : n = Len(args)
  <2>1. Len(args) \in Nat
    BY <1>a
  <2> QED BY <2>1, Zenon
<1>2. args \in Seq(Argument) /\ body \in Seq(Byte) /\ n = Len(args)
      /\ Len(body) \in Nat
  BY <1>a, <1>b
<1>3. m \in Seq(Byte) /\ Len(m) \in Nat
  <2>1. m \in Seq(Byte)
    BY MarshalIs
  <2> QED BY <2>1
<1>4. arg \in Argument
  BY DEF Argument
<1>5. /\ args' = Append(args, arg) /\ body' = body \o m
      /\ stage = "writing" /\ stage' = stage /\ got' = got /\ pos' = pos
  BY DEF Write
<1> HIDE DEF m, arg
<1>6. /\ args' \in Seq(Argument) /\ Len(args') = n + 1
      /\ args'[n + 1] = arg /\ \A k \in 1..n : args'[k] = args[k]
  BY <1>2, <1>4, <1>5
<1>7. Len(body') = Len(body) + Len(m)
  BY <1>2, <1>3, <1>5, Joined
<1>8. PICK new \in [Nat -> Nat] : new = [cut EXCEPT ![n + 1] = Len(body) + Len(m)]
  <2> DEFINE end == Len(body) + Len(m)
  <2>1. end \in Nat
    BY <1>2, <1>3
  <2> HIDE DEF end
  <2>2. [cut EXCEPT ![n + 1] = end] \in [Nat -> Nat]
    BY <2>1
  <2> QED BY <2>2 DEF end
<1>9. /\ new[n + 1] = Len(body') /\ \A k \in 0..n : new[k] = cut[k]
  BY <1>2, <1>7, <1>8
<1>10. Written(n + 1)' = m /\ \A k \in 1..n : Written(k)' = Written(k)
  <2>1. Written(n + 1)' = m
    <3>1. args'[n + 1][1] = type /\ args'[n + 1][2] = v
      BY <1>6 DEF arg
    <3>2. Marshal(args'[n + 1][1], args'[n + 1][2]) = Marshal(type, v)
      BY <3>1
    <3> QED BY <3>2 DEF Written, m
  <2>2. ASSUME NEW k \in 1..n PROVE Written(k)' = Written(k)
    BY <1>6, <2>2 DEF Written
  <2> QED BY <2>1, <2>2
<1>11. Laid(new)'
  <2>1. new[0] = 0 /\ new[Len(args')] = Len(body')
    BY <1>1, <1>2, <1>6, <1>9 DEF Laid
  <2>2. ASSUME NEW k \in 1..Len(args')
        PROVE  /\ new[k] = new[k - 1] + Len(Written(k)') /\ new[k] <= Len(body')
               /\ \A j \in 1..Len(Written(k)') :
                    body'[new[k - 1] + j] = (Written(k)')[j]
    <3>1. CASE k = n + 1
      <4>0. k - 1 = n /\ n \in 0..n
        BY <3>1
      <4>1. new[k - 1] = Len(body) /\ Written(k)' = m
        BY <1>1, <1>2, <1>9, <1>10, <3>1, <4>0 DEF Laid
      <4>2. \A j \in 1..Len(m) : body'[Len(body) + j] = m[j]
        BY <1>2, <1>3, <1>5, SecondPart
      <4>3. new[k] = Len(body) + Len(m)
        BY <1>7, <1>9, <3>1
      <4>4. new[k] <= Len(body')
        BY <1>2, <1>3, <1>7, <4>3
      <4> QED BY <4>1, <4>2, <4>3, <4>4
    <3>2. CASE k # n + 1
      <4>0. Len(args') = n + 1
        BY <1>6, Zenon
      <4>a. k \in 1..(n + 1)
        BY <4>0, Zenon
      <4>1. k \in 1..n /\ k - 1 \in 0..n /\ k \in 0..n
        BY <4>a, <3>2
      <4>2. PICK w : w = Written(k)
        OBVIOUS
      <4>3. Written(k)' = w /\ new[k] = cut[k] /\ new[k - 1] = cut[k - 1]
        BY <1>9, <1>10, <4>1, <4>2
      <4>4. w \in Seq(Byte) /\ Len(w) \in Nat
        BY <1>2, <4>1, <4>2, WrittenIs
      <4>5. /\ cut[k] = cut[k - 1] + Len(w) /\ cut[k] <= Len(body)
            /\ \A j \in 1..Len(w) : body[cut[k - 1] + j] = w[j]
        BY <1>1, <1>2, <4>1, <4>2 DEF Laid
      <4>6. cut[k] \in Nat /\ cut[k - 1] \in Nat
        <5>1. k \in Nat /\ k - 1 \in Nat
          BY <4>1
        <5> QED BY <5>1
      <4>7. \A j \in 1..Len(w) : body'[cut[k - 1] + j] = w[j]
        <5> TAKE j \in 1..Len(w)
        <5>1. cut[k - 1] + j \in 1..Len(body)
          <6>1. j \in Nat /\ 1 <= j /\ j <= Len(w)
            BY <4>4
          <6>2. PICK c \in Nat : c = cut[k - 1]
            BY <4>6
          <6>3. c + j <= c + Len(w) /\ c + Len(w) <= Len(body)
            BY <4>4, <4>5, <6>1, <6>2
          <6>4. Len(body) \in Nat /\ Len(w) \in Nat
            BY <1>2, <4>4
          <6>5. c + j \in 1..Len(body)
            BY <6>1, <6>3, <6>4
          <6> QED BY <6>2, <6>5, Zenon
        <5>2. body'[cut[k - 1] + j] = body[cut[k - 1] + j]
          BY <1>2, <1>3, <1>5, <5>1, FirstPart
        <5> QED BY <4>5, <5>2
      <4>8. cut[k] <= Len(body')
        <5>1. PICK c \in Nat : c = cut[k]
          BY <4>6
        <5>2. c <= Len(body)
          BY <4>5, <5>1
        <5> QED BY <1>2, <1>3, <1>7, <5>1, <5>2
      <4> QED BY <4>3, <4>5, <4>7, <4>8
    <3> QED BY <3>1, <3>2
  <2> QED BY <2>1, <2>2 DEF Laid
<1>12. ReadTo(new)' /\ Untouched'
  BY <1>5 DEF ReadTo, Untouched, Back
<1> QED
  BY <1>6, <1>11, <1>12 DEF Back

\* A message that fits is framed and read, never given up.
LEMMA FitsIsFramed ==
  ASSUME Inv, Frame, Fits PROVE stage' = "reading"
<1> DEFINE n == 8 + Len(body)
<1>1. body \in Seq(Byte) /\ n \in Nat /\ n >= 8 /\ n < SizeMod /\ SizeMod \in Nat
  BY BaseIs DEF Inv, TypeOK, Fits
<1>2. FramedSize = n
  <2>1. FramedSize = n % SizeMod
    BY DEF FramedSize
  <2> HIDE DEF n
  <2> QED BY <1>1, <2>1
<1>3. ParseHeader(WriteHeader(1, 0, FramedSize) \o body).size = FramedSize
  <2>1. FramedSize \in 0..(SizeMod - 1)
    BY <1>1, <1>2
  <2> QED BY <1>1, <2>1, FrameHeader
<1>4. ~(ParseHeader(WriteHeader(1, 0, FramedSize) \o body).size < 8)
  BY <1>1, <1>2, <1>3
<1> QED
  BY <1>4 DEF Frame

LEMMA FrameBack ==
  ASSUME Inv, Inv', Back, Frame PROVE Back'
<1>1. PICK cut \in [Nat -> Nat] : Laid(cut)
  BY DEF Back
<1>2. args' = args /\ body' = body /\ got' = got /\ pos' = pos /\ stage = "writing"
  BY DEF Frame
<1>3. args \in Seq(Argument) /\ got = <<>> /\ pos = 0
  BY <1>2 DEF Back, Untouched
<1>4. Laid(cut)'
  BY <1>1, <1>2 DEF Laid, Written
<1>5. stage' # "writing"
  BY DEF Frame
<1>6. ReadTo(cut)'
  <2> SUFFICES ASSUME args # <<>>, Fits
               PROVE  /\ stage' = "reading" /\ data' = body
                      /\ \E n \in 0..Len(args) :
                           got = [k \in 1..n |-> Expected(args[k])] /\ pos = cut[n]
    BY <1>2 DEF ReadTo, Fits
  <2>1. stage' = "reading"
    BY FitsIsFramed
  <2>2. data' = body
    BY <1>2, <1>5 DEF Inv, FramedWhole, Fits
  <2>3. cut[0] = 0 /\ 0 \in 0..Len(args)
    BY <1>1, <1>3 DEF Laid
  <2>4. got = [k \in 1..0 |-> Expected(args[k])]
    BY <1>3
  <2> QED BY <1>3, <2>1, <2>2, <2>3, <2>4
<1> QED
  BY <1>2, <1>3, <1>4, <1>5, <1>6 DEF Back, Untouched

\* A sequence that has one entry more than another is that with it appended.
LEMMA OneMore ==
  ASSUME NEW S, NEW f \in Seq(S), NEW g \in Seq(S), Len(g) = Len(f) + 1,
         \A k \in 1..Len(f) : g[k] = f[k]
  PROVE  g = Append(f, g[Len(g)])
<1>1. Len(f) \in Nat /\ Len(g) \in 1..Len(g)
  OBVIOUS
<1>2. PICK x \in S : x = g[Len(g)]
  BY <1>1
<1>3. PICK h : h = Append(f, x) /\ h \in Seq(S)
  <2>1. Append(f, x) \in Seq(S)
    OBVIOUS
  <2> QED BY <2>1
<1>4. h \in Seq(S) /\ Len(h) = Len(f) + 1 /\ h[Len(f) + 1] = x
      /\ \A k \in 1..Len(f) : h[k] = f[k]
  BY <1>1, <1>3
<1>5. h = g
  <2>1. \A k \in 1..Len(h) : h[k] = g[k]
    <3> TAKE k \in 1..Len(h)
    <3>1. k \in 1..Len(f) \/ k = Len(f) + 1
      BY <1>1, <1>4
    <3> QED BY <1>2, <1>4, <3>1
  <2> QED BY <1>4, <2>1
<1> QED
  BY <1>2, <1>3, <1>5

LEMMA ReadBack ==
  ASSUME Inv, Back, NEW type \in Types, ReadArgument(type) PROVE Back'
<1>1. PICK cut \in [Nat -> Nat] : Laid(cut) /\ ReadTo(cut)
  BY DEF Back
<1>2. /\ args' = args /\ body' = body /\ data' = data
      /\ stage = "reading" /\ stage' # "writing"
  BY DEF ReadArgument
<1>3. args \in Seq(Argument) /\ body \in Seq(Byte) /\ data \in Seq(Byte)
  BY DEF Inv, TypeOK, Back
<1>4. Laid(cut)'
  BY <1>1, <1>2 DEF Laid, Written
<1>5. ASSUME args # <<>>, Fits
      PROVE  /\ stage' = "reading" /\ data = body
             /\ \E n \in 0..Len(args) :
                  got' = [k \in 1..n |-> Expected(args[k])] /\ pos' = cut[n]
  <2>1. data = body
    BY <1>1, <1>2, <1>5 DEF ReadTo
  <2>2. PICK n \in 0..Len(args) :
          got = [k \in 1..n |-> Expected(args[k])] /\ pos = cut[n]
    BY <1>1, <1>2, <1>5 DEF ReadTo
  <2> DEFINE S == {Expected(args[k]) : k \in 1..Len(args)}
             f == [k \in 1..n |-> Expected(args[k])]
             g == [k \in 1..n + 1 |-> Expected(args[k])]
  <2>3. Len(args) \in Nat /\ n \in Nat
    BY <1>3
  <2>4. f \in [1..n -> S]
    BY <2>3
  <2>5. got = f /\ Len(got) = n
    <3>1. Len(f) = n
      <4> HIDE DEF f, S
      <4> QED BY <2>3, <2>4
    <3> QED BY <2>2, <3>1
  <2>6. n < Len(args) /\ type = args[n + 1][1]
    BY <1>5, <2>5 DEF ReadArgument
  <2>7. n + 1 \in 1..Len(args) /\ n + 1 \in 0..Len(args)
    <3>1. PICK m \in Nat : m = Len(args)
      BY <2>3
    <3>2. n < m
      BY <2>6, <3>1
    <3> QED BY <2>3, <3>1, <3>2
  <2>8. g \in [1..n + 1 -> S] /\ \A k \in 1..n : g[k] = f[k]
    <3>1. \A k \in 1..n + 1 : k \in 1..Len(args)
      BY <2>3, <2>7
    <3>2. \A k \in 1..n + 1 : Expected(args[k]) \in S
      BY <3>1
    <3>3. g \in [1..n + 1 -> S]
      <4> HIDE DEF S
      <4> QED BY <3>2
    <3>4. \A k \in 1..n : k \in 1..n + 1
      BY <2>3
    <3> QED BY <3>3, <3>4
  <2>9. g[n + 1] = Expected(args[n + 1])
    BY <2>3
  <2>10. PICK v : v = args[n + 1][2]
    OBVIOUS
  <2>11. args[n + 1] = <<type, v>> /\ v \in Values[type]
         /\ Written(n + 1) = Marshal(type, v)
    <3>1. args[n + 1] \in Argument
      BY <1>3, <2>7
    <3> QED BY <2>6, <2>10, <3>1, ArgumentIs DEF Written
  <2>12. pos = cut[n] /\ cut[n] \in Nat
    BY <2>2, <2>3
  <2>13. cut[n + 1] = cut[n] + Len(Marshal(type, v))
         /\ Holds(cut[n], Marshal(type, v))
    <3>1. PICK w : w = Marshal(type, v)
      OBVIOUS
    <3>2. (n + 1) - 1 = n
      BY <2>3
    <3>3. /\ cut[n + 1] = cut[n] + Len(w) /\ cut[n + 1] <= Len(body)
          /\ \A j \in 1..Len(w) : body[cut[n] + j] = w[j]
      BY <1>1, <2>7, <2>11, <3>1, <3>2 DEF Laid
    <3>4. Holds(cut[n], w)
      BY <2>1, <3>3 DEF Holds
    <3> QED BY <3>1, <3>3, <3>4
  <2>14. Read(type, pos) = Something(cut[n + 1], Expected(<<type, v>>))
    BY <1>3, <2>11, <2>12, <2>13, ArgumentBack
  <2>15. pos' = cut[n + 1] /\ stage' = "reading" /\ got' = Append(got, g[n + 1])
    <3>1. PICK e : e = Expected(<<type, v>>)
      OBVIOUS
    <3>2. PICK r : r = Read(type, pos)
      OBVIOUS
    <3>3. r.ok = TRUE /\ r.pos = cut[n + 1] /\ r.value = e
      BY <2>14, <3>1, <3>2 DEF Something
    <3>4. pos' = r.pos /\ stage' = "reading" /\ got' = Append(got, r.value)
      BY <3>2, <3>3 DEF ReadArgument
    <3>5. g[n + 1] = e
      BY <2>9, <2>11, <3>1
    <3> QED BY <3>3, <3>4, <3>5
  <2>16. got' = g
    <3> HIDE DEF S
    <3>1. PICK x \in Seq(S) : x = f /\ Len(x) = n
      <4>1. PICK x \in [1..n -> S] : x = f
        BY <2>4
      <4>2. x \in Seq(S) /\ Len(x) = n
        BY <2>3
      <4> QED BY <4>1, <4>2
    <3>2. PICK y \in Seq(S) : y = g /\ Len(y) = n + 1
      <4>1. PICK y \in [1..n + 1 -> S] : y = g
        BY <2>8
      <4>2. n + 1 \in Nat
        BY <2>3
      <4>3. y \in Seq(S) /\ Len(y) = n + 1
        BY <4>2
      <4> QED BY <4>1, <4>3
    <3>3. \A k \in 1..n : y[k] = x[k]
      BY <2>8, <3>1, <3>2
    <3> HIDE DEF f, g
    <3>4. y = Append(x, y[n + 1])
      BY <3>1, <3>2, <3>3, OneMore
    <3> QED BY <2>5, <2>15, <3>1, <3>2, <3>4
  <2> QED BY <2>1, <2>7, <2>15, <2>16
<1>6. ReadTo(cut)'
  BY <1>2, <1>5 DEF ReadTo, Fits
<1> QED
  BY <1>2, <1>3, <1>4, <1>6 DEF Back, Untouched

LEMMA BackStep ==
  Inv /\ Unread /\ Back /\ [Next]_vars => Back'
<1> SUFFICES ASSUME Inv, Unread, Back, [Next]_vars PROVE Back'
  OBVIOUS
<1>1. ASSUME NEW type \in Types, NEW v \in Values[type], Write(type, v) PROVE Back'
  BY <1>1, WriteBack
<1>2. CASE Frame
  BY <1>2, UnreadStep, FrameBack
<1>3. ASSUME NEW type \in Types, ReadArgument(type) PROVE Back'
  BY <1>3, ReadBack
<1>4. CASE UNCHANGED vars
  <2>1. PICK cut \in [Nat -> Nat] : Laid(cut) /\ ReadTo(cut)
    BY DEF Back
  <2>2. Laid(cut)' /\ ReadTo(cut)'
    BY <1>4, <2>1 DEF vars, Laid, Written, ReadTo, Fits
  <2> QED BY <1>4, <2>2 DEF vars, Back, Untouched
<1> QED
  BY <1>1, <1>2, <1>3, <1>4 DEF Next

(***************************************************************************)
(* Buffers are sequences of bytes, for every base, value and message from  *)
(* elsewhere.                                                              *)
(***************************************************************************)
THEOREM TypeCorrect == Spec => []TypeOK
<1>1. Inv => TypeOK
  BY DEF Inv
<1> QED
  BY <1>1, Invariance, PTL

(***************************************************************************)
(* Whatever bytes come and whatever is asked for, the reader does not read *)
(* beyond the message. (Reader)                                            *)
(***************************************************************************)
THEOREM StaysInside == Spec => []ReaderStaysInside
<1>1. Inv => ReaderStaysInside
  BY DEF Inv
<1> QED
  BY <1>1, Invariance, PTL

(***************************************************************************)
(* Every argument leaves the reader on a word, or at the end. (pad)        *)
(***************************************************************************)
THEOREM StaysAligned == Spec => []Aligned
<1>1. Inv => Aligned
  BY DEF Inv
<1> QED
  BY <1>1, Invariance, PTL

(***************************************************************************)
(* A message reaches its receiver whole exactly if it fits the sixteen     *)
(* bits of its size field, for every base and length. (sendEvent)          *)
(***************************************************************************)
THEOREM WholeIfItFits == Spec => []FramedWhole
<1>1. Inv => FramedWhole
  BY DEF Inv
<1> QED
  BY <1>1, Invariance, PTL

(***************************************************************************)
(* What was written is what is read, for every base, all values and any    *)
(* number of arguments: none is lost, none shifts those behind it, nothing *)
(* is left over. (Writer against Reader)                                   *)
(***************************************************************************)
THEOREM ReadsBack == Spec => []ReadsWhatWasWritten
<1>1. Init => Inv /\ Unread /\ Back
  BY InvInit, BackInit DEF Init, Unread
<1>2. Inv /\ Unread /\ Back /\ [Next]_vars => (Inv /\ Unread /\ Back)'
  BY UnreadStep, BackStep
<1>3. Inv /\ Unread /\ Back => ReadsWhatWasWritten
  <2> SUFFICES ASSUME Back, args # <<>>, Fits, stage # "writing"
               PROVE  /\ stage = "reading"
                      /\ got = [k \in 1..Len(got) |-> Expected(args[k])]
                      /\ Len(got) = Len(args) => pos = Len(data)
    BY DEF ReadsWhatWasWritten
  <2>1. PICK cut \in [Nat -> Nat] : Laid(cut) /\ ReadTo(cut)
    BY DEF Back
  <2>2. stage = "reading" /\ data = body
    BY <2>1 DEF ReadTo
  <2>3. PICK n \in 0..Len(args) :
          got = [k \in 1..n |-> Expected(args[k])] /\ pos = cut[n]
    BY <2>1 DEF ReadTo
  <2>4. Len(got) = n
    <3> DEFINE S == {Expected(args[k]) : k \in 1..Len(args)}
               f == [k \in 1..n |-> Expected(args[k])]
    <3>1. n \in Nat /\ f \in [1..n -> S]
      BY DEF Back
    <3>2. Len(f) = n
      <4> HIDE DEF f, S
      <4> QED BY <3>1
    <3> QED BY <2>3, <3>2
  <2> QED BY <2>1, <2>2, <2>3, <2>4 DEF Laid
<1> QED
  BY <1>1, <1>2, <1>3, PTL DEF Spec

----------------------------------------------------------------------------
(* Capture: units.                                                         *)

\* Capture's units are those of CaptureFrames.
LEMMA SameUnits ==
  /\ \A type : C!Header(type) = Header(type)
  /\ \A n : C!Pixels(n) = Pixels(n)
  /\ C!Unit = Unit
  /\ \A p : C!Promised(p) <=> Promised(p)
BY DEF C!Header, Header, C!Pixels, Pixels, C!Pixel, Pixel, C!Unit, Unit,
       C!Promised, Promised

LEMMA Units ==
  /\ MaxFrames \in Nat /\ MaxFrames > 0 /\ PixelUnits \in Nat /\ PixelUnits > 0
  /\ \A u \in Unit :
       /\ u.frame \in Nat /\ u.part \in Nat
       /\ u.unit \in {"hello", "frame", "bye", "torn", "pixel"}
       /\ u.unit # "pixel" => u = Header(u.unit) /\ u.frame = 0
       /\ u.unit = "pixel" => /\ u = Pixel(u.frame, u.part)
                              /\ u.frame \in 1..MaxFrames /\ u.part \in 1..PixelUnits
  /\ \A t \in {"hello", "frame", "bye", "torn"} :
       Header(t) \in Unit /\ Header(t).unit = t /\ Header(t).frame = 0
  /\ \A m, k : /\ Pixel(m, k).unit = "pixel" /\ Pixel(m, k).frame = m
               /\ Pixel(m, k).part = k
  /\ \A m \in 1..MaxFrames, k \in 1..PixelUnits : Pixel(m, k) \in Unit
<1>1. MaxFrames \in Nat /\ MaxFrames > 0 /\ PixelUnits \in Nat /\ PixelUnits > 0
  BY FramesAssumption
<1>2. \A t \in {"hello", "frame", "bye", "torn"} :
        Header(t) \in Unit /\ Header(t).unit = t /\ Header(t).frame = 0
  BY DEF Header, Unit
<1>3. \A m, k : /\ Pixel(m, k).unit = "pixel" /\ Pixel(m, k).frame = m
                /\ Pixel(m, k).part = k
  BY DEF Pixel
<1>4. \A m \in 1..MaxFrames, k \in 1..PixelUnits : Pixel(m, k) \in Unit
  BY DEF Unit
<1>5. ASSUME NEW u \in Unit
      PROVE  /\ u.frame \in Nat /\ u.part \in Nat
             /\ u.unit \in {"hello", "frame", "bye", "torn", "pixel"}
             /\ u.unit # "pixel" => u = Header(u.unit) /\ u.frame = 0
             /\ u.unit = "pixel" =>
                  /\ u = Pixel(u.frame, u.part)
                  /\ u.frame \in 1..MaxFrames /\ u.part \in 1..PixelUnits
  <2>1. CASE \E t \in {"hello", "frame", "bye", "torn"} : u = Header(t)
    BY <2>1 DEF Header
  <2>2. CASE \E m \in 1..MaxFrames, k \in 1..PixelUnits : u = Pixel(m, k)
    BY <2>2, <1>1 DEF Pixel
  <2> QED BY <2>1, <2>2 DEF Unit
<1> QED
  BY <1>1, <1>2, <1>3, <1>4, <1>5

----------------------------------------------------------------------------
(* Sequences.                                                              *)

LEMMA JoinedUnits ==
  ASSUME NEW s \in Seq(Unit), NEW t \in Seq(Unit)
  PROVE  /\ s \o t \in Seq(Unit) /\ Len(s \o t) = Len(s) + Len(t)
         /\ \A i \in 1..Len(s) : (s \o t)[i] = s[i]
         /\ \A i \in 1..Len(t) : (s \o t)[Len(s) + i] = t[i]
OBVIOUS

LEMMA SameSequence ==
  ASSUME NEW s \in Seq(Unit), NEW t \in Seq(Unit), Len(s) = Len(t),
         \A i \in 1..Len(s) : s[i] = t[i]
  PROVE  s = t
OBVIOUS

\* A unit written leaves the stream as it was.
LEMMA Moved ==
  ASSUME NEW t \in Seq(Unit), NEW d \in Seq(Unit), d # <<>>
  PROVE  /\ Append(t, Head(d)) \in Seq(Unit) /\ Tail(d) \in Seq(Unit)
         /\ Append(t, Head(d)) \o Tail(d) = t \o d
<1> DEFINE a == Append(t, Head(d))
           b == Tail(d)
<1>1. a \in Seq(Unit) /\ Len(a) = Len(t) + 1 /\ a[Len(t) + 1] = d[1]
      /\ \A i \in 1..Len(t) : a[i] = t[i]
  OBVIOUS
<1>2. b \in Seq(Unit) /\ Len(b) = Len(d) - 1 /\ \A i \in 1..Len(b) : b[i] = d[i + 1]
  OBVIOUS
<1>3. Len(t) \in Nat /\ Len(d) \in Nat /\ Len(d) > 0
  OBVIOUS
<1> HIDE DEF a, b
<1>4. a \o b \in Seq(Unit) /\ Len(a \o b) = Len(a) + Len(b)
  BY <1>1, <1>2, JoinedUnits, Zenon
<1>5. t \o d \in Seq(Unit) /\ Len(t \o d) = Len(t) + Len(d)
  BY JoinedUnits, Zenon
<1>6. Len(a \o b) = Len(t \o d)
  BY <1>1, <1>2, <1>3, <1>4, <1>5
<1>7. ASSUME NEW i \in 1..Len(a \o b) PROVE (a \o b)[i] = (t \o d)[i]
  <2>1. i \in Nat /\ i >= 1 /\ i <= Len(t) + Len(d)
    BY <1>5, <1>6, <1>3
  <2>2. CASE i <= Len(t)
    BY <2>1, <2>2, <1>1, <1>2, <1>3
  <2>3. CASE i = Len(t) + 1
    BY <2>1, <2>3, <1>1, <1>2, <1>3
  <2>4. CASE i > Len(t) + 1
    <3>1. (a \o b)[i] = b[i - (Len(t) + 1)]
      BY <2>1, <2>4, <1>1, <1>2, <1>3
    <3>2. (t \o d)[i] = d[i - Len(t)]
      BY <2>1, <2>4, <1>3
    <3>3. i - (Len(t) + 1) \in 1..Len(b) /\ (i - (Len(t) + 1)) + 1 = i - Len(t)
      BY <2>1, <2>4, <1>2, <1>3
    <3> QED BY <3>1, <3>2, <3>3, <1>2
  <2> QED BY <2>1, <2>2, <2>3, <2>4, <1>3
<1>8. a \o b = t \o d
  BY <1>4, <1>5, <1>6, <1>7, SameSequence
<1> QED
  BY <1>1, <1>2, <1>8 DEF a, b

LEMMA NothingMore ==
  ASSUME NEW t \in Seq(Unit)
  PROVE  t \o <<>> = t
OBVIOUS

\* Reading the first unit in flight is reading the first of the stream.
LEMMA TakenFirst ==
  ASSUME NEW t \in Seq(Unit), NEW d \in Seq(Unit), t # <<>>
  PROVE  /\ Tail(t) \in Seq(Unit) /\ Tail(t) \o d = Tail(t \o d)
         /\ Head(t) = (t \o d)[1] /\ t \o d # <<>> /\ Head(t) \in Unit
<1> DEFINE w == t \o d
           r == Tail(t)
<1>1. Len(t) \in Nat /\ Len(d) \in Nat /\ Len(t) > 0 /\ t[1] \in Unit
  OBVIOUS
<1>2. /\ r \in Seq(Unit) /\ Len(r) = Len(t) - 1
      /\ \A i \in 1..Len(r) : r[i] = t[i + 1]
  OBVIOUS
<1>3. /\ w \in Seq(Unit) /\ Len(w) = Len(t) + Len(d)
      /\ \A i \in 1..Len(t) : w[i] = t[i]
      /\ \A i \in 1..Len(d) : w[Len(t) + i] = d[i]
  BY JoinedUnits, Zenon
<1> HIDE DEF r
<1>4. /\ r \o d \in Seq(Unit) /\ Len(r \o d) = Len(r) + Len(d)
      /\ \A i \in 1..Len(r) : (r \o d)[i] = r[i]
      /\ \A i \in 1..Len(d) : (r \o d)[Len(r) + i] = d[i]
  BY <1>2, JoinedUnits, Zenon
<1> HIDE DEF w
<1>5. /\ Tail(w) \in Seq(Unit) /\ Len(Tail(w)) = Len(w) - 1
      /\ \A i \in 1..Len(Tail(w)) : Tail(w)[i] = w[i + 1]
      /\ w # <<>>
  <2>1. w \in Seq(Unit) /\ Len(w) > 0
    BY <1>1, <1>3
  <2>2. w # <<>>
    BY <2>1
  <2> QED BY <2>1, <2>2
<1>6. Len(r \o d) = Len(Tail(w))
  BY <1>1, <1>2, <1>3, <1>4, <1>5
<1>7. ASSUME NEW i \in 1..Len(r \o d) PROVE (r \o d)[i] = Tail(w)[i]
  <2>1. i \in Nat /\ i >= 1 /\ i <= Len(t) - 1 + Len(d)
    BY <1>1, <1>2, <1>4
  <2>2. Tail(w)[i] = w[i + 1]
    BY <1>5, <1>6
  <2>3. CASE i <= Len(t) - 1
    <3>1. i \in 1..Len(r) /\ i + 1 \in 1..Len(t)
      BY <2>1, <2>3, <1>1, <1>2
    <3> QED BY <3>1, <2>2, <1>2, <1>3, <1>4
  <2>4. CASE i > Len(t) - 1
    <3>1. PICK k \in 1..Len(d) : i = Len(r) + k /\ i + 1 = Len(t) + k
      <4>1. i - Len(r) \in 1..Len(d) /\ i = Len(r) + (i - Len(r))
            /\ i + 1 = Len(t) + (i - Len(r))
        BY <2>1, <2>4, <1>1, <1>2
      <4> QED BY <4>1
    <3>2. (r \o d)[Len(r) + k] = d[k] /\ w[Len(t) + k] = d[k]
      BY <1>3, <1>4
    <3>3. (r \o d)[i] = d[k]
      BY <3>1, <3>2, Zenon
    <3>4. w[i + 1] = d[k]
      BY <3>1, <3>2, Zenon
    <3> QED BY <3>3, <3>4, <2>2, Zenon
  <2>5. i <= Len(t) - 1 \/ i > Len(t) - 1
    BY <2>1, <1>1
  <2> QED BY <2>3, <2>4, <2>5, Zenon
<1>8. r \o d = Tail(w)
  BY <1>4, <1>5, <1>6, <1>7, SameSequence
<1> QED
  BY <1>1, <1>2, <1>3, <1>5, <1>8 DEF r, w

----------------------------------------------------------------------------
(* The stream a session has yet to read.                                   *)

\* A header may come: no frame is begun, or its last pixels are there.
Whole(u) == u.unit # "frame" /\ (u.unit = "pixel" => u.part = PixelUnits)

\* What may come after a unit.
Follows(v, u) ==
  IF u.unit = "frame" THEN v.unit = "pixel" /\ v.part = 1
  ELSE IF Whole(u) THEN v.unit # "pixel"
  ELSE v.unit = "pixel" /\ v.frame = u.frame /\ v.part = u.part + 1

\* What session s has read last, as far as what comes next depends on it.
Behind(s) ==
  IF s.pc # "pixels" THEN Header("hello")
  ELSE IF s.got = <<>> THEN Header("frame") ELSE s.got[Len(s.got)]

\* w is the stream a session has yet to read: in flight, then to be written.
Final(u, w) == IF w = <<>> THEN u ELSE w[Len(w)]

Chain(u, w) ==
  /\ w # <<>> => Follows(w[1], u)
  /\ \A i \in 1..Len(w) : i > 1 => Follows(w[i], w[i - 1])

HasRead(s) == s.pc \in {"pixels", "ack", "sink"} /\ s.got # <<>>

Below(sh, m) == \A i \in 1..Len(sh) : sh[i][1].frame < m

\* The pixels read are the first of one frame, newer than those shown.
GotOne(s, n, sh) ==
  /\ s.pc = "pixels" => Len(s.got) < PixelUnits
  /\ s.pc \in {"ack", "sink"} => Len(s.got) = PixelUnits
  /\ HasRead(s) => \E m \in 1..n : /\ \A k \in 1..Len(s.got) : s.got[k] = Pixel(m, k)
                                   /\ Below(sh, m)

\* Nothing in the stream is newer than frame n, nor torn.
Newest(w, n) == \A i \in 1..Len(w) : w[i].frame <= n /\ w[i].unit # "torn"

\* A frame that begins in the stream is newer than all before it.
Opens(u) == u.unit = "pixel" /\ u.part = 1
After(w, s, sh) ==
  \A j \in 1..Len(w) : Opens(w[j]) =>
    /\ \A i \in 1..(j - 1) : w[i].frame < w[j].frame
    /\ HasRead(s) => s.got[1].frame < w[j].frame
    /\ Below(sh, w[j].frame)

Streamed(w, s, c, n, sh) ==
  /\ Chain(Behind(s), w)
  /\ GotOne(s, n, sh)
  /\ Newest(w, n)
  /\ After(w, s, sh)
  /\ c # "closed" => Whole(Final(Behind(s), w))

\* Only an open helper draws; one that has not connected has sent nothing.
Early == {"off", "asked", "consented", "connecting"}
InPlace(t, d, s, c, on) ==
  /\ on \/ d # <<>> => c = "open"
  /\ c \in Early => s.pc = "none" /\ t = <<>>

\* What was shown are frames, each newer than the one before.
InOrder(n, sh) ==
  \A i \in DOMAIN sh : \E m \in 1..n :
    sh[i] = Pixels(m) /\ (i > 1 => m > sh[i - 1][1].frame)

Good(t, d, s, c, on, n, sh) ==
  /\ InPlace(t, d, s, c, on)
  /\ s.pc # "closed" => Streamed(t \o d, s, c, n, sh)
  /\ InOrder(n, sh)

----------------------------------------------------------------------------
(* One helper and its session, whatever the step.                          *)

\* Sessions that have read nothing that matters are alike.
LEMMA Idle ==
  ASSUME NEW w \in Seq(Unit), NEW s \in C!Sessions, NEW s2 \in C!Sessions,
         NEW c, NEW n \in Nat, NEW sh \in Seq(Seq(Unit)),
         Streamed(w, s, c, n, sh),
         s.pc # "pixels", s2.pc # "pixels",
         s2.pc \in {"ack", "sink"} => s.pc \in {"ack", "sink"} /\ s2.got = s.got
  PROVE  Streamed(w, s2, c, n, sh)
<1>1. Behind(s2) = Behind(s)
  BY DEF Behind
<1>2. HasRead(s2) => HasRead(s) /\ s2.got = s.got
  BY DEF HasRead
<1>3. GotOne(s2, n, sh)
  <2>1. GotOne(s, n, sh)
    BY DEF Streamed
  <2>2. s2.pc \in {"ack", "sink"} => Len(s2.got) = PixelUnits
    BY <2>1 DEF GotOne
  <2> QED BY <2>1, <2>2, <1>2 DEF GotOne
<1>4. After(w, s2, sh)
  <2>1. After(w, s, sh)
    BY DEF Streamed
  <2> QED BY <2>1, <1>2 DEF After
<1> QED
  BY <1>1, <1>3, <1>4 DEF Streamed

\* A helper moved on without writing.
LEMMA Moves ==
  ASSUME NEW t, NEW d, NEW s, NEW c, NEW on, NEW n, NEW sh, NEW c2,
         Good(t, d, s, c, on, n, sh), c # "open",
         c2 \in Early => c \in Early, c = "closed" => c2 = "closed"
  PROVE  Good(t, d, s, c2, on, n, sh)
BY DEF Good, InPlace, Streamed

\* A message written between frames.
LEMMA Says ==
  ASSUME NEW w \in Seq(Unit), NEW s \in C!Sessions, NEW c, NEW c2, NEW n \in Nat,
         NEW sh \in Seq(Seq(Unit)), NEW type \in {"hello", "bye"},
         Streamed(w, s, c, n, sh), c # "closed"
  PROVE  Streamed(Append(w, Header(type)), s, c2, n, sh)
<1> DEFINE x == Append(w, Header(type))
           u == Behind(s)
<1>1. Header(type) \in Unit /\ Header(type).unit = type /\ Header(type).frame = 0
  BY Units
<1>2. /\ x \in Seq(Unit) /\ Len(x) = Len(w) + 1 /\ x[Len(w) + 1] = Header(type)
      /\ \A i \in 1..Len(w) : x[i] = w[i]
  BY <1>1
<1>3. Len(w) \in Nat /\ (w = <<>> <=> Len(w) = 0)
  OBVIOUS
<1> HIDE DEF x, u
<1>4. x # <<>> /\ Final(u, x) = Header(type)
  BY <1>2, <1>3 DEF Final
<1>5. Follows(Header(type), Final(u, w))
  BY <1>1 DEF Streamed, Follows, Whole, u
<1>6. Chain(u, x)
  <2>1. Chain(u, w)
    BY DEF Streamed, u
  <2>2. Follows(x[1], u)
    <3>1. CASE w = <<>>
      <4>1. x[1] = Header(type)
        BY <3>1, <1>2, <1>3
      <4> QED BY <3>1, <4>1, <1>5 DEF Final
    <3>2. CASE w # <<>>
      <4>1. x[1] = w[1]
        BY <3>2, <1>2, <1>3
      <4> QED BY <3>2, <4>1, <2>1 DEF Chain
    <3> QED BY <3>1, <3>2
  <2>3. ASSUME NEW i \in 1..Len(x), i > 1 PROVE Follows(x[i], x[i - 1])
    <3>1. CASE i <= Len(w)
      <4>1. i \in 1..Len(w) /\ i - 1 \in 1..Len(w)
        BY <2>3, <3>1, <1>3
      <4> QED BY <4>1, <2>1, <2>3, <1>2 DEF Chain
    <3>2. CASE i = Len(w) + 1
      <4>1. i - 1 = Len(w) /\ Len(w) \in 1..Len(w) /\ w # <<>>
        BY <2>3, <3>2, <1>3
      <4>2. x[i - 1] = Final(u, w) /\ x[i] = Header(type)
        BY <4>1, <3>2, <1>2 DEF Final
      <4> QED BY <4>2, <1>5
    <3> QED BY <3>1, <3>2, <1>2, <1>3
  <2> QED BY <2>2, <2>3 DEF Chain
<1>7. Newest(x, n)
  <2>1. Newest(w, n)
    BY DEF Streamed
  <2>2. ASSUME NEW i \in 1..Len(x) PROVE x[i].frame <= n /\ x[i].unit # "torn"
    <3>1. CASE i \in 1..Len(w)
      BY <3>1, <2>1, <1>2 DEF Newest
    <3>2. CASE i = Len(w) + 1
      BY <3>2, <1>1, <1>2
    <3> QED BY <3>1, <3>2, <1>2, <1>3
  <2> QED BY <2>2 DEF Newest
<1>8. After(x, s, sh)
  <2>1. After(w, s, sh)
    BY DEF Streamed
  <2>2. ASSUME NEW j \in 1..Len(x), Opens(x[j])
        PROVE  /\ \A i \in 1..(j - 1) : x[i].frame < x[j].frame
               /\ HasRead(s) => s.got[1].frame < x[j].frame
               /\ Below(sh, x[j].frame)
    <3>1. j \in 1..Len(w)
      <4>1. j # Len(w) + 1
        BY <2>2, <1>1, <1>2 DEF Opens
      <4> QED BY <4>1, <1>2, <1>3
    <3>2. x[j] = w[j] /\ \A i \in 1..(j - 1) : i \in 1..Len(w) /\ x[i] = w[i]
      <4>1. \A i \in 1..(j - 1) : i \in 1..Len(w)
        BY <3>1, <1>3
      <4> QED BY <4>1, <3>1, <1>2
    <3> QED BY <3>1, <3>2, <2>1, <2>2 DEF After
  <2> QED BY <2>2 DEF After
<1>9. Whole(Final(u, x))
  BY <1>1, <1>4 DEF Whole
<1> QED
  BY <1>6, <1>7, <1>8, <1>9 DEF Streamed, x, u

\* The stream of one that ends may be cut anywhere.
LEMMA Cut ==
  ASSUME NEW w \in Seq(Unit), NEW v \in Seq(Unit), NEW s, NEW c, NEW n, NEW sh,
         Len(v) <= Len(w), \A i \in 1..Len(v) : v[i] = w[i],
         Streamed(w, s, c, n, sh)
  PROVE  Streamed(v, s, "closed", n, sh)
<1>1. \A i \in 1..Len(v) : i \in 1..Len(w) /\ \A j \in 1..(i - 1) : j \in 1..Len(v)
  OBVIOUS
<1>2. v # <<>> => w # <<>> /\ 1 \in 1..Len(v)
  OBVIOUS
<1>3. Chain(Behind(s), v)
  <2>1. Chain(Behind(s), w)
    BY DEF Streamed
  <2>2. ASSUME NEW i \in 1..Len(v), i > 1 PROVE Follows(v[i], v[i - 1])
    <3>1. i - 1 \in 1..(i - 1)
      BY <2>2
    <3>2. i \in 1..Len(w) /\ i - 1 \in 1..Len(v)
      BY <3>1, <1>1
    <3> QED BY <3>2, <2>1, <2>2 DEF Chain
  <2>3. v # <<>> => Follows(v[1], Behind(s))
    BY <1>2, <2>1 DEF Chain
  <2> QED BY <2>2, <2>3 DEF Chain
<1>4. Newest(v, n)
  BY <1>1 DEF Newest, Streamed
<1>5. After(v, s, sh)
  <2>1. After(w, s, sh)
    BY DEF Streamed
  <2> QED BY <2>1, <1>1 DEF After
<1> QED
  BY <1>3, <1>4, <1>5 DEF Streamed

\* A frame begun: newer than all there is.
LEMMA Begins ==
  ASSUME NEW w \in Seq(Unit), NEW s \in C!Sessions, NEW c, NEW n \in Nat,
         NEW sh \in Seq(Seq(Unit)), n < MaxFrames, c # "closed",
         Streamed(w, s, c, n, sh), InOrder(n, sh)
  PROVE  /\ <<Header("frame")>> \o Pixels(n + 1) \in Seq(Unit)
         /\ Streamed(w \o (<<Header("frame")>> \o Pixels(n + 1)), s, c, n + 1, sh)
<1> DEFINE p == Pixels(n + 1)
           f == <<Header("frame")>> \o p
           x == w \o f
           u == Behind(s)
<1>0. PixelUnits \in Nat /\ PixelUnits > 0 /\ MaxFrames \in Nat
      /\ n + 1 \in 1..MaxFrames
  BY Units
<1>1. /\ p \in Seq(Unit) /\ Len(p) = PixelUnits
      /\ \A k \in 1..PixelUnits : p[k] = Pixel(n + 1, k)
  <2>1. \A k \in 1..PixelUnits : Pixel(n + 1, k) \in Unit
    BY <1>0, Units
  <2>2. p \in [1..PixelUnits -> Unit]
    BY <2>1 DEF Pixels
  <2>3. p \in Seq(Unit) /\ Len(p) = PixelUnits
    <3> HIDE DEF p
    <3> QED BY <2>2, <1>0
  <2> QED BY <2>3 DEF Pixels
<1>2. /\ Header("frame") \in Unit /\ Header("frame").unit = "frame"
      /\ Header("frame").frame = 0
  BY Units
<1>3. \A k : /\ Pixel(n + 1, k).unit = "pixel" /\ Pixel(n + 1, k).frame = n + 1
             /\ Pixel(n + 1, k).part = k
  BY Units
<1>4. Len(w) \in Nat /\ (w = <<>> <=> Len(w) = 0)
  OBVIOUS
<1> HIDE DEF p
<1>5. /\ f \in Seq(Unit) /\ Len(f) = PixelUnits + 1 /\ f[1] = Header("frame")
      /\ \A k \in 1..PixelUnits : f[k + 1] = Pixel(n + 1, k)
  <2>1. <<Header("frame")>> \in Seq(Unit) /\ Len(<<Header("frame")>>) = 1
        /\ <<Header("frame")>>[1] = Header("frame")
    BY <1>2
  <2>2. PICK g \in Seq(Unit) : g = <<Header("frame")>>
    BY <2>1
  <2>3. g \o p \in Seq(Unit) /\ Len(g \o p) = 1 + PixelUnits
        /\ (g \o p)[1] = Header("frame")
        /\ \A k \in 1..PixelUnits : (g \o p)[1 + k] = p[k]
    BY <2>1, <2>2, <1>0, <1>1
  <2> QED BY <2>2, <2>3, <1>0, <1>1
<1> HIDE DEF f
<1>6. /\ x \in Seq(Unit) /\ Len(x) = Len(w) + PixelUnits + 1
      /\ \A i \in 1..Len(w) : x[i] = w[i]
      /\ \A k \in 1..(PixelUnits + 1) : x[Len(w) + k] = f[k]
  <2>1. /\ x \in Seq(Unit) /\ Len(x) = Len(w) + Len(f)
        /\ \A i \in 1..Len(w) : x[i] = w[i]
        /\ \A k \in 1..Len(f) : x[Len(w) + k] = f[k]
    BY <1>5, JoinedUnits, Zenon
  <2> QED BY <2>1, <1>0, <1>4, <1>5
<1> HIDE DEF x, u
\* Where a unit of x comes from.
<1>7. \A i \in 1..Len(x) :
        \/ i \in 1..Len(w) /\ x[i] = w[i]
        \/ i = Len(w) + 1 /\ x[i] = Header("frame")
        \/ \E k \in 1..PixelUnits : i = Len(w) + 1 + k /\ x[i] = Pixel(n + 1, k)
  <2> TAKE i \in 1..Len(x)
  <2>1. i \in Nat /\ i >= 1 /\ i <= Len(w) + PixelUnits + 1
    BY <1>6, <1>4, <1>0
  <2>2. CASE i <= Len(w)
    BY <2>1, <2>2, <1>6, <1>4
  <2>3. CASE i = Len(w) + 1
    <3>1. x[Len(w) + 1] = f[1]
      BY <1>6, <1>0
    <3> QED BY <2>3, <3>1, <1>5
  <2>4. CASE i > Len(w) + 1
    <3>1. PICK k \in 1..PixelUnits : i = Len(w) + 1 + k /\ i = Len(w) + (k + 1)
      <4>1. i - (Len(w) + 1) \in 1..PixelUnits
        BY <2>1, <2>4, <1>4, <1>0
      <4>2. i = Len(w) + 1 + (i - (Len(w) + 1))
            /\ i = Len(w) + ((i - (Len(w) + 1)) + 1)
        BY <2>1, <1>4
      <4> QED BY <4>1, <4>2
    <3>2. k + 1 \in 1..(PixelUnits + 1)
      BY <1>0
    <3>3. x[Len(w) + (k + 1)] = f[k + 1] /\ f[k + 1] = Pixel(n + 1, k)
      BY <3>2, <1>5, <1>6
    <3>4. x[i] = Pixel(n + 1, k)
      BY <3>1, <3>3, Zenon
    <3> QED BY <3>1, <3>4
  <2>5. i <= Len(w) \/ i = Len(w) + 1 \/ i > Len(w) + 1
    BY <2>1, <1>4
  <2> QED BY <2>2, <2>3, <2>4, <2>5, Zenon
<1>8. Whole(Final(u, w)) /\ Chain(u, w) /\ GotOne(s, n, sh) /\ Newest(w, n)
      /\ After(w, s, sh)
  BY DEF Streamed, u
<1>9. Follows(Header("frame"), Final(u, w))
  BY <1>2, <1>8 DEF Follows, Whole
<1>10. x # <<>> /\ Final(u, x) = Pixel(n + 1, PixelUnits)
  <2>1. x # <<>> /\ Len(x) \in 1..Len(x)
    BY <1>6, <1>4, <1>0
  <2>2. x[Len(w) + (PixelUnits + 1)] = f[PixelUnits + 1]
        /\ f[PixelUnits + 1] = Pixel(n + 1, PixelUnits)
    BY <1>5, <1>6, <1>0
  <2>3. Len(x) = Len(w) + (PixelUnits + 1)
    BY <1>6, <1>4, <1>0
  <2> QED BY <2>1, <2>2, <2>3 DEF Final
<1>11. Chain(u, x)
  <2>1. Follows(x[1], u)
    <3>1. CASE w = <<>>
      <4>1. x[Len(w) + 1] = f[1] /\ Len(w) + 1 = 1
        BY <3>1, <1>4, <1>6, <1>0
      <4>2. x[1] = Header("frame")
        BY <4>1, <1>5, Zenon
      <4> QED BY <3>1, <4>2, <1>9 DEF Final
    <3>2. CASE w # <<>>
      <4>1. x[1] = w[1]
        BY <3>2, <1>4, <1>6
      <4> QED BY <3>2, <4>1, <1>8 DEF Chain
    <3> QED BY <3>1, <3>2
  <2>2. ASSUME NEW i \in 1..Len(x), i > 1 PROVE Follows(x[i], x[i - 1])
    <3>0. i - 1 \in 1..Len(x) /\ i \in Nat
      BY <2>2, <1>6, <1>4, <1>0
    <3>1. CASE i \in 1..Len(w) /\ x[i] = w[i]
      <4>1. i - 1 \in 1..Len(w)
        BY <3>1, <2>2, <1>4
      <4> QED BY <4>1, <3>1, <2>2, <1>6, <1>8 DEF Chain
    <3>2. CASE i = Len(w) + 1 /\ x[i] = Header("frame")
      <4>1. i - 1 = Len(w) /\ Len(w) \in 1..Len(w) /\ w # <<>>
        BY <2>2, <3>2, <1>4
      <4>2. x[i - 1] = Final(u, w)
        BY <4>1, <1>6 DEF Final
      <4> QED BY <4>2, <3>2, <1>9
    <3>3. CASE \E k \in 1..PixelUnits : i = Len(w) + 1 + k /\ x[i] = Pixel(n + 1, k)
      <4>1. PICK k \in 1..PixelUnits : i = Len(w) + 1 + k /\ x[i] = Pixel(n + 1, k)
        BY <3>3
      <4>2. CASE k = 1
        <5>1. i - 1 = Len(w) + 1
          BY <4>1, <4>2, <1>4
        <5>2. x[Len(w) + 1] = f[1]
          BY <1>6, <1>0
        <5>3. x[i - 1] = Header("frame")
          BY <5>1, <5>2, <1>5, Zenon
        <5> QED BY <5>3, <4>1, <4>2, <1>2, <1>3 DEF Follows
      <4>3. CASE k # 1
        <5>1. PICK j \in 1..PixelUnits :
                i - 1 = Len(w) + (j + 1) /\ k = j + 1 /\ j # PixelUnits
          <6>1. k - 1 \in 1..PixelUnits /\ k - 1 # PixelUnits /\ k = (k - 1) + 1
                /\ i - 1 = Len(w) + ((k - 1) + 1)
            BY <4>1, <4>3, <1>4, <1>0
          <6> QED BY <6>1
        <5>2. j + 1 \in 1..(PixelUnits + 1)
          BY <1>0
        <5>3. x[Len(w) + (j + 1)] = f[j + 1] /\ f[j + 1] = Pixel(n + 1, j)
          BY <5>2, <1>5, <1>6
        <5>4. x[i - 1] = Pixel(n + 1, j)
          BY <5>1, <5>3, Zenon
        <5> QED BY <5>1, <5>4, <4>1, <1>3 DEF Follows, Whole
      <4> QED BY <4>2, <4>3
    <3> QED BY <3>1, <3>2, <3>3, <1>7
  <2> QED BY <2>1, <2>2 DEF Chain
<1>12. Newest(x, n + 1)
  <2>1. ASSUME NEW i \in 1..Len(x) PROVE x[i].frame <= n + 1 /\ x[i].unit # "torn"
    <3>1. CASE i \in 1..Len(w) /\ x[i] = w[i]
      <4>1. w[i].frame <= n /\ w[i].unit # "torn" /\ w[i].frame \in Nat
        BY <3>1, <1>8, Units DEF Newest
      <4> QED BY <4>1, <3>1
    <3>2. CASE i = Len(w) + 1 /\ x[i] = Header("frame")
      BY <3>2, <1>2
    <3>3. CASE \E k \in 1..PixelUnits : i = Len(w) + 1 + k /\ x[i] = Pixel(n + 1, k)
      BY <3>3, <1>3
    <3> QED BY <3>1, <3>2, <3>3, <1>7
  <2> QED BY <2>1 DEF Newest
\* What was shown and what was read are of frames up to n.
<1>13. Below(sh, n + 1)
  <2>1. ASSUME NEW i \in 1..Len(sh) PROVE sh[i][1].frame < n + 1
    <3>0. i \in DOMAIN sh
      OBVIOUS
    <3>1. PICK m \in 1..n : sh[i] = Pixels(m)
      BY <3>0, Zenon DEF InOrder
    <3>2. Pixels(m)[1] = Pixel(m, 1)
      BY <1>0 DEF Pixels
    <3>3. sh[i][1].frame = m
      BY <3>1, <3>2, Units
    <3> QED BY <3>3
  <2> QED BY <2>1 DEF Below
<1>14. HasRead(s) => s.got[1].frame < n + 1
  <2> HAVE HasRead(s)
  <2>1. PICK m \in 1..n : \A k \in 1..Len(s.got) : s.got[k] = Pixel(m, k)
    BY <1>8 DEF GotOne
  <2>2. s.got \in Seq(Unit) /\ s.got # <<>>
    BY DEF HasRead, C!Sessions, C!Unit, Unit, C!Header, Header, C!Pixel, Pixel
  <2>3. 1 \in 1..Len(s.got)
    BY <2>2
  <2>4. s.got[1].frame = m
    BY <2>1, <2>3, Units
  <2> QED BY <2>4
<1>15. After(x, s, sh)
  <2>1. ASSUME NEW j \in 1..Len(x), Opens(x[j])
        PROVE  /\ \A i \in 1..(j - 1) : x[i].frame < x[j].frame
               /\ HasRead(s) => s.got[1].frame < x[j].frame
               /\ Below(sh, x[j].frame)
    <3>1. CASE j \in 1..Len(w) /\ x[j] = w[j]
      <4>1. \A i \in 1..(j - 1) : x[i] = w[i]
        BY <3>1, <1>4, <1>6
      <4> QED BY <4>1, <3>1, <2>1, <1>8 DEF After
    <3>2. CASE j = Len(w) + 1 /\ x[j] = Header("frame")
      BY <2>1, <3>2, <1>2 DEF Opens
    <3>3. CASE \E k \in 1..PixelUnits : j = Len(w) + 1 + k /\ x[j] = Pixel(n + 1, k)
      <4>1. PICK k \in 1..PixelUnits : j = Len(w) + 1 + k /\ x[j] = Pixel(n + 1, k)
        BY <3>3
      <4>2. k = 1 /\ x[j].frame = n + 1
        BY <4>1, <2>1, <1>3 DEF Opens
      <4>3. ASSUME NEW i \in 1..(j - 1) PROVE x[i].frame < n + 1
        <5>1. i \in 1..Len(w) \/ i = Len(w) + 1
          BY <4>1, <4>2, <1>4
        <5>2. CASE i \in 1..Len(w)
          <6>1. x[i] = w[i] /\ w[i] \in Unit
            BY <5>2, <1>6
          <6>2. w[i].frame <= n
            BY <5>2, <1>8 DEF Newest
          <6>3. w[i].frame \in Nat
            BY <6>1, Units
          <6> QED BY <6>1, <6>2, <6>3
        <5>3. CASE i = Len(w) + 1
          <6>1. x[Len(w) + 1] = f[1]
            BY <1>6, <1>0
          <6> QED BY <5>3, <6>1, <1>2, <1>5
        <5> QED BY <5>1, <5>2, <5>3
      <4> QED BY <4>2, <4>3, <1>13, <1>14
    <3> QED BY <3>1, <3>2, <3>3, <1>7
  <2> QED BY <2>1 DEF After
<1>16. GotOne(s, n + 1, sh)
  BY <1>8 DEF GotOne
<1>17. Whole(Final(u, x))
  BY <1>3, <1>10 DEF Whole
<1> QED
  BY <1>5, <1>11, <1>12, <1>15, <1>16, <1>17 DEF Streamed, x, u, f, p

\* What is left of a stream when its first unit is read.
LEMMA Rest ==
  ASSUME NEW w \in Seq(Unit), NEW u, NEW n \in Nat, w # <<>>,
         Chain(u, w), Newest(w, n)
  PROVE  /\ Tail(w) \in Seq(Unit) /\ w[1] \in Unit /\ 1 \in 1..Len(w)
         /\ Chain(w[1], Tail(w)) /\ Newest(Tail(w), n)
         /\ Final(w[1], Tail(w)) = Final(u, w)
         /\ \A i \in 1..Len(Tail(w)) :
              /\ i + 1 \in 1..Len(w) /\ Tail(w)[i] = w[i + 1]
              /\ \A j \in 1..(i - 1) : j \in 1..Len(Tail(w)) /\ j + 1 \in 1..i
<1> DEFINE r == Tail(w)
<1>0. Len(w) \in Nat /\ Len(w) > 0 /\ w[1] \in Unit /\ 1 \in 1..Len(w)
  OBVIOUS
<1>1. /\ r \in Seq(Unit) /\ Len(r) = Len(w) - 1
      /\ \A i \in 1..Len(r) : r[i] = w[i + 1]
  OBVIOUS
<1> HIDE DEF r
<1>2. r = <<>> <=> Len(r) = 0
  BY <1>1
<1>3. ASSUME NEW i \in 1..Len(r)
      PROVE  /\ i + 1 \in 1..Len(w) /\ i + 1 > 1 /\ (i + 1) - 1 = i
             /\ \A j \in 1..(i - 1) : j \in 1..Len(r) /\ j + 1 \in 1..i
  BY <1>0, <1>1
<1>4. ASSUME r # <<>> PROVE Len(r) \in 1..Len(r) /\ 1 \in 1..Len(r)
  BY <1>0, <1>1, <1>2, <1>4
<1>5. Chain(w[1], r)
  <2>1. ASSUME r # <<>> PROVE Follows(r[1], w[1])
    <3>1. r[1] = w[1 + 1] /\ 1 + 1 \in 1..Len(w)
      BY <2>1, <1>1, <1>3, <1>4
    <3>2. Follows(w[1 + 1], w[(1 + 1) - 1])
      BY <3>1 DEF Chain
    <3> QED BY <3>1, <3>2
  <2>2. ASSUME NEW i \in 1..Len(r), i > 1 PROVE Follows(r[i], r[i - 1])
    <3>1. i - 1 \in 1..Len(r) /\ (i - 1) + 1 = i
      BY <2>2, <1>0, <1>1
    <3>2. r[i - 1] = w[i]
      BY <3>1, <1>1
    <3>3. Follows(w[i + 1], w[(i + 1) - 1])
      BY <1>3 DEF Chain
    <3> QED BY <3>2, <3>3, <1>1, <1>3
  <2> QED BY <2>1, <2>2 DEF Chain
<1>6. Newest(r, n)
  BY <1>1, <1>3 DEF Newest
<1>7. Final(w[1], r) = Final(u, w)
  <2>1. CASE r = <<>>
    <3>1. Len(w) = 1
      BY <2>1, <1>0, <1>1, <1>2
    <3> QED BY <2>1, <3>1 DEF Final
  <2>2. CASE r # <<>>
    <3>1. r[Len(r)] = w[Len(r) + 1] /\ Len(r) + 1 = Len(w)
      BY <2>2, <1>0, <1>1, <1>4
    <3> QED BY <2>2, <3>1 DEF Final
  <2> QED BY <2>1, <2>2
<1> QED
  BY <1>0, <1>1, <1>3, <1>5, <1>6, <1>7 DEF r

\* A header read between frames.
LEMMA HeaderRead ==
  ASSUME NEW w \in Seq(Unit), NEW s \in C!Sessions, NEW s2 \in C!Sessions,
         NEW c, NEW n \in Nat, NEW sh \in Seq(Seq(Unit)), w # <<>>,
         Streamed(w, s, c, n, sh), s.pc = "header", s2.got = <<>>,
         \/ s2.pc = "ackHello" /\ w[1] = Header("hello")
         \/ s2.pc = "pixels" /\ w[1] = Header("frame")
  PROVE  Streamed(Tail(w), s2, c, n, sh)
<1>1. Behind(s2) = w[1]
  BY DEF Behind
<1>2. ~ HasRead(s2)
  BY DEF HasRead
<1>3. GotOne(s2, n, sh)
  <2>1. Len(s2.got) = 0
    OBVIOUS
  <2> QED BY <2>1, <1>2, Units DEF GotOne
<1>4. Chain(Behind(s), w) /\ Newest(w, n) /\ After(w, s, sh)
      /\ (c # "closed" => Whole(Final(Behind(s), w)))
  BY DEF Streamed
<1>5. /\ Chain(w[1], Tail(w)) /\ Newest(Tail(w), n)
      /\ Final(w[1], Tail(w)) = Final(Behind(s), w)
      /\ \A i \in 1..Len(Tail(w)) :
           /\ i + 1 \in 1..Len(w) /\ Tail(w)[i] = w[i + 1]
           /\ \A j \in 1..(i - 1) : j \in 1..Len(Tail(w)) /\ j + 1 \in 1..i
  BY <1>4, Rest, Zenon
<1>6. After(Tail(w), s2, sh)
  <2>1. ASSUME NEW j \in 1..Len(Tail(w)), Opens(Tail(w)[j])
        PROVE  /\ \A i \in 1..(j - 1) : Tail(w)[i].frame < Tail(w)[j].frame
               /\ Below(sh, Tail(w)[j].frame)
    <3>1. j + 1 \in 1..Len(w) /\ Tail(w)[j] = w[j + 1] /\ (j + 1) - 1 = j
      BY <1>5
    <3>2. (\A i \in 1..j : w[i].frame < w[j + 1].frame) /\ Below(sh, w[j + 1].frame)
      BY <2>1, <3>1, <1>4 DEF After
    <3>3. ASSUME NEW i \in 1..(j - 1) PROVE Tail(w)[i].frame < Tail(w)[j].frame
      <4>1. i \in 1..Len(Tail(w)) /\ i + 1 \in 1..j
        BY <1>5
      <4>2. Tail(w)[i] = w[i + 1]
        BY <4>1, <1>5
      <4> QED BY <4>1, <4>2, <3>1, <3>2
    <3> QED BY <3>1, <3>2, <3>3
  <2> QED BY <2>1, <1>2 DEF After
<1> QED
  BY <1>1, <1>3, <1>4, <1>5, <1>6 DEF Streamed

\* A unit of pixels read: the next one of the frame being read.
LEMMA PixelRead ==
  ASSUME NEW w \in Seq(Unit), NEW s \in C!Sessions, NEW s2 \in C!Sessions,
         NEW c, NEW n \in Nat, NEW sh \in Seq(Seq(Unit)), w # <<>>,
         Streamed(w, s, c, n, sh), s.pc = "pixels", s2.got = Append(s.got, w[1]),
         s2.pc = IF Len(s2.got) = PixelUnits THEN "ack" ELSE "pixels"
  PROVE  Streamed(Tail(w), s2, c, n, sh)
<1> DEFINE u == Behind(s)
           v == w[1]
           len == Len(s.got)
<1>0. PixelUnits \in Nat /\ PixelUnits > 0
  BY Units
<1>1. Chain(u, w) /\ Newest(w, n) /\ After(w, s, sh) /\ GotOne(s, n, sh)
      /\ (c # "closed" => Whole(Final(u, w)))
  BY DEF Streamed
<1>2. /\ Chain(v, Tail(w)) /\ Newest(Tail(w), n)
      /\ Final(v, Tail(w)) = Final(u, w)
      /\ v \in Unit /\ 1 \in 1..Len(w)
      /\ \A i \in 1..Len(Tail(w)) :
           /\ i + 1 \in 1..Len(w) /\ Tail(w)[i] = w[i + 1]
           /\ \A j \in 1..(i - 1) : j \in 1..Len(Tail(w)) /\ j + 1 \in 1..i
  BY <1>1, Rest, Zenon
<1>3. s.got \in Seq(Unit) /\ s2.got \in Seq(Unit)
  BY SameUnits DEF C!Sessions
<1>4. /\ len \in Nat /\ len < PixelUnits /\ Len(s2.got) = len + 1
      /\ s2.got[len + 1] = v /\ \A k \in 1..len : s2.got[k] = s.got[k]
      /\ (s.got = <<>> <=> len = 0)
  <2>1. len < PixelUnits
    BY <1>1 DEF GotOne
  <2> QED BY <2>1, <1>2, <1>3
<1>5. Follows(v, u)
  BY <1>1 DEF Chain
<1> HIDE DEF u, v, len
\* The frame being read, and that it is newer than those shown.
<1>6. \E m \in 1..n : v = Pixel(m, len + 1) /\ Below(sh, m)
                      /\ \A k \in 1..len : s.got[k] = Pixel(m, k)
  <2>1. CASE len = 0
    <3>1. u = Header("frame")
      BY <2>1, <1>4 DEF u, Behind
    <3>2. v.unit = "pixel" /\ v.part = 1
      BY <3>1, <1>5, Units DEF Follows
    <3>3. v = Pixel(v.frame, 1) /\ v.frame \in 1..MaxFrames
      BY <3>2, <1>2, Units
    <3>4. v.frame <= n /\ Below(sh, v.frame)
      BY <3>2, <1>1, <1>2 DEF Newest, After, Opens, v
    <3>5. v.frame \in 1..n
      BY <3>3, <3>4, Units
    <3> QED BY <2>1, <3>3, <3>4, <3>5
  <2>2. CASE len # 0
    <3>1. PICK m \in 1..n : /\ \A k \in 1..len : s.got[k] = Pixel(m, k)
                            /\ Below(sh, m)
      BY <2>2, <1>1, <1>4 DEF GotOne, HasRead, len
    <3>2. len \in 1..len
      BY <2>2, <1>4
    <3>3. u = Pixel(m, len)
      BY <2>2, <3>1, <3>2, <1>4 DEF u, Behind, len
    <3>4. u.unit = "pixel" /\ u.frame = m /\ u.part = len
      BY <3>3, Units
    <3>5. v.unit = "pixel" /\ v.frame = m /\ v.part = len + 1
      BY <3>4, <1>4, <1>5, <1>0 DEF Follows, Whole
    <3>6. v = Pixel(m, len + 1)
      BY <3>5, <1>2, Units
    <3> QED BY <3>1, <3>6
  <2> QED BY <2>1, <2>2
<1>7. PICK m \in 1..n : v = Pixel(m, len + 1) /\ Below(sh, m)
                        /\ \A k \in 1..len : s.got[k] = Pixel(m, k)
  BY <1>6
<1>8. \A k \in 1..Len(s2.got) : s2.got[k] = Pixel(m, k)
  <2> TAKE k \in 1..Len(s2.got)
  <2>1. k \in 1..len \/ k = len + 1
    BY <1>4
  <2> QED BY <2>1, <1>4, <1>7
<1>9. GotOne(s2, n, sh)
  <2>1. s2.pc = "pixels" => Len(s2.got) < PixelUnits
    BY <1>0, <1>4
  <2>2. s2.pc \in {"ack", "sink"} => Len(s2.got) = PixelUnits
    OBVIOUS
  <2> QED BY <2>1, <2>2, <1>7, <1>8 DEF GotOne
<1>10. HasRead(s2) /\ s2.got[1] = Pixel(m, 1)
  <2>1. PICK g \in Seq(Unit) : g = s2.got
    BY <1>3
  <2>2. Len(g) = len + 1 /\ len \in Nat
    BY <2>1, <1>4
  <2>3. 1 \in 1..Len(g) /\ g # <<>>
    BY <2>2
  <2> QED BY <2>1, <2>3, <1>8 DEF HasRead
<1>11. Chain(Behind(s2), Tail(w))
       /\ (c # "closed" => Whole(Final(Behind(s2), Tail(w))))
  <2>1. CASE s2.pc = "pixels"
    <3>1. Behind(s2) = v
      BY <2>1, <1>4, <1>10 DEF Behind, HasRead
    <3> QED BY <3>1, <1>1, <1>2
  <2>2. CASE s2.pc # "pixels"
    <3>1. Behind(s2) = Header("hello") /\ Header("hello").unit = "hello"
      BY <2>2, Units DEF Behind
    <3>2. len + 1 = PixelUnits
      BY <2>2, <1>4
    <3>3. v.unit = "pixel" /\ v.part = PixelUnits
      BY <3>2, <1>7, Units
    <3>4. Whole(v) /\ Whole(Behind(s2)) /\ v.unit # "frame"
          /\ Behind(s2).unit # "frame"
      BY <3>1, <3>3 DEF Whole
    <3>5. \A x : Follows(x, v) => Follows(x, Behind(s2))
      BY <3>4 DEF Follows
    <3>6. Chain(Behind(s2), Tail(w))
      BY <3>5, <1>2 DEF Chain
    <3>7. c # "closed" => Whole(Final(Behind(s2), Tail(w)))
      BY <3>4, <1>1, <1>2 DEF Final
    <3> QED BY <3>6, <3>7
  <2> QED BY <2>1, <2>2
<1>12. After(Tail(w), s2, sh)
  <2>1. ASSUME NEW j \in 1..Len(Tail(w)), Opens(Tail(w)[j])
        PROVE  /\ \A i \in 1..(j - 1) : Tail(w)[i].frame < Tail(w)[j].frame
               /\ s2.got[1].frame < Tail(w)[j].frame
               /\ Below(sh, Tail(w)[j].frame)
    <3>1. j + 1 \in 1..Len(w) /\ Tail(w)[j] = w[j + 1] /\ (j + 1) - 1 = j
          /\ 1 \in 1..j
      BY <1>2
    <3>2. /\ \A i \in 1..j : w[i].frame < w[j + 1].frame
          /\ Below(sh, w[j + 1].frame)
      BY <2>1, <3>1, <1>1 DEF After
    <3>3. ASSUME NEW i \in 1..(j - 1) PROVE Tail(w)[i].frame < Tail(w)[j].frame
      <4>1. i \in 1..Len(Tail(w)) /\ i + 1 \in 1..j
        BY <1>2
      <4>2. Tail(w)[i] = w[i + 1]
        BY <4>1, <1>2
      <4> QED BY <4>1, <4>2, <3>1, <3>2
    <3>4. s2.got[1].frame = v.frame
      BY <1>7, <1>10, Units
    <3>5. v.frame < w[j + 1].frame
      BY <3>1, <3>2 DEF v
    <3> QED BY <3>1, <3>2, <3>3, <3>4, <3>5
  <2> QED BY <2>1 DEF After
<1> QED
  BY <1>2, <1>9, <1>11, <1>12 DEF Streamed

\* A frame shown.
LEMMA FrameShown ==
  ASSUME NEW w \in Seq(Unit), NEW s \in C!Sessions, NEW s2 \in C!Sessions,
         NEW c, NEW n \in Nat, NEW sh \in Seq(Seq(Unit)),
         Streamed(w, s, c, n, sh), InOrder(n, sh), s.pc = "sink", s2.pc = "check"
  PROVE  /\ Append(sh, s.got) \in Seq(Seq(Unit))
         /\ Streamed(w, s2, c, n, Append(sh, s.got))
         /\ InOrder(n, Append(sh, s.got))
<1> DEFINE x == Append(sh, s.got)
           len == Len(sh)
<1>0. PixelUnits \in Nat /\ PixelUnits > 0
  BY Units
<1>1. GotOne(s, n, sh) /\ After(w, s, sh)
  BY DEF Streamed
<1>2. s.got \in Seq(Unit)
  BY SameUnits DEF C!Sessions
<1>3. /\ x \in Seq(Seq(Unit)) /\ Len(x) = len + 1 /\ len \in Nat
      /\ x[len + 1] = s.got /\ (\A i \in 1..len : x[i] = sh[i])
      /\ DOMAIN x = 1..(len + 1) /\ DOMAIN sh = 1..len
  BY <1>2
<1>4. Len(s.got) = PixelUnits /\ HasRead(s)
  BY <1>0, <1>1 DEF GotOne, HasRead
<1>5. PICK m \in 1..n : /\ \A k \in 1..PixelUnits : s.got[k] = Pixel(m, k)
                       /\ Below(sh, m)
  BY <1>1, <1>4 DEF GotOne
<1>6. s.got = Pixels(m)
  <2>1. \A k \in 1..PixelUnits : Pixel(m, k) = Pixels(m)[k]
    BY DEF Pixels
  <2>2. DOMAIN s.got = 1..PixelUnits /\ DOMAIN Pixels(m) = 1..PixelUnits
    BY <1>2, <1>4 DEF Pixels
  <2>3. s.got = [k \in 1..PixelUnits |-> s.got[k]]
    <3>1. PICK g \in Seq(Unit) : g = s.got
      BY <1>2
    <3>2. g = [k \in 1..Len(g) |-> g[k]] /\ Len(g) = PixelUnits
      BY <3>1, <1>4
    <3> QED BY <3>1, <3>2
  <2>4. s.got = [k \in 1..PixelUnits |-> Pixel(m, k)]
    BY <2>3, <1>5
  <2> QED BY <2>4 DEF Pixels
<1>7. s.got[1].frame = m
  BY <1>5, <1>0, Units
<1> HIDE DEF x, len
<1>8. InOrder(n, x)
  <2>1. ASSUME NEW i \in 1..(len + 1)
        PROVE  \E k \in 1..n : x[i] = Pixels(k) /\ (i > 1 => k > x[i - 1][1].frame)
    <3>1. CASE i \in 1..len
      <4>1. PICK k \in 1..n : sh[i] = Pixels(k) /\ (i > 1 => k > sh[i - 1][1].frame)
        BY <3>1, <1>3 DEF InOrder
      <4>2. i > 1 => i - 1 \in 1..len
        BY <3>1, <1>3
      <4> QED BY <4>1, <4>2, <3>1, <1>3
    <3>2. CASE i = len + 1
      <4>1. x[i] = Pixels(m)
        BY <3>2, <1>3, <1>6
      <4>2. i > 1 => m > x[i - 1][1].frame
        <5> HAVE i > 1
        <5>1. i - 1 \in 1..len /\ x[i - 1] = sh[i - 1]
          BY <3>2, <1>3
        <5>2. PICK k \in 1..n : sh[i - 1] = Pixels(k)
          BY <5>1, <1>3 DEF InOrder
        <5>3. sh[i - 1][1].frame = k
          BY <5>2, <1>0, Units DEF Pixels
        <5>4. sh[i - 1][1].frame < m
          BY <5>1, <1>5 DEF Below, len
        <5> QED BY <5>1, <5>3, <5>4
      <4> QED BY <4>1, <4>2
    <3> QED BY <3>1, <3>2, <1>3
  <2> QED BY <2>1, <1>3 DEF InOrder
<1>9. Behind(s2) = Behind(s) /\ ~ HasRead(s2) /\ GotOne(s2, n, x)
  BY DEF Behind, HasRead, GotOne
<1>10. After(w, s2, x)
  <2>1. ASSUME NEW j \in 1..Len(w), Opens(w[j]) PROVE Below(x, w[j].frame)
    <3>1. m < w[j].frame /\ Below(sh, w[j].frame)
      BY <2>1, <1>1, <1>4, <1>7 DEF After
    <3>2. ASSUME NEW i \in 1..Len(x) PROVE x[i][1].frame < w[j].frame
      <4>1. CASE i \in 1..len
        BY <4>1, <3>1, <1>3 DEF Below, len
      <4>2. CASE i = len + 1
        BY <4>2, <3>1, <1>3, <1>7
      <4> QED BY <4>1, <4>2, <1>3
    <3> QED BY <3>2 DEF Below
  <2> QED BY <2>1, <1>1, <1>9 DEF After
<1>11. Streamed(w, s2, c, n, x)
  BY <1>9, <1>10 DEF Streamed
<1> QED
  BY <1>3, <1>8, <1>11 DEF x

----------------------------------------------------------------------------
(* The invariant of Capture.                                               *)

GoodAt(h) == Good(toMod[h], drawer[h], session[h], closer[h], streaming[h],
                  framesMade[h], shown[h])

StreamTypes ==
  /\ toMod \in [Helpers -> Seq(Unit)] /\ drawer \in [Helpers -> Seq(Unit)]
  /\ session \in [Helpers -> C!Sessions] /\ closer \in [Helpers -> C!Closers]
  /\ streaming \in [Helpers -> BOOLEAN]
  /\ framesMade \in [Helpers -> 0..MaxFrames]
  /\ shown \in [Helpers -> Seq(Seq(Unit))]

Streams ==
  Promised("quietStop") /\ Promised("wholeHeaders") => \A h \in Helpers : GoodAt(h)

\* A unit sent is a header or one of those to be written.
LEMMA WriteTypes ==
  ASSUME NEW h \in Helpers, NEW u \in Unit, StreamTypes, C!Write(h, u)
  PROVE  toMod' \in [Helpers -> Seq(Unit)]
BY DEF StreamTypes, C!Write

LEMMA HelperTypes ==
  ASSUME NEW h \in Helpers, StreamTypes,
         \/ C!AskConsent(h) \/ C!Answer(h) \/ C!Connect(h) \/ C!BeginFrame(h)
         \/ C!StopStreaming(h) \/ C!Die(h) \/ C!HelperWrites(h) \/ C!ReadAck(h)
  PROVE  StreamTypes'
<1>1. \A t \in {"hello", "frame", "bye", "torn"} : C!Header(t) \in Unit
  BY SameUnits, Units
<1>2. CASE C!AskConsent(h) \/ C!Answer(h) \/ C!Connect(h)
  BY <1>2 DEF C!AskConsent, C!Answer, C!StartWithConsent, C!Connect,
     C!Becomes, C!service,
              C!picture, StreamTypes, C!Closers
<1>3. CASE C!BeginFrame(h)
  <2>1. framesMade[h] \in 0..MaxFrames /\ framesMade[h] < MaxFrames
    BY <1>3 DEF C!BeginFrame, StreamTypes
  <2>2. <<C!Header("frame")>> \o C!Pixels(framesMade[h] + 1) \in Seq(Unit)
    <3>1. PICK n \in 1..MaxFrames : n = framesMade[h] + 1
      BY <2>1, Units
    <3>2. Pixels(n) \in Seq(Unit)
      <4>1. \A k \in 1..PixelUnits : Pixel(n, k) \in Unit
        BY Units
      <4>2. Pixels(n) \in [1..PixelUnits -> Unit]
        BY <4>1 DEF Pixels
      <4> HIDE DEF Pixels
      <4> QED BY <4>2, Units
    <3>3. <<Header("frame")>> \in Seq(Unit)
      BY Units
    <3>4. <<Header("frame")>> \o Pixels(n) \in Seq(Unit)
      BY <3>2, <3>3, JoinedUnits, Zenon
    <3> QED BY <3>1, <3>4, SameUnits
  <2>3. framesMade[h] + 1 \in 0..MaxFrames
    BY <2>1, Units
  <2> QED BY <1>3, <2>2, <2>3 DEF C!BeginFrame, C!service, C!picture, StreamTypes
<1>4. CASE C!StopStreaming(h)
  BY <1>4 DEF C!StopStreaming, C!service, C!picture, StreamTypes, C!Closers
<1>5. CASE C!Die(h)
  <2>1. toMod' \in [Helpers -> Seq(Unit)]
    BY <1>5, <1>1, WriteTypes DEF C!Die, StreamTypes
  <2>2. drawer' \in [Helpers -> Seq(Unit)]
    <3>1. <<>> \in Seq(Unit)
      OBVIOUS
    <3> QED BY <1>5, <3>1 DEF C!Die, StreamTypes
  <2>3. closer' \in [Helpers -> C!Closers] /\ streaming' \in [Helpers -> BOOLEAN]
    BY <1>5 DEF C!Die, StreamTypes, C!Closers
  <2> QED BY <1>5, <2>1, <2>2, <2>3 DEF C!Die, C!service, C!picture, StreamTypes
<1>6. CASE C!SendHello(h)
  <2>1. toMod' \in [Helpers -> Seq(Unit)]
    BY <1>6, <1>1, WriteTypes DEF C!SendHello
  <2> QED BY <1>6, <2>1 DEF C!SendHello, C!service, C!picture, StreamTypes,
             C!Closers
<1>7. CASE C!SendUnit(h)
  <2>1. drawer[h] \in Seq(Unit) /\ drawer[h] # <<>>
    BY <1>7 DEF C!SendUnit, StreamTypes
  <2>2. Head(drawer[h]) \in Unit /\ Tail(drawer[h]) \in Seq(Unit)
    BY <2>1
  <2>3. toMod' \in [Helpers -> Seq(Unit)]
    BY <1>7, <2>2, WriteTypes DEF C!SendUnit
  <2> QED BY <1>7, <2>2, <2>3 DEF C!SendUnit, C!service, C!picture, StreamTypes
<1>8. CASE C!SendFails(h)
  BY <1>8 DEF C!SendFails, C!service, C!picture, StreamTypes
<1>9. CASE C!SayBye(h)
  <2>1. toMod' \in [Helpers -> Seq(Unit)]
    BY <1>9, <1>1, WriteTypes DEF C!SayBye, StreamTypes
  <2> QED BY <1>9, <2>1 DEF C!SayBye, C!service, C!picture, StreamTypes, C!Closers
<1>10. CASE C!CloseSocket(h)
  <2>1. toMod' \in [Helpers -> Seq(Unit)]
    <3>1. <<>> \in Seq(Unit)
      OBVIOUS
    <3>2. toMod' = toMod \/ toMod' = [toMod EXCEPT ![h] = <<>>]
      BY <1>10 DEF C!CloseSocket
    <3> QED BY <3>1, <3>2 DEF StreamTypes
  <2> QED BY <1>10, <2>1 DEF C!CloseSocket, C!service, C!picture, StreamTypes,
             C!Closers
<1>11. CASE C!ReadAck(h)
  BY <1>11 DEF C!ReadAck, C!service, C!helperSide, C!picture, StreamTypes
<1> QED
  BY <1>2, <1>3, <1>4, <1>5, <1>6, <1>7, <1>8, <1>9, <1>10, <1>11 DEF C!HelperWrites

\* What the sessions do, one by one.
LEMMA SessionTypes ==
  ASSUME NEW h \in Helpers, StreamTypes, C!SessionStep(h)
  PROVE  StreamTypes'
<1>1. /\ session[h] \in C!Sessions /\ toMod[h] \in Seq(Unit)
      /\ session[h].got \in Seq(Unit)
  BY SameUnits DEF StreamTypes, C!Sessions
<1>2. \A place \in {"none", "check", "header", "pixels", "ackHello", "ack", "sink",
                    "closed"} :
        C!Goto(h, place) => session' \in [Helpers -> C!Sessions]
  <2> TAKE place \in {"none", "check", "header", "pixels", "ackHello", "ack", "sink",
                      "closed"}
  <2>1. PICK s \in C!Sessions : s = [session[h] EXCEPT !.pc = place]
    BY <1>1 DEF C!Sessions
  <2>2. C!Goto(h, place) => session' = [session EXCEPT ![h] = s]
    BY <2>1 DEF C!Goto, StreamTypes
  <2> QED BY <2>2 DEF StreamTypes
<1>3. C!Take(h) /\ toMod[h] # <<>> => toMod' \in [Helpers -> Seq(Unit)]
  <2>1. toMod[h] # <<>> => Tail(toMod[h]) \in Seq(Unit)
    BY <1>1
  <2> QED BY <2>1 DEF C!Take, StreamTypes
<1>4. CASE C!CheckRunning(h)
  <2>1. session' \in [Helpers -> C!Sessions]
    BY <1>4, <1>2 DEF C!CheckRunning
  <2> QED BY <1>4, <2>1 DEF C!CheckRunning, C!service, C!helperSide,
             C!picture, StreamTypes
<1>5. CASE C!ReadHeader(h)
  <2>1. PICK place \in C!Leads(Head(toMod[h])) :
          session' = [session EXCEPT ![h] = [pc |-> place, got |-> <<>>]]
    BY <1>5 DEF C!ReadHeader
  <2>2. place \in {"ack", "ackHello", "check", "closed", "pixels"}
    BY DEF C!Leads
  <2>3. <<>> \in Seq(C!Unit)
    OBVIOUS
  <2>4. [pc |-> place, got |-> <<>>] \in C!Sessions
    BY <2>2, <2>3 DEF C!Sessions
  <2>5. session' \in [Helpers -> C!Sessions]
    BY <2>1, <2>4 DEF StreamTypes
  <2> QED BY <1>5, <2>5, <1>3 DEF C!ReadHeader, C!service, C!helperSide,
             C!picture, StreamTypes
<1>6. CASE C!ReadPixels(h)
  <2> DEFINE more == Append(session[h].got, Head(toMod[h]))
  <2>1. more \in Seq(C!Unit)
    <3>1. toMod[h] # <<>>
      BY <1>6 DEF C!ReadPixels
    <3>2. Head(toMod[h]) \in Unit
      BY <3>1, <1>1
    <3> QED BY <3>2, <1>1, SameUnits
  <2>2. session' = [session EXCEPT ![h] =
          [pc |-> IF Len(more) = PixelUnits THEN "ack" ELSE "pixels", got |-> more]]
    BY <1>6 DEF C!ReadPixels
  <2> HIDE DEF more
  <2>3. [pc |-> IF Len(more) = PixelUnits THEN "ack" ELSE "pixels", got |-> more]
          \in C!Sessions
    BY <2>1 DEF C!Sessions
  <2>4. session' \in [Helpers -> C!Sessions]
    BY <2>2, <2>3 DEF StreamTypes
  <2> QED BY <1>6, <2>4, <1>3 DEF C!ReadPixels, C!service, C!helperSide,
             C!picture, StreamTypes
<1>7. CASE C!ReadFails(h)
  BY <1>7, <1>2 DEF C!ReadFails, C!service, C!helperSide, C!picture, StreamTypes
<1>8. CASE C!SendOk(h)
  <2>1. session' \in [Helpers -> C!Sessions]
    BY <1>8, <1>2 DEF C!SendOk
  <2> QED BY <1>8, <2>1 DEF C!SendOk, C!service, C!helperSide, C!picture,
             StreamTypes
<1>9. CASE C!GiveToSink(h)
  <2>1. session' \in [Helpers -> C!Sessions]
    BY <1>9, <1>2 DEF C!GiveToSink
  <2>2. shown' \in [Helpers -> Seq(Seq(Unit))]
    <3>1. shown[h] \in Seq(Seq(Unit))
      BY DEF StreamTypes
    <3>2. Append(shown[h], session[h].got) \in Seq(Seq(Unit))
      BY <3>1, <1>1
    <3> QED BY <1>9, <3>2 DEF C!GiveToSink, C!OnFrameUpdated, C!picture, StreamTypes
  <2> QED BY <1>9, <2>1, <2>2 DEF C!GiveToSink, C!service, C!helperSide, StreamTypes
<1> QED
  BY <1>4, <1>5, <1>6, <1>7, <1>8, <1>9 DEF C!SessionStep

LEMMA TypesStep ==
  ASSUME StreamTypes, [C!Next]_(C!vars)
  PROVE  StreamTypes'
<1>1. CASE \E h \in Helpers :
             \/ C!AskConsent(h) \/ C!Answer(h) \/ C!Connect(h) \/ C!BeginFrame(h)
             \/ C!StopStreaming(h) \/ C!Die(h) \/ C!HelperWrites(h) \/ C!ReadAck(h)
  BY <1>1, HelperTypes
<1>2. CASE \E h \in Helpers : C!SessionStep(h)
  BY <1>2, SessionTypes
<1>3. CASE \E h \in Helpers : C!Accept(h)
  <2>1. PICK h \in Helpers : C!Accept(h)
    BY <1>3
  <2>2. session' \in [Helpers -> C!Sessions] /\ closer' \in [Helpers -> C!Closers]
    BY <2>1 DEF C!Accept, StreamTypes, C!Sessions, C!Closers
  <2> QED BY <2>1, <2>2 DEF C!Accept, C!picture, StreamTypes
<1>4. CASE C!JoinSessions
  <2>1. closer' \in [Helpers -> C!Closers]
    BY <1>4 DEF C!JoinSessions, StreamTypes, C!Closers
  <2> QED BY <1>4, <2>1 DEF C!JoinSessions, C!picture, StreamTypes
<1>5. CASE C!Start \/ C!SetFrameSink \/ C!BeginStop \/ C!EndStop \/ C!Knock
           \/ UNCHANGED C!vars
  BY <1>5 DEF C!Start, C!SetFrameSink, C!BeginStop, C!EndStop, C!Knock, C!vars,
              C!service, C!helperSide, C!picture, StreamTypes
<1> QED
  BY <1>1, <1>2, <1>3, <1>4, <1>5 DEF C!Next, C!AcceptStep

\* A step of one helper and its session leaves the others alone.
LEMMA OfOne ==
  ASSUME NEW h \in Helpers, promises' = promises, Streams,
         \A g \in Helpers \ {h} :
           /\ toMod'[g] = toMod[g] /\ drawer'[g] = drawer[g]
           /\ session'[g] = session[g] /\ closer'[g] = closer[g]
           /\ streaming'[g] = streaming[g] /\ framesMade'[g] = framesMade[g]
           /\ shown'[g] = shown[g],
         Promised("quietStop") /\ Promised("wholeHeaders") => GoodAt(h)'
  PROVE  Streams'
<1> SUFFICES ASSUME Promised("quietStop") /\ Promised("wholeHeaders"), NEW g \in Helpers
             PROVE  GoodAt(g)'
  BY DEF Streams, Promised
<1>1. CASE g = h
  BY <1>1
<1>2. CASE g # h
  <2>1. GoodAt(g)
    BY DEF Streams
  <2> QED BY <1>2, <2>1 DEF GoodAt
<1> QED BY <1>1, <1>2

\* Steps that move a helper on without writing.
LEMMA Moving ==
  ASSUME NEW h \in Helpers, StreamTypes, GoodAt(h), NEW place \in C!Closers,
         C!Becomes(h, place), closer[h] # "open",
         place \in Early => closer[h] \in Early, closer[h] # "closed" 
  PROVE  GoodAt(h)'
<1>1. closer'[h] = place
  BY DEF C!Becomes, StreamTypes
<1>2. Good(toMod[h], drawer[h], session[h], place, streaming[h], framesMade[h], shown[h])
  BY Moves DEF GoodAt
<1> QED
  BY <1>1, <1>2 DEF GoodAt, C!Becomes, C!service, C!picture

LEMMA Approaching ==
  ASSUME NEW h \in Helpers, StreamTypes, GoodAt(h),
         C!AskConsent(h) \/ C!Answer(h) \/ C!Connect(h)
  PROVE  GoodAt(h)'
<1>1. CASE C!AskConsent(h)
  BY <1>1, Moving DEF C!AskConsent, C!Closers, Early
<1>2. CASE C!Answer(h)
  BY <1>2, Moving DEF C!Answer, C!StartWithConsent, C!Closers, Early
<1>3. CASE C!Connect(h)
  BY <1>3, Moving DEF C!Connect, C!Closers, Early
<1> QED BY <1>1, <1>2, <1>3

\* The values at one helper.
LEMMA AtOne ==
  ASSUME NEW h \in Helpers, StreamTypes
  PROVE  /\ toMod[h] \in Seq(Unit) /\ drawer[h] \in Seq(Unit)
         /\ toMod[h] \o drawer[h] \in Seq(Unit)
         /\ session[h] \in C!Sessions /\ session[h].got \in Seq(Unit)
         /\ closer[h] \in C!Closers /\ streaming[h] \in BOOLEAN
         /\ framesMade[h] \in Nat /\ framesMade[h] <= MaxFrames
         /\ shown[h] \in Seq(Seq(Unit))
<1>1. toMod[h] \in Seq(Unit) /\ drawer[h] \in Seq(Unit) /\ session[h] \in C!Sessions
      /\ closer[h] \in C!Closers /\ streaming[h] \in BOOLEAN
      /\ shown[h] \in Seq(Seq(Unit))
  BY DEF StreamTypes
<1>2. framesMade[h] \in 0..MaxFrames
  BY DEF StreamTypes
<1>3. framesMade[h] \in Nat /\ framesMade[h] <= MaxFrames
  BY <1>2, Units
<1>4. session[h].got \in Seq(Unit)
  BY <1>1, SameUnits DEF C!Sessions
<1>5. toMod[h] \o drawer[h] \in Seq(Unit)
  BY <1>1, JoinedUnits, Zenon
<1> QED BY <1>1, <1>3, <1>4, <1>5

\* A message is written by a helper that has no frame to write.
LEMMA Speaking ==
  ASSUME NEW h \in Helpers, StreamTypes, GoodAt(h), NEW type \in {"hello", "bye"},
         C!Write(h, C!Header(type)), closer[h] \notin Early \cup {"open", "closed"} 
  PROVE  /\ drawer[h] = <<>>
         /\ session[h].pc # "closed" =>
              \A c : Streamed(toMod'[h] \o drawer[h], session[h], c, framesMade[h],
                             shown[h])
<1> DEFINE w == toMod[h]
           s == session[h]
<1>1. drawer[h] = <<>>
  BY DEF GoodAt, Good, InPlace
<1>2. w \in Seq(Unit) /\ w \o drawer[h] = w
  BY <1>1, AtOne, NothingMore
<1>3. toMod'[h] = Append(w, Header(type))
  BY SameUnits DEF C!Write, StreamTypes
<1>4. toMod'[h] \o drawer[h] = Append(w, Header(type))
  <2>1. w \in Seq(Unit) /\ Header(type) \in Unit
    BY <1>2, Units
  <2>2. PICK u \in Unit : u = Header(type)
    BY <2>1
  <2> HIDE DEF w
  <2>3. Append(w, u) \in Seq(Unit)
    BY <2>1
  <2>4. PICK x \in Seq(Unit) : x = Append(w, Header(type))
    BY <2>2, <2>3
  <2> QED BY <2>4, <1>1, <1>3, NothingMore
<1>5. ASSUME s.pc # "closed", NEW c
      PROVE  Streamed(Append(w, Header(type)), s, c, framesMade[h], shown[h])
  <2>1. Streamed(w, s, closer[h], framesMade[h], shown[h])
    BY <1>2, <1>5 DEF GoodAt, Good
  <2>2. closer[h] # "closed"
    OBVIOUS
  <2> HIDE DEF w, s
  <2>3. s \in C!Sessions /\ framesMade[h] \in Nat /\ shown[h] \in Seq(Seq(Unit))
    BY AtOne DEF s
  <2> QED BY <2>1, <2>2, <2>3, <1>2, Says
<1> QED
  BY <1>1, <1>4, <1>5

LEMMA SendHelloGood ==
  ASSUME NEW h \in Helpers, StreamTypes, GoodAt(h), C!SendHello(h)
  PROVE  GoodAt(h)'
<1>1. closer[h] = "hello" /\ C!Write(h, C!Header("hello"))
      /\ closer'[h] = "open" /\ streaming'[h] = TRUE
      /\ session' = session /\ drawer' = drawer /\ framesMade' = framesMade
      /\ shown' = shown
  BY DEF C!SendHello, StreamTypes, C!picture
<1>2. session[h].pc # "closed" =>
        Streamed(toMod'[h] \o drawer[h], session[h], "open", framesMade[h], shown[h])
  BY <1>1, Speaking DEF Early
<1> QED
  BY <1>1, <1>2 DEF GoodAt, Good, InPlace, Early

LEMMA BeginFrameGood ==
  ASSUME NEW h \in Helpers, StreamTypes, GoodAt(h), C!BeginFrame(h)
  PROVE  GoodAt(h)'
<1> DEFINE w == toMod[h]
           s == session[h]
           n == framesMade[h]
           c == closer[h]
           sh == shown[h]
<1>1. /\ streaming[h] /\ drawer[h] = <<>> /\ n < MaxFrames
      /\ framesMade'[h] = n + 1
      /\ drawer'[h] = <<Header("frame")>> \o Pixels(n + 1)
      /\ session' = session /\ streaming' = streaming /\ closer' = closer
      /\ toMod' = toMod /\ shown' = shown
  BY SameUnits DEF C!BeginFrame, StreamTypes, C!picture
<1>2. c = "open" /\ InOrder(n, sh)
  BY <1>1 DEF GoodAt, Good, InPlace
<1>3. w \in Seq(Unit) /\ w \o drawer[h] = w
  BY <1>1, AtOne, NothingMore
<1>4. s \in C!Sessions /\ n \in Nat /\ sh \in Seq(Seq(Unit))
  BY AtOne
<1>5. s.pc # "closed" => Streamed(w, s, c, n, sh)
  BY <1>3 DEF GoodAt, Good
<1>6. InPlace(w, drawer'[h], s, c, streaming[h])
  BY <1>2 DEF InPlace, Early
<1> HIDE DEF w, s, n, c, sh
<1>7. s.pc # "closed" =>
        Streamed(w \o (<<Header("frame")>> \o Pixels(n + 1)), s, c, n + 1, sh)
  <2>1. c # "closed"
    BY <1>2
  <2> QED BY <2>1, <1>1, <1>2, <1>3, <1>4, <1>5, Begins
<1>8. InOrder(n + 1, sh)
  <2>1. \A m \in 1..n : m \in 1..(n + 1)
    BY <1>4
  <2> QED BY <2>1, <1>2, Zenon DEF InOrder
<1>9. Good(w, drawer'[h], s, c, streaming[h], n + 1, sh)
  BY <1>1, <1>6, <1>7, <1>8 DEF Good
<1> QED
  BY <1>1, <1>9 DEF GoodAt, w, s, n, c, sh

LEMMA SendUnitGood ==
  ASSUME NEW h \in Helpers, StreamTypes, GoodAt(h), C!SendUnit(h)
  PROVE  GoodAt(h)'
<1>1. /\ C!Connected(h) /\ drawer[h] # <<>>
      /\ toMod'[h] = Append(toMod[h], Head(drawer[h])) /\ drawer'[h] = Tail(drawer[h])
      /\ session' = session /\ streaming' = streaming /\ closer' = closer
      /\ framesMade' = framesMade /\ shown' = shown
  BY DEF C!SendUnit, C!Write, StreamTypes, C!picture
<1>2. toMod'[h] \o drawer'[h] = toMod[h] \o drawer[h]
  BY <1>1, AtOne, Moved
<1>3. closer[h] = "open"
  BY <1>1 DEF GoodAt, Good, InPlace
<1>4. InPlace(toMod'[h], drawer'[h], session[h], closer[h], streaming[h])
  BY <1>3 DEF InPlace, Early
<1> QED
  BY <1>1, <1>2, <1>4 DEF GoodAt, Good

LEMMA SendFailsGood ==
  ASSUME NEW h \in Helpers, StreamTypes, GoodAt(h), C!SendFails(h)
  PROVE  GoodAt(h)'
<1>1. /\ drawer[h] # <<>> /\ drawer'[h] = <<>> /\ streaming'[h] = FALSE
      /\ closer[h] = "closed" \/ session[h].pc = "closed"
      /\ session' = session /\ closer' = closer /\ toMod' = toMod
      /\ framesMade' = framesMade /\ shown' = shown
  BY DEF C!SendFails, StreamTypes, C!picture
<1>2. closer[h] = "open" /\ session[h].pc = "closed"
  BY <1>1 DEF GoodAt, Good, InPlace
<1> QED
  BY <1>1, <1>2 DEF GoodAt, Good, InPlace, Early

LEMMA StopStreamingGood ==
  ASSUME NEW h \in Helpers, StreamTypes, GoodAt(h), C!StopStreaming(h),
         Promised("quietStop")
  PROVE  GoodAt(h)'
<1>1. /\ closer[h] = "open" /\ closer'[h] = "stopping" /\ streaming'[h] = FALSE
      /\ drawer[h] = <<>>
      /\ session' = session /\ drawer' = drawer /\ toMod' = toMod
      /\ framesMade' = framesMade /\ shown' = shown
  BY SameUnits DEF C!StopStreaming, StreamTypes, C!picture
<1> QED
  BY <1>1 DEF GoodAt, Good, InPlace, Early, Streamed

LEMMA SayByeGood ==
  ASSUME NEW h \in Helpers, StreamTypes, GoodAt(h), C!SayBye(h)
  PROVE  GoodAt(h)'
<1>1. /\ closer[h] = "stopping" /\ closer'[h] = "said"
      /\ C!Write(h, C!Header("bye")) \/ (session[h].pc = "closed" /\ toMod' = toMod)
      /\ session' = session /\ drawer' = drawer /\ streaming' = streaming
      /\ framesMade' = framesMade /\ shown' = shown
  BY DEF C!SayBye, StreamTypes, C!picture
<1>2. session[h].pc # "closed" =>
        Streamed(toMod'[h] \o drawer[h], session[h], "said", framesMade[h], shown[h])
  BY <1>1, Speaking DEF Early
<1> QED
  BY <1>1, <1>2 DEF GoodAt, Good, InPlace, Early

\* What a helper that is gone leaves in flight is the beginning of its stream.
LEMMA Ending ==
  ASSUME NEW h \in Helpers, StreamTypes, GoodAt(h), NEW v \in Seq(Unit),
         v = <<>> \/ v = toMod[h],
         toMod'[h] = v, drawer'[h] = <<>>, closer'[h] = "closed",
         streaming'[h] = FALSE, session' = session, framesMade' = framesMade,
         shown' = shown
  PROVE  GoodAt(h)'
<1> DEFINE w == toMod[h] \o drawer[h]
<1>1. /\ w \in Seq(Unit) /\ Len(v) <= Len(w) /\ \A i \in 1..Len(v) : v[i] = w[i]
  <2>1. CASE v = <<>>
    <3>1. w \in Seq(Unit)
      BY AtOne
    <3> HIDE DEF w
    <3> QED BY <2>1, <3>1
  <2>2. CASE v = toMod[h]
    <3>1. PICK d \in Seq(Unit) : d = drawer[h]
      BY AtOne
    <3>2. /\ v \o d \in Seq(Unit) /\ Len(v \o d) = Len(v) + Len(d)
          /\ \A i \in 1..Len(v) : (v \o d)[i] = v[i]
      BY <3>1, JoinedUnits, Zenon
    <3>3. Len(v) <= Len(v) + Len(d)
      BY <3>1
    <3>4. w = v \o d
      BY <2>2, <3>1
    <3> QED BY <3>2, <3>3, <3>4
  <2> QED BY <2>1, <2>2
<1>2. session[h].pc # "closed" =>
        Streamed(w, session[h], closer[h], framesMade[h], shown[h])
  BY DEF GoodAt, Good
<1> HIDE DEF w
<1>3. session[h].pc # "closed" =>
        Streamed(v, session[h], "closed", framesMade[h], shown[h])
  BY <1>1, <1>2, Cut
<1>4. v \o <<>> = v
  BY NothingMore
<1> QED
  BY <1>3, <1>4 DEF GoodAt, Good, InPlace, Early

LEMMA CloseSocketGood ==
  ASSUME NEW h \in Helpers, StreamTypes, GoodAt(h), C!CloseSocket(h)
  PROVE  GoodAt(h)'
<1>1. /\ closer[h] = "said" /\ closer'[h] = "closed"
      /\ toMod'[h] = toMod[h] \/ toMod'[h] = <<>>
      /\ session' = session /\ drawer' = drawer /\ streaming' = streaming
      /\ framesMade' = framesMade /\ shown' = shown
  BY DEF C!CloseSocket, StreamTypes, C!picture
<1>2. drawer[h] = <<>> /\ streaming[h] = FALSE
  BY <1>1, AtOne DEF GoodAt, Good, InPlace
<1>3. <<>> \in Seq(Unit) /\ toMod[h] \in Seq(Unit)
  BY AtOne
<1> QED
  BY <1>1, <1>2, <1>3, Ending

LEMMA DieGood ==
  ASSUME NEW h \in Helpers, StreamTypes, GoodAt(h), C!Die(h), Promised("wholeHeaders")
  PROVE  GoodAt(h)'
<1>1. /\ closer'[h] = "closed" /\ drawer'[h] = <<>> /\ streaming'[h] = FALSE
      /\ toMod' = toMod
      /\ session' = session /\ framesMade' = framesMade /\ shown' = shown
  BY SameUnits DEF C!Die, StreamTypes, C!picture
<1>2. toMod[h] \in Seq(Unit)
  BY AtOne
<1> QED
  BY <1>1, <1>2, Ending


LEMMA CheckRunningGood ==
  ASSUME NEW h \in Helpers, StreamTypes, GoodAt(h), C!CheckRunning(h), StreamTypes'
  PROVE  GoodAt(h)'
<1>1. /\ session[h].pc = "check" /\ session'[h].pc \in {"header", "closed"}
      /\ toMod' = toMod /\ drawer' = drawer /\ closer' = closer
      /\ streaming' = streaming /\ framesMade' = framesMade /\ shown' = shown
  BY DEF C!CheckRunning, C!At, C!Goto, C!helperSide, C!picture, StreamTypes,
     C!Sessions
<1>2. session'[h] \in C!Sessions
  BY DEF StreamTypes
<1>3. session'[h].pc # "closed" =>
        Streamed(toMod[h] \o drawer[h], session'[h], closer[h], framesMade[h], shown[h])
  <2> HAVE session'[h].pc # "closed"
  <2>1. Streamed(toMod[h] \o drawer[h], session[h], closer[h], framesMade[h], shown[h])
    BY <1>1 DEF GoodAt, Good
  <2> QED BY <2>1, <1>1, <1>2, AtOne, Idle
<1> QED
  BY <1>1, <1>3 DEF GoodAt, Good, InPlace

LEMMA SendOkGood ==
  ASSUME NEW h \in Helpers, StreamTypes, GoodAt(h), C!SendOk(h), StreamTypes'
  PROVE  GoodAt(h)'
<1>1. /\ session[h].pc \in {"ackHello", "ack"}
      /\ session'[h].pc \in {"sink", "check"}
      /\ session'[h].pc = "sink" => session[h].pc = "ack"
      /\ session'[h].got = session[h].got
      /\ toMod' = toMod /\ drawer' = drawer /\ closer' = closer
      /\ streaming' = streaming /\ framesMade' = framesMade /\ shown' = shown
  BY DEF C!SendOk, C!At, C!Goto, C!helperSide, C!picture, StreamTypes, C!Sessions
<1>2. session'[h] \in C!Sessions
  BY DEF StreamTypes
<1>3. Streamed(toMod[h] \o drawer[h], session'[h], closer[h], framesMade[h], shown[h])
  <2>1. Streamed(toMod[h] \o drawer[h], session[h], closer[h], framesMade[h], shown[h])
    BY <1>1 DEF GoodAt, Good
  <2> QED BY <2>1, <1>1, <1>2, AtOne, Idle
<1> QED
  BY <1>1, <1>3 DEF GoodAt, Good, InPlace

LEMMA ReadHeaderGood ==
  ASSUME NEW h \in Helpers, StreamTypes, GoodAt(h), C!ReadHeader(h), StreamTypes'
  PROVE  GoodAt(h)'
<1> DEFINE w == toMod[h] \o drawer[h]
           s == session[h]
           s2 == session'[h]
<1>1. /\ s.pc = "header" /\ toMod[h] # <<>>
      /\ s2.pc \in C!Leads(Head(toMod[h])) /\ s2.got = <<>>
      /\ toMod'[h] = Tail(toMod[h])
      /\ drawer' = drawer /\ closer' = closer
      /\ streaming' = streaming /\ framesMade' = framesMade /\ shown' = shown
  BY DEF C!ReadHeader, C!At, C!Take, C!helperSide, C!picture, StreamTypes
<1>2. Streamed(w, s, closer[h], framesMade[h], shown[h])
  BY <1>1 DEF GoodAt, Good
<1>3. /\ Tail(toMod[h]) \o drawer[h] = Tail(w) /\ Head(toMod[h]) = w[1]
      /\ w # <<>> /\ w[1] \in Unit
  BY <1>1, AtOne, TakenFirst
<1>4. w \in Seq(Unit) /\ s \in C!Sessions /\ framesMade[h] \in Nat
      /\ shown[h] \in Seq(Seq(Unit))
  BY AtOne
<1>5. s2 \in C!Sessions
  BY DEF StreamTypes
<1> HIDE DEF w, s, s2
<1>6. w[1].unit # "pixel" /\ w[1].unit # "torn"
  <2>1. Follows(w[1], Header("hello"))
    BY <1>1, <1>2, <1>3 DEF Streamed, Chain, Behind
  <2>2. Header("hello").unit = "hello"
    BY Units
  <2>3. w[1].unit # "pixel"
    BY <2>1, <2>2 DEF Follows, Whole
  <2>4. 1 \in 1..Len(w)
    BY <1>3, <1>4
  <2> QED BY <2>3, <2>4, <1>2 DEF Streamed, Newest
<1>7. \/ s2.pc = "closed"
      \/ s2.pc = "ackHello" /\ w[1] = Header("hello")
      \/ s2.pc = "pixels" /\ w[1] = Header("frame")
  <2>1. w[1] # Header("torn")
    BY <1>6, Units
  <2> QED BY <2>1, <1>1, <1>3, SameUnits DEF C!Leads
<1>8. s2.pc # "closed" => Streamed(Tail(w), s2, closer[h], framesMade[h], shown[h])
  BY <1>1, <1>2, <1>3, <1>4, <1>5, <1>7, HeaderRead
<1>9. InPlace(toMod'[h], drawer[h], s2, closer[h], streaming[h])
  BY <1>1 DEF GoodAt, Good, InPlace, s
<1> QED
  BY <1>1, <1>3, <1>8, <1>9 DEF GoodAt, Good, s2

LEMMA ReadPixelsGood ==
  ASSUME NEW h \in Helpers, StreamTypes, GoodAt(h), C!ReadPixels(h), StreamTypes'
  PROVE  GoodAt(h)'
<1> DEFINE w == toMod[h] \o drawer[h]
           s == session[h]
           s2 == session'[h]
<1>1. /\ s.pc = "pixels" /\ toMod[h] # <<>>
      /\ s2.got = Append(s.got, Head(toMod[h]))
      /\ s2.pc = IF Len(s2.got) = PixelUnits THEN "ack" ELSE "pixels"
      /\ toMod'[h] = Tail(toMod[h])
      /\ drawer' = drawer /\ closer' = closer
      /\ streaming' = streaming /\ framesMade' = framesMade /\ shown' = shown
  BY DEF C!ReadPixels, C!At, C!Take, C!helperSide, C!picture, StreamTypes
<1>2. Streamed(w, s, closer[h], framesMade[h], shown[h])
  BY <1>1 DEF GoodAt, Good
<1>3. /\ Tail(toMod[h]) \o drawer[h] = Tail(w) /\ Head(toMod[h]) = w[1]
      /\ w # <<>> /\ w[1] \in Unit
  BY <1>1, AtOne, TakenFirst
<1>4. w \in Seq(Unit) /\ s \in C!Sessions /\ framesMade[h] \in Nat
      /\ shown[h] \in Seq(Seq(Unit))
  BY AtOne
<1>5. s2 \in C!Sessions
  BY DEF StreamTypes
<1> HIDE DEF w, s, s2
<1>6. Streamed(Tail(w), s2, closer[h], framesMade[h], shown[h])
  BY <1>1, <1>2, <1>3, <1>4, <1>5, PixelRead
<1>7. InPlace(toMod'[h], drawer[h], s2, closer[h], streaming[h])
  BY <1>1 DEF GoodAt, Good, InPlace, s
<1> QED
  BY <1>1, <1>3, <1>6, <1>7 DEF GoodAt, Good, s2

LEMMA ReadFailsGood ==
  ASSUME NEW h \in Helpers, StreamTypes, GoodAt(h), C!ReadFails(h)
  PROVE  GoodAt(h)'
<1>1. /\ session[h].pc \in {"header", "pixels"} /\ session'[h].pc = "closed"
      /\ toMod' = toMod /\ drawer' = drawer /\ closer' = closer
      /\ streaming' = streaming /\ framesMade' = framesMade /\ shown' = shown
  BY DEF C!ReadFails, C!Goto, C!helperSide, C!picture, StreamTypes, C!Sessions
<1> QED
  BY <1>1 DEF GoodAt, Good, InPlace

LEMMA GiveToSinkGood ==
  ASSUME NEW h \in Helpers, StreamTypes, GoodAt(h), C!GiveToSink(h), StreamTypes'
  PROVE  GoodAt(h)'
<1>1. /\ session[h].pc = "sink" /\ session'[h].pc = "check"
      /\ shown'[h] = shown[h] \/ shown'[h] = Append(shown[h], session[h].got)
      /\ toMod' = toMod /\ drawer' = drawer /\ closer' = closer
      /\ streaming' = streaming /\ framesMade' = framesMade
  BY DEF C!GiveToSink, C!At, C!Goto, C!OnFrameUpdated, C!helperSide, C!picture,
         StreamTypes, C!Sessions
<1>2. session'[h] \in C!Sessions
  BY DEF StreamTypes
<1>3. /\ Streamed(toMod[h] \o drawer[h], session[h], closer[h], framesMade[h], shown[h])
      /\ InOrder(framesMade[h], shown[h])
  BY <1>1 DEF GoodAt, Good
<1>4. Streamed(toMod[h] \o drawer[h], session'[h], closer[h], framesMade[h], shown[h])
  BY <1>1, <1>2, <1>3, AtOne, Idle
<1>5. LET x == Append(shown[h], session[h].got)
      IN  /\ Streamed(toMod[h] \o drawer[h], session'[h], closer[h], framesMade[h], x)
          /\ InOrder(framesMade[h], x)
  BY <1>1, <1>2, <1>3, AtOne, FrameShown
<1>6. InPlace(toMod[h], drawer[h], session'[h], closer[h], streaming[h])
  BY <1>1 DEF GoodAt, Good, InPlace
<1>7. /\ Streamed(toMod[h] \o drawer[h], session'[h], closer[h], framesMade[h], shown'[h])
      /\ InOrder(framesMade[h], shown'[h])
  BY <1>1, <1>3, <1>4, <1>5
<1> QED
  BY <1>1, <1>6, <1>7 DEF GoodAt, Good

LEMMA AcceptGood ==
  ASSUME NEW h \in Helpers, StreamTypes, GoodAt(h), C!Accept(h), StreamTypes'
  PROVE  GoodAt(h)'
<1>1. /\ closer[h] = "connecting" /\ closer'[h] = "hello"
      /\ session'[h].pc = "check"
      /\ toMod' = toMod /\ drawer' = drawer
      /\ streaming' = streaming /\ framesMade' = framesMade /\ shown' = shown
  BY DEF C!Accept, StreamTypes, C!Sessions, C!picture
<1>2. session'[h] \in C!Sessions
  BY DEF StreamTypes
<1>3. session[h].pc = "none"
      /\ Streamed(toMod[h] \o drawer[h], session[h], closer[h], framesMade[h], shown[h])
  BY <1>1 DEF GoodAt, Good, InPlace, Early
<1>4. Streamed(toMod[h] \o drawer[h], session'[h], closer[h], framesMade[h], shown[h])
  BY <1>1, <1>2, <1>3, AtOne, Idle
<1>5. Streamed(toMod[h] \o drawer[h], session'[h], "hello", framesMade[h], shown[h])
  BY <1>1, <1>4 DEF Streamed
<1> QED
  BY <1>1, <1>5 DEF GoodAt, Good, InPlace, Early

Approaches(h) == C!AskConsent(h) \/ C!Answer(h) \/ C!Connect(h)
Draws(h) ==
  \/ C!BeginFrame(h) \/ C!StopStreaming(h) \/ C!Die(h)
  \/ C!HelperWrites(h) \/ C!ReadAck(h)
OfHelper(h) == Approaches(h) \/ Draws(h) \/ C!SessionStep(h) \/ C!Accept(h)

LEMMA OthersStay ==
  ASSUME NEW h \in Helpers, NEW g \in Helpers \ {h}, StreamTypes, OfHelper(h)
  PROVE  /\ toMod'[g] = toMod[g] /\ drawer'[g] = drawer[g]
         /\ session'[g] = session[g] /\ closer'[g] = closer[g]
         /\ streaming'[g] = streaming[g] /\ framesMade'[g] = framesMade[g]
         /\ shown'[g] = shown[g] /\ promises' = promises
<1>0. g \in Helpers /\ g # h
  OBVIOUS
<1>1. CASE Approaches(h)
  BY <1>0, <1>1 DEF Approaches, C!AskConsent, C!Answer, C!StartWithConsent,
     C!Connect,
              C!Becomes, C!service, C!picture, StreamTypes
<1>2. CASE C!BeginFrame(h) \/ C!StopStreaming(h) \/ C!Die(h)
  BY <1>0, <1>2 DEF C!BeginFrame, C!StopStreaming, C!Die, C!Write, C!service,
     C!picture, StreamTypes
<1>3. CASE C!SendHello(h) \/ C!SendUnit(h) \/ C!SendFails(h)
  BY <1>0, <1>3 DEF C!SendHello, C!SendUnit, C!SendFails, C!Write, C!service,
     C!picture, StreamTypes
<1>4. CASE C!SayBye(h) \/ C!CloseSocket(h) \/ C!ReadAck(h)
  BY <1>0, <1>4 DEF C!SayBye, C!CloseSocket, C!ReadAck, C!Write, C!helperSide,
     C!service,
              C!picture, StreamTypes
<1>5. CASE C!CheckRunning(h) \/ C!ReadHeader(h) \/ C!ReadPixels(h)
  BY <1>0, <1>5 DEF C!CheckRunning, C!ReadHeader, C!ReadPixels, C!Goto,
     C!Take, C!helperSide,
              C!service, C!picture, StreamTypes
<1>6. CASE C!ReadFails(h) \/ C!SendOk(h) \/ C!GiveToSink(h)
  BY <1>0, <1>6 DEF C!ReadFails, C!SendOk, C!GiveToSink, C!OnFrameUpdated, C!Goto,
              C!helperSide, C!service, C!picture, StreamTypes
<1>7. CASE C!Accept(h)
  BY <1>0, <1>7 DEF C!Accept, C!picture, StreamTypes
<1> QED
  BY <1>1, <1>2, <1>3, <1>4, <1>5, <1>6, <1>7
  DEF OfHelper, Draws, C!HelperWrites, C!SessionStep

\* While frames are written between stops and headers are whole, what a
\* session has read, the units in flight and those to be written are the
\* stream of one helper, frame after frame.
LEMMA StreamsStep ==
  ASSUME StreamTypes, Streams, StreamTypes', [C!Next]_(C!vars)
  PROVE  Streams'
<1>1. ASSUME NEW h \in Helpers, OfHelper(h) PROVE Streams'
  <2>1. promises' = promises
    BY <1>1 DEF OfHelper, Approaches, Draws, C!AskConsent, C!Answer,
       C!StartWithConsent,
           C!Connect, C!Becomes, C!BeginFrame, C!StopStreaming, C!Die,
           C!HelperWrites,
           C!SendHello, C!SendUnit, C!SendFails, C!SayBye, C!CloseSocket, C!ReadAck,
           C!SessionStep, C!CheckRunning, C!ReadHeader, C!ReadPixels, C!ReadFails,
           C!SendOk, C!GiveToSink, C!Accept
  <2>2. ASSUME Promised("quietStop") /\ Promised("wholeHeaders") PROVE GoodAt(h)'
    <3>1. GoodAt(h)
      BY <2>2 DEF Streams
    <3>2. CASE C!ReadAck(h)
      BY <3>1, <3>2 DEF C!ReadAck, C!helperSide, C!picture, GoodAt
    <3>3. CASE Approaches(h)
      BY <3>1, <3>3, Approaching DEF Approaches
    <3>4. CASE C!BeginFrame(h)
      BY <3>1, <3>4, BeginFrameGood
    <3>5. CASE C!StopStreaming(h)
      BY <3>1, <3>5, <2>2, StopStreamingGood
    <3>6. CASE C!Die(h)
      BY <3>1, <3>6, <2>2, DieGood
    <3>7. CASE C!HelperWrites(h)
      BY <3>1, <3>7, SendHelloGood, SendUnitGood, SendFailsGood, SayByeGood,
         CloseSocketGood DEF C!HelperWrites
    <3>8. CASE C!SessionStep(h)
      BY <3>1, <3>8, CheckRunningGood, ReadHeaderGood, ReadPixelsGood,
         ReadFailsGood,
         SendOkGood, GiveToSinkGood DEF C!SessionStep
    <3>9. CASE C!Accept(h)
      BY <3>1, <3>9, AcceptGood
    <3> QED
      BY <1>1, <3>2, <3>3, <3>4, <3>5, <3>6, <3>7, <3>8, <3>9 DEF OfHelper, Draws
  <2> QED BY <1>1, <2>1, <2>2, OthersStay, OfOne
<1>2. CASE C!JoinSessions
  <2>1. /\ promises' = promises /\ toMod' = toMod /\ drawer' = drawer
        /\ session' = session /\ streaming' = streaming /\ framesMade' = framesMade
        /\ shown' = shown
    BY <1>2 DEF C!JoinSessions, C!picture
  <2>2. ASSUME NEW h \in Helpers, GoodAt(h) PROVE GoodAt(h)'
    <3>1. closer'[h] = closer[h] \/ (closer[h] = "connecting" /\ closer'[h] = "closed")
      BY <1>2 DEF C!JoinSessions
    <3>2. CASE closer'[h] = closer[h]
      BY <2>1, <2>2, <3>2 DEF GoodAt
    <3>3. CASE closer[h] = "connecting" /\ closer'[h] = "closed"
      <4>1. Good(toMod[h], drawer[h], session[h], "closed", streaming[h], framesMade[h],
                 shown[h])
        BY <2>2, <3>3, Moves DEF GoodAt, Early
      <4> QED BY <2>1, <3>3, <4>1 DEF GoodAt
    <3> QED BY <3>1, <3>2, <3>3
  <2> QED BY <2>1, <2>2 DEF Streams, Promised
<1>3. CASE C!Start \/ C!SetFrameSink \/ C!BeginStop \/ C!EndStop \/ C!Knock
           \/ UNCHANGED C!vars
  <2>1. /\ promises' = promises /\ toMod' = toMod /\ drawer' = drawer
        /\ session' = session /\ closer' = closer /\ streaming' = streaming
        /\ framesMade' = framesMade /\ shown' = shown
    BY <1>3 DEF C!Start, C!SetFrameSink, C!BeginStop, C!EndStop, C!Knock, C!vars,
                C!service, C!helperSide, C!picture
  <2> QED BY <2>1 DEF Streams, Promised, GoodAt
<1> QED
  BY <1>1, <1>2, <1>3
  DEF C!Next, C!AcceptStep, OfHelper, Approaches, Draws

LEMMA StreamsInit ==
  ASSUME C!Init
  PROVE  StreamTypes /\ Streams
<1>1. StreamTypes
  <2>1. /\ [h \in Helpers |-> <<>>] \in [Helpers -> Seq(Unit)]
        /\ [h \in Helpers |-> <<>>] \in [Helpers -> Seq(Seq(Unit))]
    OBVIOUS
  <2>2. [pc |-> "none", got |-> <<>>] \in C!Sessions
    BY DEF C!Sessions
  <2>3. 0 \in 0..MaxFrames
    BY Units
  <2> QED BY <2>1, <2>2, <2>3 DEF C!Init, StreamTypes, C!Closers
<1>2. ASSUME NEW h \in Helpers PROVE GoodAt(h)
  <2>1. /\ toMod[h] = <<>> /\ drawer[h] = <<>> /\ shown[h] = <<>>
        /\ session[h] = [pc |-> "none", got |-> <<>>] /\ closer[h] = "off"
        /\ streaming[h] = FALSE /\ framesMade[h] = 0
    BY DEF C!Init
  <2>2. PICK w \in Seq(Unit) : w = <<>> /\ w \o <<>> = w
    <3>1. <<>> \in Seq(Unit)
      OBVIOUS
    <3> QED BY <3>1, NothingMore
  <2>3. session[h].pc = "none" /\ session[h].got = <<>> /\ Len(w) = 0
    BY <2>1, <2>2
  <2>4. InPlace(w, w, session[h], "off", FALSE)
    BY <2>2, <2>3 DEF InPlace
  <2>5. Behind(session[h]).unit = "hello"
    BY <2>3, Units DEF Behind
  <2>6. Streamed(w, session[h], "off", 0, w)
    <3>1. ~ HasRead(session[h])
      BY <2>3 DEF HasRead
    <3>2. Chain(Behind(session[h]), w) /\ Newest(w, 0) /\ After(w, session[h], w)
      BY <2>2, <2>3 DEF Chain, Newest, After
    <3>3. GotOne(session[h], 0, w)
      BY <2>3, <3>1 DEF GotOne
    <3>4. Whole(Final(Behind(session[h]), w))
      BY <2>2, <2>5 DEF Final, Whole
    <3> QED BY <3>2, <3>3, <3>4 DEF Streamed
  <2>7. InOrder(0, w)
    <3>1. DOMAIN w = {}
      BY <2>2
    <3> QED BY <3>1 DEF InOrder
  <2> QED BY <2>1, <2>2, <2>4, <2>6, <2>7 DEF GoodAt, Good
<1> QED BY <1>1, <1>2 DEF Streams

\* Whatever the threads do, and for any number of helpers, frames, units of a
\* frame and units in flight: what the game is shown of a helper that stops
\* between frames and dies in no header are whole frames of it, each newer than
\* the one before (the session loop of CaptureService.cpp).
THEOREM FramesShown == C!Spec => []ShownAreFrames
<1>1. C!Init => StreamTypes /\ Streams
  BY StreamsInit
<1>2. StreamTypes /\ Streams /\ [C!Next]_(C!vars) => (StreamTypes /\ Streams)'
  BY TypesStep, StreamsStep
<1>3. Streams => ShownAreFrames
  BY DEF Streams, ShownAreFrames, GoodAt, Good, InOrder
<1> QED
  BY <1>1, <1>2, <1>3, PTL DEF C!Spec

----------------------------------------------------------------------------
(* Capture: the types.                                                     *)

\* What TypeOK says beyond StreamTypes.
ServiceTypes ==
  /\ promises \in Worlds
  /\ running \in BOOLEAN /\ sink \in BOOLEAN
  /\ accepter \in {"off", "accept", "joining", "ended"}
  /\ stopper \in {"off", "started", "joining", "stopped"}
  /\ \A h \in Helpers : Len(toMod[h]) <= Capacity
  /\ acks \in [Helpers -> 0..AckCapacity]
  /\ texture \in Helpers \cup {"none"}

\* A write waits for room, a read makes some.
LEMMA RoomKept ==
  ASSUME Capacity \in Nat, StreamTypes, NEW h \in Helpers,
         \A g \in Helpers : Len(toMod[g]) <= Capacity,
         \/ UNCHANGED toMod
         \/ C!MayWrite(h) /\ \E u \in Unit : C!Write(h, u)
         \/ toMod[h] # <<>> /\ C!Take(h)
         \/ toMod' = [toMod EXCEPT ![h] = <<>>]
  PROVE  \A g \in Helpers : Len(toMod'[g]) <= Capacity
<1> TAKE g \in Helpers
<1>1. PICK t \in Seq(Unit) : t = toMod[h]
  BY DEF StreamTypes
<1>2. Len(t) <= Capacity /\ Len(t) \in Nat /\ Len(toMod[g]) <= Capacity
  BY <1>1
<1>3. CASE UNCHANGED toMod
  BY <1>2, <1>3
<1>4. CASE C!MayWrite(h) /\ \E u \in Unit : C!Write(h, u)
  <2>1. PICK u \in Unit : C!Write(h, u)
    BY <1>4
  <2>2. Len(t) < Capacity
    BY <1>1, <1>4 DEF C!MayWrite
  <2>3. Len(Append(t, u)) <= Capacity
    BY <1>2, <2>2
  <2>4. toMod'[g] = IF g = h THEN Append(t, u) ELSE toMod[g]
    BY <1>1, <2>1 DEF C!Write, StreamTypes
  <2> QED BY <1>2, <2>3, <2>4
<1>5. CASE toMod[h] # <<>> /\ C!Take(h)
  <2>1. Len(Tail(t)) <= Capacity
    <3>1. t # <<>>
      BY <1>1, <1>5
    <3>2. Len(Tail(t)) = Len(t) - 1
      BY <3>1
    <3> QED BY <3>2, <1>2
  <2>2. toMod'[g] = IF g = h THEN Tail(t) ELSE toMod[g]
    BY <1>1, <1>5 DEF C!Take, StreamTypes
  <2> QED BY <1>2, <2>1, <2>2
<1>6. CASE toMod' = [toMod EXCEPT ![h] = <<>>]
  <2>1. toMod'[g] = IF g = h THEN <<>> ELSE toMod[g]
    BY <1>6 DEF StreamTypes
  <2> QED BY <1>2, <2>1
<1> QED BY <1>3, <1>4, <1>5, <1>6

LEMMA ServiceStep ==
  ASSUME Capacity \in Nat, AckCapacity \in Nat, ServiceTypes, StreamTypes,
         [C!Next]_(C!vars)
  PROVE  ServiceTypes'
<1>0. \A t \in {"hello", "frame", "bye", "torn"} : C!Header(t) \in Unit
  BY SameUnits, Units
<1>1. ASSUME NEW h \in Helpers, Approaches(h) PROVE ServiceTypes'
  BY <1>1 DEF Approaches, C!AskConsent, C!Answer, C!StartWithConsent, C!Connect,
              C!Becomes, C!service, C!picture, ServiceTypes
<1>2. ASSUME NEW h \in Helpers, Draws(h) PROVE ServiceTypes'
  <2>1. \A g \in Helpers : Len(toMod'[g]) <= Capacity
    <3>1. CASE C!BeginFrame(h) \/ C!StopStreaming(h) \/ C!SendFails(h) \/ C!ReadAck(h)
      BY <3>1, RoomKept DEF C!BeginFrame, C!StopStreaming, C!SendFails, C!ReadAck,
         ServiceTypes
    <3>2. CASE C!SendHello(h)
      BY <3>2, <1>0, RoomKept DEF C!SendHello, ServiceTypes
    <3>3. CASE C!SendUnit(h)
      <4>1. Head(drawer[h]) \in Unit
        <5>1. drawer[h] \in Seq(Unit) /\ drawer[h] # <<>>
          BY <3>3 DEF C!SendUnit, StreamTypes
        <5> QED BY <5>1
      <4> QED BY <4>1, <3>3, RoomKept DEF C!SendUnit, ServiceTypes
    <3>4. CASE C!SayBye(h)
      BY <3>4, <1>0, RoomKept DEF C!SayBye, ServiceTypes
    <3>5. CASE C!CloseSocket(h)
      BY <3>5, RoomKept DEF C!CloseSocket, ServiceTypes
    <3>6. CASE C!Die(h)
      BY <3>6, <1>0, RoomKept DEF C!Die, ServiceTypes
    <3> QED
      BY <1>2, <3>1, <3>2, <3>3, <3>4, <3>5, <3>6 DEF Draws, C!HelperWrites
  <2>2. acks' \in [Helpers -> 0..AckCapacity]
    <3>1. CASE C!ReadAck(h)
      <4>1. acks[h] \in 0..AckCapacity /\ acks[h] > 0
        BY <3>1 DEF C!ReadAck, ServiceTypes
      <4>2. acks[h] - 1 \in 0..AckCapacity
        BY <4>1
      <4> QED BY <3>1, <4>2 DEF C!ReadAck, ServiceTypes
    <3>2. CASE ~ C!ReadAck(h)
      BY <1>2, <3>2 DEF Draws, C!BeginFrame, C!StopStreaming, C!Die, C!HelperWrites,
         C!SendHello, C!SendUnit, C!SendFails, C!SayBye, C!CloseSocket, ServiceTypes
    <3> QED BY <3>1, <3>2
  <2>3. UNCHANGED <<promises, running, sink, accepter, stopper, texture>>
    BY <1>2 DEF Draws, C!BeginFrame, C!StopStreaming, C!Die, C!HelperWrites, C!ReadAck,
       C!SendHello, C!SendUnit, C!SendFails, C!SayBye, C!CloseSocket, C!service, C!picture
  <2> QED BY <2>1, <2>2, <2>3 DEF ServiceTypes
<1>3. ASSUME NEW h \in Helpers, C!SessionStep(h) PROVE ServiceTypes'
  <2>1. \A g \in Helpers : Len(toMod'[g]) <= Capacity
    <3>1. CASE C!ReadHeader(h) \/ C!ReadPixels(h)
      BY <3>1, RoomKept DEF C!ReadHeader, C!ReadPixels, ServiceTypes
    <3>2. CASE ~ (C!ReadHeader(h) \/ C!ReadPixels(h))
      BY <1>3, <3>2 DEF C!SessionStep, C!CheckRunning, C!ReadFails, C!SendOk, C!GiveToSink,
         ServiceTypes
    <3> QED BY <3>1, <3>2
  <2>2. acks' \in [Helpers -> 0..AckCapacity]
    <3>1. CASE C!SendOk(h)
      <4>1. acks[h] \in 0..AckCapacity
        BY DEF ServiceTypes
      <4>2. acks[h] < AckCapacity => acks[h] + 1 \in 0..AckCapacity
        BY <4>1
      <4> QED BY <3>1, <4>2 DEF C!SendOk, ServiceTypes
    <3>2. CASE ~ C!SendOk(h)
      BY <1>3, <3>2 DEF C!SessionStep, C!CheckRunning, C!ReadHeader, C!ReadPixels,
         C!ReadFails, C!GiveToSink, ServiceTypes
    <3> QED BY <3>1, <3>2
  <2>3. UNCHANGED <<promises, running, sink, accepter, stopper>>
    BY <1>3 DEF C!SessionStep, C!CheckRunning, C!ReadHeader, C!ReadPixels, C!ReadFails,
       C!SendOk, C!GiveToSink, C!service
  <2>4. texture' = texture \/ texture' = h
    BY <1>3 DEF C!SessionStep, C!CheckRunning, C!ReadHeader, C!ReadPixels, C!ReadFails,
       C!SendOk, C!GiveToSink, C!OnFrameUpdated, C!UploadRgba, C!picture
  <2> QED BY <2>1, <2>2, <2>3, <2>4 DEF ServiceTypes
<1>4. CASE \E h \in Helpers : C!Accept(h)
  BY <1>4 DEF C!Accept, C!picture, ServiceTypes
<1>5. CASE C!Start \/ C!SetFrameSink \/ C!BeginStop \/ C!EndStop
  BY <1>5 DEF C!Start, C!SetFrameSink, C!BeginStop, C!EndStop, C!picture, ServiceTypes
<1>6. CASE C!Knock \/ C!JoinSessions \/ UNCHANGED C!vars
  BY <1>6 DEF C!Knock, C!JoinSessions, C!vars, C!service, C!picture, ServiceTypes
<1> QED
  BY <1>1, <1>2, <1>3, <1>4, <1>5, <1>6
  DEF C!Next, C!AcceptStep, Approaches, Draws

\* Whatever helpers promise and threads do, everything in Capture keeps its
\* type: no pipe holds more than its room, no stream has anything but units.
THEOREM CaptureTypes ==
  ASSUME Capacity \in Nat \ {0}, AckCapacity \in Nat \ {0}
  PROVE  C!Spec => []C!TypeOK
<1>1. C!Init => StreamTypes /\ ServiceTypes
  <2> HAVE C!Init
  <2>1. \A h \in Helpers : toMod[h] = <<>> /\ Len(toMod[h]) <= Capacity
    BY DEF C!Init
  <2>2. 0 \in 0..AckCapacity
    OBVIOUS
  <2>3. acks \in [Helpers -> 0..AckCapacity]
    BY <2>2 DEF C!Init
  <2> QED BY <2>1, <2>3, StreamsInit DEF C!Init, ServiceTypes
<1>2. StreamTypes /\ ServiceTypes /\ [C!Next]_(C!vars) => (StreamTypes /\ ServiceTypes)'
  BY TypesStep, ServiceStep
<1>3. StreamTypes /\ ServiceTypes => C!TypeOK
  BY SameUnits DEF StreamTypes, ServiceTypes, C!TypeOK
<1> QED
  BY <1>1, <1>2, <1>3, PTL DEF C!Spec
=============================================================================
