----------------------------- MODULE WireCodec -----------------------------
(***************************************************************************)
(* The wire format (compositor/WireProtocol.h): Writer appends arguments   *)
(* to a buffer, a header frames it, Reader takes the arguments out again.  *)
(*                                                                         *)
(* A buffer is a sequence of bytes, a byte a digit below Base (256 in the  *)
(* code), a word four of them, the lowest first. The reader gets what the  *)
(* writer made, or the bytes of a message from elsewhere, and is asked for *)
(* arguments until one fails or no more are wanted.                        *)
(***************************************************************************)
EXTENDS Integers, SequencesExt

CONSTANTS
  Base,       \* values of a byte: 256 in the code
  Values,     \* type -> the values written of it
  Foreign,    \* payloads of messages from elsewhere
  MaxArgs     \* bound: arguments written or asked for

Types == {"u32", "i32", "fixed", "string", "array"}

Byte == 0..(Base - 1)
SizeMod == Base * Base            \* 2^16: size and opcode share a word
WordMod == SizeMod * SizeMod      \* 2^32
Word == 0..(WordMod - 1)
Half == WordMod \div 2

ASSUME CodecAssumption ==
  /\ Base \in Nat /\ Base > 2
  /\ Foreign \subseteq Seq(Byte)
  /\ MaxArgs \in Nat

\* An object id is a u32. A fixed is counted in 1/512: the codec keeps 1/256.
ASSUME ValuesAssumption ==
  /\ Values["u32"] \subseteq Word
  /\ Values["i32"] \subseteq (-Half)..(Half - 1)
  /\ Values["fixed"] \subseteq (-WordMod)..(WordMod - 2)
  /\ \A s \in Values["string"] \cup Values["array"] :
       s \in Seq(Byte) /\ Len(s) + 1 < WordMod

VARIABLES
  stage,    \* "writing", "reading", "failed" when an argument was not there
  args,     \* the arguments written, as <<type, value>>
  body,     \* Writer: buf_
  data,     \* Reader: the payload
  pos,      \* Reader: pos_
  got       \* the values read

vars == <<stage, args, body, data, pos, got>>

----------------------------------------------------------------------------
(* Writer.                                                                 *)

Padding(n) == (4 - (n % 4)) % 4
Zeroes(n) == [k \in 1..n |-> 0]

U32(v) == <<v % Base, (v \div Base) % Base, (v \div SizeMod) % Base,
            v \div (Base * SizeMod)>>

\* Two's complement.
I32(v) == U32(v % WordMod)

\* The cast to int32_t drops the fraction, towards zero.
Truncated(halves) == IF halves < 0 THEN -((-halves) \div 2) ELSE halves \div 2
Fixed(halves) == I32(Truncated(halves))

\* Wrong variant: the padding of a string forgets its final NUL.
StringShort(s) == U32(Len(s) + 1) \o s \o <<0>> \o Zeroes(Padding(Len(s)))

\* The length counts the final NUL.
String(s) == U32(Len(s) + 1) \o s \o <<0>> \o Zeroes(Padding(Len(s) + 1))
Array(a) == U32(Len(a)) \o a \o Zeroes(Padding(Len(a)))

Marshal(type, v) ==
  CASE type = "u32" -> U32(v)
    [] type = "i32" -> I32(v)
    [] type = "fixed" -> Fixed(v)
    [] type = "string" -> String(v)
    [] type = "array" -> Array(v)

----------------------------------------------------------------------------
(* Message framing: the opcode in the lower half of the second word.       *)

WriteHeader(id, opcode, size) == U32(id) \o U32(size * SizeMod + opcode)

WordAt(bytes, p) == bytes[p + 1] + Base * bytes[p + 2]
                      + SizeMod * (bytes[p + 3] + Base * bytes[p + 4])

ParseHeader(bytes) == [objectId |-> WordAt(bytes, 0),
                       opcode |-> WordAt(bytes, 4) % SizeMod,
                       size |-> WordAt(bytes, 4) \div SizeMod]

----------------------------------------------------------------------------
(* Reader: what a call returns and where it leaves the position.           *)

Remaining(p) == IF p <= Len(data) THEN Len(data) - p ELSE 0
Nothing(p) == [ok |-> FALSE, pos |-> p, value |-> 0]
Something(p, v) == [ok |-> TRUE, pos |-> p, value |-> v]

\* The code compares with the bytes that remain; no argument is read beyond.
ReadU32(p) ==
  IF Remaining(p) < 4 THEN Nothing(p) ELSE Something(p + 4, WordAt(data, p))

Signed(v) == IF v < Half THEN v ELSE v - WordMod

ReadI32(p) ==
  LET word == ReadU32(p)
  IN IF word.ok THEN Something(word.pos, Signed(word.value)) ELSE word

\* In halves, as it was written.
ReadFixed(p) ==
  LET number == ReadI32(p)
  IN IF number.ok THEN Something(number.pos, 2 * number.value) ELSE number

\* Wrong variant: the padding is skipped whether it came or not.
SkipPaddingBlindly(p, n) == p + Padding(n)

\* pad: up to the boundary, or to the end if that is nearer.
SkipPadding(p, n) ==
  IF Padding(n) <= Remaining(p) THEN p + Padding(n) ELSE p + Remaining(p)

\* n bytes behind a length, and their padding.
Take(p, n) ==
  IF Remaining(p) < n THEN Nothing(p)
  ELSE Something(SkipPadding(p + n, n), SubSeq(data, p + 1, p + n))

\* A string has at least its NUL, which is taken off whatever it is.
ReadString(p) ==
  LET length == ReadU32(p)
      taken == Take(length.pos, length.value)
  IN IF ~length.ok \/ length.value = 0 THEN Nothing(length.pos)
     ELSE IF ~taken.ok THEN taken
     ELSE Something(taken.pos, SubSeq(taken.value, 1, length.value - 1))

ReadArray(p) ==
  LET length == ReadU32(p)
  IN IF length.ok THEN Take(length.pos, length.value) ELSE length

Read(type, p) ==
  CASE type = "u32" -> ReadU32(p)
    [] type = "i32" -> ReadI32(p)
    [] type = "fixed" -> ReadFixed(p)
    [] type = "string" -> ReadString(p)
    [] type = "array" -> ReadArray(p)

----------------------------------------------------------------------------
(* A message made and read, or come from elsewhere and read.               *)

Init ==
  /\ args = <<>>
  /\ body = <<>>
  /\ pos = 0
  /\ got = <<>>
  /\ \/ stage = "writing" /\ data = <<>>
     \/ stage = "reading" /\ data \in Foreign

Write(type, v) ==
  /\ stage = "writing"
  /\ Len(args) < MaxArgs
  /\ args' = Append(args, <<type, v>>)
  /\ body' = body \o Marshal(type, v)
  /\ UNCHANGED <<stage, data, pos, got>>

\* Wrong variant: the size does not count the header.
FramedSizeBody == Len(body) % SizeMod

\* sendEvent casts the size to sixteen bits.
FramedSize == (8 + Len(body)) % SizeMod

\* The receiver waits for as many bytes as the header says; a size below the
\* header's own is an error.
Frame ==
  /\ stage = "writing"
  /\ LET h == ParseHeader(WriteHeader(1, 0, FramedSize) \o body)
     IN IF h.size < 8
        THEN stage' = "failed" /\ data' = <<>>
        ELSE stage' = "reading" /\ data' = SubSeq(body, 1, h.size - 8)
  /\ UNCHANGED <<args, body, pos, got>>

\* A handler that misses an argument fails and reads no further. The client
\* agrees on the types of what was written; of what came from elsewhere any
\* may be asked for.
ReadArgument(type) ==
  LET r == Read(type, pos)
  IN /\ stage = "reading"
     /\ Len(got) < MaxArgs
     /\ args # <<>> => Len(got) < Len(args) /\ type = args[Len(got) + 1][1]
     /\ pos' = r.pos
     /\ stage' = IF r.ok THEN "reading" ELSE "failed"
     /\ got' = IF r.ok THEN Append(got, r.value) ELSE got
     /\ UNCHANGED <<args, body, data>>

Next ==
  \/ \E type \in Types : \E v \in Values[type] : Write(type, v)
  \/ Frame
  \/ \E type \in Types : ReadArgument(type)

Spec == Init /\ [][Next]_vars

----------------------------------------------------------------------------
(* Properties.                                                             *)

TypeOK ==
  /\ stage \in {"writing", "reading", "failed"}
  /\ body \in Seq(Byte)
  /\ data \in Seq(Byte)
  /\ pos \in Nat

\* Whatever bytes arrive and whatever a handler asks for, the reader stays
\* within the message: a length or a padding that points beyond it takes
\* nothing more. (Reader::u32, string, array, pad)
ReaderStaysInside == pos <= Len(data)

\* After any argument the reader stands on a word of the message or at its
\* end, so a short string does not shift the arguments behind it.
\* (Reader::pad)
Aligned == stage = "reading" => pos % 4 = 0 \/ pos = Len(data)

\* A message is shorter than the sixteen bits of its size field.
Fits == 8 + Len(body) < SizeMod

Expected(arg) == IF arg[1] = "fixed" THEN 2 * Truncated(arg[2]) ELSE arg[2]

\* What was written is what is read, argument by argument, with nothing left
\* over: negative numbers, empty strings and arrays included; a fixed loses
\* the part below 1/256. (Writer against Reader)
ReadsWhatWasWritten ==
  args # <<>> /\ Fits /\ stage # "writing" =>
    /\ stage = "reading"
    /\ got = [k \in 1..Len(got) |-> Expected(args[k])]
    /\ Len(got) = Len(args) => pos = Len(data)

\* The receiver takes the whole message, neither more nor less, exactly if
\* it fits the size field. (Connection::sendEvent, writeHeader, parseHeader)
FramedWhole ==
  args # <<>> /\ stage # "writing" => (Fits <=> data = body)
=============================================================================
