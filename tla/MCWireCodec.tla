---------------------------- MODULE MCWireCodec ----------------------------
(* A small instance of WireCodec: bytes below six, so that messages of     *)
(* thirty-six bytes do not fit their size field.                           *)
EXTENDS WireCodec

Payloads == {<<>>, <<1>>, <<5, 0, 2>>, <<0, 3, 0, 4>>}
MCValues == [u32 |-> {0, 7, WordMod - 1}, i32 |-> {-Half, -1, Half - 1},
             fixed |-> {-3, 4}, string |-> Payloads, array |-> Payloads]

\* Every beginning of three words, among them lengths that point beyond.
Words == {U32(0), U32(1), U32(3), U32(6), U32(WordMod - 1)}
MCForeign ==
  {SubSeq(a \o b \o c, 1, n) : a \in Words, b \in Words, c \in Words, n \in 0..12}
=============================================================================
