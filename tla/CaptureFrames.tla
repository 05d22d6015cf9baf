---------------------------- MODULE CaptureFrames ----------------------------
(***************************************************************************)
(* What a capture helper sends and what the game is shown of it. A header  *)
(* is one unit of the stream, a frame's pixels are PixelUnits.             *)
(***************************************************************************)
EXTENDS Naturals

CONSTANTS
  Helpers,     \* instances of the helper, each of which streams once
  MaxFrames,   \* bound: frames one helper sends
  PixelUnits   \* units of a frame's pixels

ASSUME FramesAssumption == {MaxFrames, PixelUnits} \subseteq Nat \ {0}

VARIABLES
  promises,   \* what helpers and system keep to, chosen once
  framesMade, \* helper: frames begun
  shown       \* the pixels given to the sink

(***************************************************************************)
(* networkOrder  headers come in the byte order readHeader takes them in   *)
(* quietStop     streaming is stopped between two frames                   *)
(* wholeHeaders  no helper dies with a header half written                 *)
(*                                                                         *)
(* The helper of the repository promises none of them.                     *)
(***************************************************************************)
Promises == {"networkOrder", "quietStop", "wholeHeaders"}

Promised(p) == p \in promises

Header(type) == [unit |-> type, frame |-> 0, part |-> 0]
Pixel(n, k) == [unit |-> "pixel", frame |-> n, part |-> k]
Pixels(n) == [k \in 1..PixelUnits |-> Pixel(n, k)]

\* A header cut short by the death of its writer is "torn".
Unit == {Header(t) : t \in {"hello", "frame", "bye", "torn"}}
        \cup {Pixel(n, k) : n \in 1..MaxFrames, k \in 1..PixelUnits}

----------------------------------------------------------------------------
(***************************************************************************)
(* What a helper's frames show is whole frames of that helper, in the order*)
(* it made them: no pixels of two frames mixed, no other message taken for *)
(* pixels. That takes a helper that does not stop in the middle of a frame *)
(* (its goodbye would land among the pixels) nor die in a header.          *)
(***************************************************************************)
ShownAreFrames ==
  Promised("quietStop") /\ Promised("wholeHeaders") =>
    \A h \in Helpers : \A i \in DOMAIN shown[h] :
      \E n \in 1..framesMade[h] :
        /\ shown[h][i] = Pixels(n)
        /\ i > 1 => n > shown[h][i - 1][1].frame
=============================================================================
