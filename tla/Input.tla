-------------------------------- MODULE Input --------------------------------
(***************************************************************************)
(* Keys and buttons of the game (render/ClientHooks.cpp): which of them    *)
(* the game sees, which the mod keeps, and which go on to the seat.        *)
(*                                                                         *)
(* The hooks run on the game thread; a key that goes on is the seat's      *)
(* keyboardKey, with its two steps. A key is held or not: repeated presses *)
(* are left out. A press outside capture is the game's, or opens the       *)
(* launcher or the window manager (V and B): neither is state here. The    *)
(* focus list of the window registry is empty, so no button starts a grab. *)
(***************************************************************************)
EXTENDS Seat

CONSTANTS
  ExitKey,       \* kKeyExitCapture
  CaptureKey,    \* kKeyCapture
  Unmapped,      \* keys androidKeyToEvdev has no code for
  MaxHeld        \* bound: keys held at once

KeyEvents == Keys \cup Unmapped

ASSUME InputAssumption ==
  /\ {ExitKey, CaptureKey} \subseteq KeyEvents
  /\ ExitKey # CaptureKey
  /\ Keys \cap Unmapped = {}

VARIABLES
  soft,       \* gKeyboardCapture
  hard,       \* gHardCapture
  held        \* the keys the player holds down

capture == <<soft, hard>>
vars == <<seatVars, capture, held>>

Init ==
  /\ SeatInit
  /\ soft = FALSE
  /\ hard = FALSE
  /\ held = {}

----------------------------------------------------------------------------
(* handleKey.                                                              *)

\* androidKeyToEvdev has a code for the key.
Mapped(key) == key \in Keys

\* To the seat: keyboardKey up to its lock. A call that fails its test is
\* over at once.
Forward(key, call) ==
  IF Mapped(key) /\ KeyboardHasFocus
  THEN game' = [call |-> call, conn |-> seat.conn, arg |-> key]
  ELSE UNCHANGED game

\* Escape backs out of one level of capture and is kept.
PressExit(key) ==
  /\ key = ExitKey
  /\ hard' = FALSE
  /\ soft' = (soft /\ hard)
  /\ UNCHANGED game

\* The capture key raises the level; in hard capture it is the game's.
PressCapture(key) ==
  /\ key = CaptureKey
  /\ soft' = TRUE
  /\ hard' = (hard \/ soft)
  /\ UNCHANGED game

PressUncaptured(key) ==
  /\ key \notin {ExitKey, CaptureKey}
  /\ ~soft
  /\ UNCHANGED <<game, capture>>

PressCaptured(key) ==
  /\ key \notin {ExitKey, CaptureKey}
  /\ soft
  /\ Forward(key, "press")
  /\ UNCHANGED capture

KeyDown(key) ==
  /\ game = NoCall
  /\ Cardinality(held) < MaxHeld
  /\ key \notin held
  /\ held' = held \cup {key}
  /\ \/ PressExit(key) \/ PressCapture(key)
     \/ PressUncaptured(key) \/ PressCaptured(key)
  /\ UNCHANGED <<promises, alive, objects, slots, keymaps, heard>>

\* Wrong variant: outside capture a release is the game's, as its press was.
ReleaseKeyCaptured(key) ==
  IF soft THEN Forward(key, "release") ELSE UNCHANGED game

\* A release goes to the seat and never to the game, captured or not.
ReleaseKey(key) == Forward(key, "release")

\* Escape's release in hard capture only ends that.
KeyUp(key) ==
  /\ game = NoCall
  /\ key \in held
  /\ held' = held \ {key}
  /\ IF hard /\ key = ExitKey
     THEN hard' = FALSE /\ UNCHANGED <<soft, game>>
     ELSE ReleaseKey(key) /\ UNCHANGED capture
  /\ UNCHANGED <<promises, alive, objects, slots, keymaps, heard>>

\* MouseInputEvent: a press and a release alike.
MouseButton == BeginPointerButton /\ UNCHANGED <<capture, held>>

Next ==
  \/ SeatStep /\ UNCHANGED <<capture, held>>
  \/ \E key \in KeyEvents : KeyDown(key) \/ KeyUp(key)
  \/ MouseButton

Spec == Init /\ [][Next]_vars

----------------------------------------------------------------------------
(* Properties.                                                             *)

TypeOK ==
  /\ SeatTypeOK
  /\ {soft, hard} \subseteq BOOLEAN
  /\ held \subseteq KeyEvents

\* A key that is down for an application is held by the player: whatever
\* the level of capture was when it was pressed and is when it is released,
\* and however requests fall in between, no key gets stuck in it. (The
\* release is forwarded outside capture, too: handleKey)
NoKeyStuck ==
  game = NoCall /\ Tidy \subseteq promises =>
    \A c \in Conns, i \in Ids : i \in objects[c] => heard[c][i].down \subseteq held
=============================================================================
