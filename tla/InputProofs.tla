---------------------------- MODULE InputProofs ----------------------------
(***************************************************************************)
(* Safety of the seat and of the keys that go on to it, for every set of   *)
(* connections, ids and keys and for every set of promises.                *)
(***************************************************************************)
EXTENDS Input, TLAPS

----------------------------------------------------------------------------
(* The inductive invariant.                                                *)

\* A call between its two steps has a connection and the argument it needs.
CallArgs ==
  /\ game # NoCall => game.conn \in Conns
  /\ game.call \in {"motion", "focus"} => game.arg \in Ids
  /\ game.call \in {"press", "release"} => game.arg \in Keys

\* A slot that was ever full names an id of its kind.
SlotKinds ==
  /\ seat.pointer.id # NoId => KindOf[seat.pointer.id] = "pointer"
  /\ seat.keyboard.id # NoId => KindOf[seat.keyboard.id] = "keyboard"
  /\ seat.hasPointer => seat.pointer.id # NoId
  /\ seat.hasKeyboard => seat.keyboard.id # NoId

\* The descriptor that leaks of a connection that ended was the last on its way
\* to it.
LastLeak ==
  \A c \in Conns : openFds[c] # outFds[c] => ~(game.call = "keymap" /\ game.conn = c)

\* One connection has the seat, and with it every seat, pointer and keyboard,
\* and the game's calls go to it.
OneHolder ==
  /\ \A c \in Conns :
       Objects(c, "seat") \cup Objects(c, "pointer") \cup Objects(c, "keyboard") # {} =>
         c = seat.conn
  /\ seat.conn \notin Conns => ~seat.hasPointer /\ ~seat.hasKeyboard
  /\ game.call \notin {"none", "keymap"} => game.conn = seat.conn

\* The slot for the pointer is full when the pointer it names is there.
PointerSlot ==
  SeatAlive => (seat.hasPointer <=> seat.pointer.id \in objects[seat.conn])

\* What a client hears of its pointer is the seat's pointer focus.
PointerHeard ==
  /\ Confused("pointer") = {}
  /\ SeatAlive /\ seat.hasPointer =>
       heard[seat.conn][seat.pointer.id].focus = gPointer.id

FollowedInv == OneHolder /\ PointerSlot /\ PointerHeard

\* The keyboard stays, and only a keyboard has a focus.
KeyboardSlot ==
  /\ SeatAlive /\ seat.hasKeyboard => seat.keyboard.id \in objects[seat.conn]
  /\ gKeyboard # NoRef => seat.hasKeyboard

\* What a call on the keyboard found before the lock still holds under it.
CallHolds ==
  /\ game.call \in {"press", "release", "modifiers", "focus", "unfocus"} => seat.hasKeyboard
  /\ game.call \in {"press", "release", "modifiers"} => gKeyboard # NoRef
  /\ game.call = "focus" => gKeyboard = NoRef

\* What it hears of its keyboard is the keyboard focus, once it has a keymap.
KeyboardHeard ==
  /\ SeatAlive /\ seat.hasKeyboard =>
       /\ heard[seat.conn][seat.keyboard.id].focus \in {NoId, gKeyboard.id}
       /\ heard[seat.conn][seat.keyboard.id].focus # NoId =>
            heard[seat.conn][seat.keyboard.id].keymap
  /\ "memfdWorks" \in promises =>
       /\ Confused("keyboard") = {}
       /\ SeatAlive /\ seat.hasKeyboard =>
            /\ heard[seat.conn][seat.keyboard.id].keymap
            /\ heard[seat.conn][seat.keyboard.id].focus = gKeyboard.id

\* A key is down only on the seat's keyboard, while it has a focus, and is
\* held, or its release is under way.
KeysHeld ==
  /\ \A c \in Conns, i \in Ids :
       heard[c][i].down # {} =>
         /\ c = seat.conn /\ c \in alive /\ i = seat.keyboard.id
         /\ seat.hasKeyboard /\ heard[c][i].focus # NoId
         /\ ExitKey \notin heard[c][i].down
         /\ heard[c][i].down \subseteq
              held \cup (IF game.call = "release" THEN {game.arg} ELSE {})
  /\ game.call = "press" => game.arg \in held \ {ExitKey}

TidyInv == KeyboardSlot /\ CallHolds /\ KeyboardHeard /\ KeysHeld

IInv ==
  /\ TypeOK
  /\ CallArgs
  /\ SlotKinds
  /\ KeymapFdsAccounted
  /\ LastLeak
  /\ Followed \subseteq promises => FollowedInv
  /\ Tidy \subseteq promises => TidyInv

----------------------------------------------------------------------------
(* Types.                                                                  *)

USE SeatAssumption, InputAssumption

\* Events whose arguments are what their type needs.
Typed(e) ==
  /\ e.type \in {"enter", "focused"} => e.arg \in Ids
  /\ e.type = "press" => e.arg \in Keys

LEMMA NewViewType == NewView \in View
BY DEF NewView, View

LEMMA AfterType ==
  ASSUME NEW v \in View, NEW e, Typed(e)
  PROVE  After(v, e) \in View
BY DEF After, View, Typed

LEMMA HearType ==
  ASSUME NEW c, NEW view \in [Ids -> View], NEW e, Typed(e)
  PROVE  Hear(c, view, e) \in [Ids -> View]
<1>1. \A i \in Ids : [view[i] EXCEPT !.confused = TRUE] \in View
  BY DEF View
<1> QED BY <1>1, AfterType DEF Hear

LEMMA HearsType ==
  ASSUME SeatTypeOK, NEW c, NEW view \in [Ids -> View], Hears(c, view)
  PROVE  heard' \in [Conns -> [Ids -> View]]
BY DEF SeatTypeOK, Hears

LEMMA SendType ==
  ASSUME SeatTypeOK, NEW c \in Conns, NEW e, Typed(e), Send(c, e)
  PROVE  heard' \in [Conns -> [Ids -> View]]
BY HearType, HearsType DEF SeatTypeOK, Send

LEMMA NewProxyType ==
  ASSUME SeatTypeOK, NEW c \in Conns, NEW i \in Ids
  PROVE  NewProxy(c, i) \in [Conns -> [Ids -> View]]
BY NewViewType DEF SeatTypeOK, NewProxy

LEMMA RefType ==
  /\ NoRef \in Ref
  /\ \A c \in Conns, i \in Ids : RefTo(c, i) \in Ref
  /\ \A ref \in Ref : /\ ref.conn \in Conns \cup {NoConn}
                      /\ ref.id \in Ids \cup {NoId}
                      /\ ref # NoRef => ref.conn \in Conns /\ ref.id \in Ids
BY DEF Ref, NoRef, RefTo

LEMMA AddObjectType ==
  ASSUME SeatTypeOK, NEW c \in Conns, NEW i \in Ids, NEW k, AddObject(c, i, k)
  PROVE  objects' \in [Conns -> SUBSET Ids] /\ alive' = alive
BY DEF SeatTypeOK, AddObject

LEMMA PushKeymapType ==
  ASSUME SeatTypeOK, NEW c \in Conns, QueuesKeymap(c) => outFds[c] < MaxFds, PushKeymap(c)
  PROVE  /\ outFds' \in [Conns -> 0..MaxFds]
         /\ openFds' \in [Conns -> Nat]
BY DEF SeatTypeOK, PushKeymap

LEMMA FdsFlushed ==
  ASSUME SeatTypeOK, KeymapFdsAccounted, NEW c \in Conns
  PROVE  openFds[c] - outFds[c] \in Nat
<1>1. openFds[c] - outFds[c] \in {0, 1}
  BY DEF KeymapFdsAccounted
<1> QED BY <1>1

LEMMA LoopType ==
  ASSUME SeatTypeOK, KeymapFdsAccounted, NEW c \in Conns, Loop(c)
  PROVE  SeatTypeOK'
<1> USE DEF SeatTypeOK, slots, keymaps
<1>1. ASSUME NEW i \in Ids, GetRegistry(c, i) \/ BindOutput(c, i)
      PROVE  SeatTypeOK'
  BY <1>1, AddObjectType, NewProxyType DEF GetRegistry, BindOutput, BindGlobal
<1>2. ASSUME NEW i \in Ids, BindSeat(c, i)
      PROVE  SeatTypeOK'
  <2>1. seat' \in Seats
    BY <1>2 DEF BindSeat, Seats
  <2> QED BY <1>2, <2>1, AddObjectType, NewProxyType DEF BindSeat, BindGlobal
<1>3. ASSUME NEW i \in Ids, GetPointer(c, i)
      PROVE  SeatTypeOK'
  <2>1. seat' \in Seats
    BY <1>3, RefType DEF GetPointer, Seats
  <2> QED BY <1>3, <2>1, AddObjectType, NewProxyType, RefType DEF GetPointer
<1>4. ASSUME NEW i \in Ids, GetKeyboard(c, i)
      PROVE  SeatTypeOK'
  <2>1. seat' \in Seats
    BY <1>4, RefType DEF GetKeyboard, Seats
  <2>2. objects' \in [Conns -> SUBSET Ids] /\ alive' = alive
    BY <1>4, AddObjectType DEF GetKeyboard
  <2>3. PushesKeymap(c) \in BOOLEAN
    BY <2>1 DEF PushesKeymap, Seats
  <2>4. \A b \in BOOLEAN : [NewView EXCEPT !.keymap = b] \in View
    BY DEF NewView, View
  <2>5. [heard EXCEPT ![c][i] = [NewView EXCEPT !.keymap = PushesKeymap(c)]]
          \in [Conns -> [Ids -> View]]
    BY <2>3, <2>4
  <2>6. heard' \in [Conns -> [Ids -> View]]
    <3>1. \/ heard' = [heard EXCEPT ![c][i] = [NewView EXCEPT !.keymap = PushesKeymap(c)]]
          \/ heard' = NewProxy(c, i)
      BY <1>4 DEF GetKeyboard
    <3>2. NewProxy(c, i) \in [Conns -> [Ids -> View]]
      BY NewProxyType
    <3> HIDE DEF SeatTypeOK
    <3> QED BY <2>5, <3>1, <3>2
  <2>7. outFds' \in [Conns -> 0..MaxFds] /\ openFds' \in [Conns -> Nat]
    BY <1>4, PushKeymapType DEF GetKeyboard
  <2> QED BY <1>4, <2>1, <2>2, <2>6, <2>7 DEF GetKeyboard
<1>5. ASSUME NEW i \in Ids, CreateSurface(c, i)
      PROVE  SeatTypeOK'
  BY <1>5, AddObjectType, NewProxyType DEF CreateSurface, BindGlobal
<1>6. ASSUME NEW i \in Ids, Release(c, i)
      PROVE  SeatTypeOK'
  <2>1. ReleasedSlots(c, i) \in Seats
    BY DEF ReleasedSlots, Seats
  <2> QED BY <1>6, <2>1 DEF Release
<1>7. CASE FlushFds(c)
  BY <1>7, FdsFlushed DEF FlushFds
<1>8. CASE Kill(c)
  BY <1>8, NewViewType DEF Kill
<1>9. CASE Reap(c)
  BY <1>9, FdsFlushed DEF Reap
<1> QED BY <1>1, <1>2, <1>3, <1>4, <1>5, <1>6, <1>7, <1>8, <1>9 DEF Loop, Request

\* Beginning a call leaves a call with the arguments it needs.
LEMMA BeginCallType ==
  ASSUME SeatTypeOK, BeginCall \/ BeginPointerButton
  PROVE  SeatTypeOK' /\ CallArgs'
<1>1. ASSUME NEW call \in Calls, NEW c \in Conns, NEW arg \in Ids \cup {NoId},
             Begin(call, c, arg),
             call \in {"motion", "focus"} => arg \in Ids,
             call \notin {"press", "release"}
      PROVE  SeatTypeOK' /\ CallArgs'
  BY <1>1 DEF SeatTypeOK, CallArgs, Begin, Call, slots, keymaps
<1>2. SeatAlive => seat.conn \in Conns
  BY DEF SeatTypeOK, SeatAlive
<1>3. \A c \in Conns : Surfaces(c) \subseteq Ids
  BY DEF SeatTypeOK, Surfaces, Objects
<1> QED
  BY <1>1, <1>2, <1>3 DEF BeginCall, BeginPointerButton, BeginPointerLeave,
     BeginPointerScroll, BeginKeyboardUnfocus, BeginKeyboardModifiers,
     KeyboardHasFocus, BeginPointerMotion, BeginKeyboardFocus, BeginUseKeymapText, Calls

LEMMA FinishCallType ==
  ASSUME SeatTypeOK, CallArgs, FinishCall, ~UseKeymapText
  PROVE  SeatTypeOK' /\ CallArgs'
<1> DEFINE c == game.conn
<1>1. /\ game' = NoCall /\ game # NoCall
      /\ UNCHANGED <<promises, alive, objects, seat, keymaps>>
  BY DEF FinishCall, PointerMotion, PointerLeave, PointerButton, PointerScroll,
         KeyboardKey, KeyboardModifiers, KeyboardEvent, KeyboardFocus,
         KeyboardUnfocus, Finish, NoCall
<1>2. NoCall \in Call /\ CallArgs' /\ c \in Conns
  BY <1>1 DEF NoCall, Call, Calls, CallArgs
<1>3. SUFFICES /\ gPointer' \in Ref /\ gKeyboard' \in Ref
               /\ heard' \in [Conns -> [Ids -> View]]
  BY <1>1, <1>2 DEF SeatTypeOK, keymaps
<1>4. /\ gPointer \in Ref /\ gKeyboard \in Ref /\ heard[c] \in [Ids -> View]
      /\ heard \in [Conns -> [Ids -> View]]
  BY <1>2 DEF SeatTypeOK
<1>5. \A view \in [Ids -> View] :
        /\ Left(c, view) \in [Ids -> View]
        /\ Unfocused(c, view) \in [Ids -> View]
        /\ Moved(c, view) \in [Ids -> View]
        /\ \A surface \in Ids : Entered(c, view, surface) \in [Ids -> View]
  BY HearType DEF Left, Unfocused, Moved, Entered, Typed, Event
<1> HIDE DEF c
<1>6. CASE PointerMotion
  <2>1. game.arg \in Ids
    BY <1>6 DEF PointerMotion, Finish, CallArgs
  <2>2. PICK view \in [Ids -> View] : Hears(c, view)
    BY <1>4, <1>5, <1>6, <2>1 DEF PointerMotion, c
  <2>3. gPointer' \in Ref /\ gKeyboard' = gKeyboard
    BY <1>2, <1>4, <1>6, <2>1, RefType DEF PointerMotion, c
  <2> QED BY <1>4, <2>2, <2>3, HearsType
<1>7. CASE PointerLeave
  <2>1. Hears(c, Left(c, heard[c])) /\ gPointer' \in Ref /\ gKeyboard' = gKeyboard
    BY <1>4, <1>7, RefType DEF PointerLeave, c
  <2> QED BY <1>4, <1>5, <2>1, HearsType
<1>8. CASE PointerButton \/ PointerScroll \/ KeyboardKey \/ KeyboardModifiers
  <2>1. PICK e : Typed(e) /\ Send(c, e)
    BY <1>8 DEF PointerButton, PointerScroll, KeyboardKey, KeyboardModifiers,
         KeyboardEvent, Finish, CallArgs, Typed, Event, c
  <2>2. UNCHANGED <<gPointer, gKeyboard>>
    BY <1>8 DEF PointerButton, PointerScroll, KeyboardKey, KeyboardModifiers, KeyboardEvent
  <2> QED BY <1>2, <1>4, <2>1, <2>2, SendType
<1>9. CASE KeyboardFocus
  <2>1. game.arg \in Ids
    BY <1>9 DEF KeyboardFocus, Finish, CallArgs
  <2>2. PICK e : Typed(e) /\ Send(c, e)
    BY <1>9, <2>1 DEF KeyboardFocus, Typed, Event, c
  <2>3. gKeyboard' \in Ref /\ gPointer' = gPointer
    BY <1>2, <1>9, <2>1, RefType DEF KeyboardFocus, c
  <2> QED BY <1>2, <1>4, <2>2, <2>3, SendType
<1>10. CASE KeyboardUnfocus
  <2>1. Hears(c, Unfocused(c, heard[c])) /\ gKeyboard' \in Ref /\ gPointer' = gPointer
    BY <1>4, <1>10, RefType DEF KeyboardUnfocus, c
  <2> QED BY <1>4, <1>5, <2>1, HearsType
<1> QED BY <1>6, <1>7, <1>8, <1>9, <1>10 DEF FinishCall

LEMMA UseKeymapTextType ==
  ASSUME SeatTypeOK, CallArgs, UseKeymapText
  PROVE  SeatTypeOK' /\ CallArgs'
<1>1. game.conn \in Conns /\ NoCall \in Call /\ game' = NoCall /\ CallArgs'
  BY DEF UseKeymapText, Finish, CallArgs, NoCall, Call, Calls
<1>2. outFds' \in [Conns -> 0..MaxFds] /\ openFds' \in [Conns -> Nat]
  BY <1>1, PushKeymapType DEF UseKeymapText
<1>3. Typed(Event("keymap", seat.keyboard.id, NoId))
  BY DEF Typed, Event
<1>4. heard' \in [Conns -> [Ids -> View]]
  BY <1>1, <1>3, SendType DEF UseKeymapText, SeatTypeOK
<1> QED BY <1>1, <1>2, <1>4 DEF SeatTypeOK, UseKeymapText, Finish

LEMMA KeyType ==
  ASSUME SeatTypeOK, CallArgs, {soft, hard} \subseteq BOOLEAN, held \subseteq KeyEvents,
         NEW key \in KeyEvents, KeyDown(key) \/ KeyUp(key)
  PROVE  TypeOK' /\ CallArgs'
<1>1. \/ game' = game
      \/ \E call \in {"press", "release"} :
           /\ Mapped(key) /\ KeyboardHasFocus
           /\ game' = [call |-> call, conn |-> seat.conn, arg |-> key]
  BY DEF KeyDown, KeyUp, PressExit, PressCapture, PressUncaptured, PressCaptured,
         ReleaseKey, Forward
<1>2. SeatAlive => seat.conn \in Conns
  BY DEF SeatTypeOK, SeatAlive
<1>3. game' \in Call /\ CallArgs'
  <2>1. CASE game' = game
    BY <2>1 DEF SeatTypeOK, CallArgs
  <2>2. CASE game' # game
    BY <1>1, <1>2, <2>2 DEF Call, Calls, CallArgs, Mapped, KeyboardHasFocus
  <2> QED BY <2>1, <2>2
<1>4. {soft', hard'} \subseteq BOOLEAN /\ held' \subseteq KeyEvents
  BY DEF KeyDown, KeyUp, PressExit, PressCapture, PressUncaptured, PressCaptured,
         capture, ReleaseKey
<1>5. UNCHANGED <<promises, alive, objects, slots, keymaps, heard>>
  BY DEF KeyDown, KeyUp
<1> QED BY <1>3, <1>4, <1>5 DEF TypeOK, SeatTypeOK, slots, keymaps

LEMMA TypeStep ==
  ASSUME TypeOK, CallArgs, KeymapFdsAccounted, [Next]_vars
  PROVE  TypeOK' /\ CallArgs'
<1>1. SeatTypeOK /\ {soft, hard} \subseteq BOOLEAN /\ held \subseteq KeyEvents
  BY DEF TypeOK
<1>2. ASSUME SeatTypeOK', CallArgs', UNCHANGED <<capture, held>>
      PROVE  TypeOK' /\ CallArgs'
  BY <1>1, <1>2 DEF TypeOK, capture
<1>3. ASSUME NEW c \in Conns, Loop(c)
      PROVE  CallArgs'
  BY <1>3 DEF CallArgs, Loop, Request, GetRegistry, BindOutput, BindSeat, GetPointer,
       GetKeyboard, CreateSurface, Release, FlushFds, Kill, Reap
<1>4. CASE SeatStep /\ UNCHANGED <<capture, held>>
  BY <1>1, <1>2, <1>3, <1>4, LoopType, UseKeymapTextType, BeginCallType,
     FinishCallType DEF SeatStep
<1>5. CASE \E key \in KeyEvents : KeyDown(key) \/ KeyUp(key)
  BY <1>1, <1>5, KeyType
<1>6. CASE MouseButton
  BY <1>1, <1>2, <1>6, BeginCallType DEF MouseButton
<1>7. CASE UNCHANGED vars
  BY <1>1, <1>7 DEF vars, seatVars, slots, keymaps, capture, TypeOK, SeatTypeOK, CallArgs
<1> QED BY <1>4, <1>5, <1>6, <1>7 DEF Next

----------------------------------------------------------------------------
(* Keymap descriptors.                                                     *)

\* What a push leaves open is queued, but for one of a connection that ended.
LEMMA Pushed ==
  ASSUME SeatTypeOK, KeymapFdsAccounted, NEW c \in Conns, PushKeymap(c),
         c \notin alive => openFds[c] = outFds[c], alive' = alive
  PROVE  /\ KeymapFdsAccounted'
         /\ \A d \in Conns : d # c => openFds'[d] = openFds[d] /\ outFds'[d] = outFds[d]
<1>1. outFds \in [Conns -> 0..MaxFds] /\ openFds \in [Conns -> Nat]
  BY DEF SeatTypeOK
<1>2. \A d \in Conns : d # c => openFds'[d] = openFds[d] /\ outFds'[d] = outFds[d]
  BY <1>1 DEF PushKeymap
<1>3. openFds'[c] - outFds'[c] \in (IF c \in alive THEN {0} ELSE {0, 1})
  <2>1. outFds[c] \in Nat /\ openFds[c] \in Nat
    BY <1>1
  <2>2. openFds[c] = outFds[c]
    BY <2>1 DEF KeymapFdsAccounted
  <2>3. /\ outFds'[c] = IF QueuesKeymap(c) THEN outFds[c] + 1 ELSE outFds[c]
        /\ openFds'[c] = IF PushesKeymap(c) THEN openFds[c] + 1 ELSE openFds[c]
    BY <1>1 DEF PushKeymap
  <2> QED BY <2>1, <2>2, <2>3 DEF QueuesKeymap
<1> QED BY <1>2, <1>3 DEF KeymapFdsAccounted

LEMMA FdsSame ==
  ASSUME SeatTypeOK, KeymapFdsAccounted, LastLeak, UNCHANGED keymaps, alive' \subseteq alive,
         \A c \in Conns : game'.call = "keymap" /\ game'.conn = c =>
           \/ c \in alive
           \/ game.call = "keymap" /\ game.conn = c
  PROVE  KeymapFdsAccounted' /\ LastLeak'
<1>1. KeymapFdsAccounted'
  BY DEF KeymapFdsAccounted, keymaps
<1>2. LastLeak'
  <2> SUFFICES ASSUME NEW c \in Conns, openFds[c] # outFds[c]
               PROVE  ~(game'.call = "keymap" /\ game'.conn = c)
    BY DEF LastLeak, keymaps
  <2>1. CASE c \in alive
    <3>1. outFds[c] \in Nat /\ openFds[c] \in Nat
      BY DEF SeatTypeOK
    <3>2. openFds[c] - outFds[c] = 0
      BY <2>1 DEF KeymapFdsAccounted
    <3> QED BY <3>1, <3>2
  <2>2. CASE c \notin alive
    BY <2>2 DEF LastLeak
  <2> QED BY <2>1, <2>2
<1> QED BY <1>1, <1>2

\* Whatever is opened is queued, and whatever is flushed is closed.
LEMMA KeymapFdsStep ==
  ASSUME TypeOK, CallArgs, KeymapFdsAccounted, LastLeak, [Next]_vars
  PROVE  KeymapFdsAccounted' /\ LastLeak'
<1>1. /\ SeatTypeOK /\ outFds \in [Conns -> 0..MaxFds] /\ openFds \in [Conns -> Nat]
      /\ \A c \in alive : openFds[c] = outFds[c]
  <2>1. outFds \in [Conns -> 0..MaxFds] /\ openFds \in [Conns -> Nat]
    BY DEF TypeOK, SeatTypeOK
  <2>2. ASSUME NEW c \in alive PROVE openFds[c] = outFds[c]
    <3>1. c \in Conns /\ openFds[c] \in Nat /\ outFds[c] \in Nat
      BY <2>1 DEF TypeOK, SeatTypeOK
    <3>2. openFds[c] - outFds[c] = 0
      BY <3>1 DEF KeymapFdsAccounted
    <3> QED BY <3>1, <3>2
  <2> QED BY <2>1, <2>2 DEF TypeOK
<1>2. ASSUME NEW c \in Conns, NEW i \in Ids, GetKeyboard(c, i)
      PROVE  KeymapFdsAccounted' /\ LastLeak'
  <2>1. c \in alive /\ alive' = alive /\ game' = game
    BY <1>2 DEF GetKeyboard, AddObject
  <2>2. CASE UNCHANGED keymaps
    BY <1>1, <2>1, <2>2, FdsSame
  <2>3. CASE PushKeymap(c)
    <3>1. /\ KeymapFdsAccounted'
          /\ \A d \in Conns : d # c => openFds'[d] = openFds[d] /\ outFds'[d] = outFds[d]
      BY <1>1, <2>1, <2>3, Pushed
    <3>2. openFds'[c] = outFds'[c]
      <4>1. QueuesKeymap(c) = PushesKeymap(c)
        BY <2>1 DEF QueuesKeymap, PushesKeymap
      <4> QED BY <1>1, <2>1, <2>3, <4>1 DEF PushKeymap
    <3> QED BY <2>1, <3>1, <3>2 DEF LastLeak
  <2> QED BY <1>2, <2>2, <2>3 DEF GetKeyboard
<1>3. ASSUME NEW c \in Conns, FlushFds(c) \/ Reap(c)
      PROVE  KeymapFdsAccounted' /\ LastLeak'
  <2>1. /\ UNCHANGED <<alive, game>>
        /\ outFds' = [outFds EXCEPT ![c] = 0] /\ openFds' = [openFds EXCEPT ![c] = @ - outFds[c]]
    BY <1>3 DEF FlushFds, Reap
  <2>2. \A d \in Conns : openFds'[d] - outFds'[d] = openFds[d] - outFds[d]
    BY <1>1, <2>1
  <2>3. \A d \in Conns : openFds'[d] # outFds'[d] => openFds[d] # outFds[d]
    BY <1>1, <2>1
  <2>4. KeymapFdsAccounted'
    BY <2>1, <2>2 DEF KeymapFdsAccounted
  <2> QED BY <2>1, <2>3, <2>4 DEF LastLeak
<1>4. ASSUME UNCHANGED keymaps, alive' \subseteq alive, game' = game
      PROVE  KeymapFdsAccounted' /\ LastLeak'
  BY <1>1, <1>4, FdsSame
<1>5. ASSUME NEW c \in Conns, Loop(c)
      PROVE  KeymapFdsAccounted' /\ LastLeak'
  <2>1. CASE Kill(c)
    BY <1>4, <2>1 DEF Kill
  <2>2. ASSUME NEW i \in Ids,
               \/ GetRegistry(c, i) \/ BindOutput(c, i) \/ BindSeat(c, i)
               \/ GetPointer(c, i) \/ CreateSurface(c, i) \/ Release(c, i)
        PROVE  KeymapFdsAccounted' /\ LastLeak'
    BY <1>4, <2>2 DEF GetRegistry, BindOutput, BindSeat, BindGlobal, AddObject,
       GetPointer, CreateSurface, Release
  <2> QED BY <1>2, <1>3, <1>5, <2>1, <2>2 DEF Loop, Request
<1>6. CASE BeginCall \/ MouseButton
  <2>1. PICK call, c, arg : Begin(call, c, arg) /\ (call = "keymap" => c \in alive)
    BY <1>6 DEF BeginCall, MouseButton, BeginPointerButton, BeginPointerLeave,
       BeginPointerScroll, BeginKeyboardUnfocus, BeginKeyboardModifiers,
       BeginPointerMotion, BeginKeyboardFocus, BeginUseKeymapText
  <2> QED BY <1>1, <2>1, FdsSame DEF Begin
<1>7. CASE FinishCall /\ ~UseKeymapText
  <2>1. game' = NoCall /\ UNCHANGED <<alive, keymaps>>
    BY <1>7 DEF FinishCall, PointerMotion, PointerLeave, PointerButton,
       PointerScroll, KeyboardKey, KeyboardModifiers, KeyboardEvent, KeyboardFocus,
       KeyboardUnfocus, Finish
  <2> QED BY <1>1, <2>1, FdsSame DEF NoCall
<1>8. CASE UseKeymapText
  <2>1. /\ game.call = "keymap" /\ game' = NoCall /\ alive' = alive
        /\ PushKeymap(game.conn)
    BY <1>8 DEF UseKeymapText, Finish
  <2>2. game.conn \in Conns /\ openFds[game.conn] = outFds[game.conn]
    BY <2>1 DEF CallArgs, NoCall, LastLeak
  <2>3. KeymapFdsAccounted'
    BY <1>1, <2>1, <2>2, Pushed
  <2> QED BY <2>1, <2>3 DEF LastLeak, NoCall
<1>9. CASE \E key \in KeyEvents : KeyDown(key) \/ KeyUp(key)
  <2>1. /\ UNCHANGED <<alive, keymaps>>
        /\ game' = game \/ game'.call \in {"press", "release"}
    BY <1>9 DEF KeyDown, KeyUp, PressExit, PressCapture, PressUncaptured, PressCaptured,
       ReleaseKey, Forward
  <2> QED BY <1>1, <2>1, FdsSame
<1>10. CASE UNCHANGED vars
  BY <1>4, <1>10 DEF vars, seatVars
<1> QED BY <1>5, <1>6, <1>7, <1>8, <1>9, <1>10 DEF Next, SeatStep

----------------------------------------------------------------------------
(* What a step may do.                                                     *)

LEMMA NextCases ==
  ASSUME [Next]_vars
  PROVE  \/ \E c \in Conns, i \in Ids :
              \/ GetRegistry(c, i) \/ BindOutput(c, i) \/ CreateSurface(c, i)
              \/ BindSeat(c, i) \/ GetPointer(c, i) \/ GetKeyboard(c, i) \/ Release(c, i)
         \/ \E c \in Conns : FlushFds(c) \/ Kill(c) \/ Reap(c)
         \/ BeginCall \/ BeginPointerButton
         \/ FinishCall
         \/ \E key \in KeyEvents : KeyDown(key) \/ KeyUp(key)
         \/ UNCHANGED vars
BY DEF Next, SeatStep, Loop, Request, MouseButton

\* Outside the hooks the keys stay as they are.
LEMMA HeldStays ==
  ASSUME [Next]_vars, ~\E key \in KeyEvents : KeyDown(key) \/ KeyUp(key)
  PROVE  held' = held
BY DEF Next, MouseButton, vars

\* A new object is one of its kind and connection.
LEMMA Added ==
  ASSUME SeatTypeOK, NEW c \in Conns, NEW i \in Ids, NEW kind, AddObject(c, i, kind)
  PROVE  /\ c \in alive /\ alive' = alive
         /\ i \notin objects[c] /\ KindOf[i] = kind /\ i \in objects'[c]
         /\ \A d \in Conns : objects[d] \subseteq objects'[d]
         /\ \A d \in Conns : \A j \in objects'[d] : j \in objects[d] \/ (d = c /\ j = i)
BY DEF SeatTypeOK, AddObject

\* The view of a new object.
LEMMA NewProxyViews ==
  ASSUME SeatTypeOK, NEW c \in Conns, NEW i \in Ids, heard' = NewProxy(c, i)
  PROVE  /\ heard'[c][i] = NewView
         /\ \A d \in Conns, j \in Ids : d # c \/ j # i => heard'[d][j] = heard[d][j]
BY DEF SeatTypeOK, NewProxy

LEMMA OtherObject ==
  ASSUME SeatTypeOK, NEW c \in Conns, NEW i \in Ids,
         GetRegistry(c, i) \/ BindOutput(c, i) \/ CreateSurface(c, i)
  PROVE  /\ \E kind \in {"registry", "output", "surface"} : AddObject(c, i, kind)
         /\ UNCHANGED <<promises, slots, game, alive>>
         /\ heard' = NewProxy(c, i)
BY DEF GetRegistry, BindOutput, CreateSurface, BindGlobal, AddObject

\* A call under the lock is over after it, and changes neither the objects nor
\* the slots.
LEMMA Finished ==
  ASSUME FinishCall
  PROVE  /\ game' = NoCall /\ game.call # "none"
         /\ UNCHANGED <<promises, alive, objects, seat>>
BY DEF FinishCall, PointerMotion, PointerLeave, PointerButton, PointerScroll,
       KeyboardKey, KeyboardModifiers, KeyboardEvent, KeyboardFocus,
       KeyboardUnfocus, UseKeymapText, Finish

LEMMA SlotKindsStep ==
  ASSUME TypeOK, SlotKinds, [Next]_vars
  PROVE  SlotKinds'
<1> SeatTypeOK /\ seat \in Seats
  BY DEF TypeOK, SeatTypeOK
<1>1. ASSUME seat' = seat
      PROVE  SlotKinds'
  BY <1>1 DEF SlotKinds
<1>2. ASSUME NEW c \in Conns, NEW i \in Ids, GetPointer(c, i)
      PROVE  SlotKinds'
  BY <1>2, Added DEF GetPointer, Seats, SlotKinds, RefTo
<1>3. ASSUME NEW c \in Conns, NEW i \in Ids, GetKeyboard(c, i)
      PROVE  SlotKinds'
  BY <1>3, Added DEF GetKeyboard, Seats, SlotKinds, RefTo
<1>4. ASSUME NEW c \in Conns, NEW i \in Ids, BindSeat(c, i) \/ Release(c, i)
      PROVE  SlotKinds'
  BY <1>4 DEF BindSeat, Release, ReleasedSlots, Seats, SlotKinds
<1>5. ASSUME NEW c \in Conns, NEW i \in Ids,
             GetRegistry(c, i) \/ BindOutput(c, i) \/ CreateSurface(c, i)
      PROVE  seat' = seat
  BY <1>5, OtherObject DEF slots
<1>6. ASSUME NEW c \in Conns, FlushFds(c) \/ Kill(c) \/ Reap(c)
      PROVE  seat' = seat
  BY <1>6 DEF FlushFds, Kill, Reap, slots
<1>7. ASSUME BeginCall \/ BeginPointerButton
      PROVE  seat' = seat
  BY <1>7 DEF BeginCall, BeginPointerButton, BeginPointerLeave,
     BeginPointerScroll, BeginKeyboardUnfocus, BeginKeyboardModifiers,
     BeginPointerMotion, BeginKeyboardFocus, BeginUseKeymapText, Begin, slots
<1>8. ASSUME NEW key \in KeyEvents, KeyDown(key) \/ KeyUp(key)
      PROVE  seat' = seat
  BY <1>8 DEF KeyDown, KeyUp, slots
<1>9. UNCHANGED vars => seat' = seat
  BY DEF vars, seatVars, slots
<1> QED BY <1>1, <1>2, <1>3, <1>4, <1>5, <1>6, <1>7, <1>8, <1>9, NextCases, Finished

----------------------------------------------------------------------------
(* One client has the seat.                                                *)

LEMMA HolderKept ==
  ASSUME OneHolder, \A d \in Conns : objects'[d] \subseteq objects[d],
         seat'.conn = seat.conn,
         seat'.hasPointer => seat.hasPointer, seat'.hasKeyboard => seat.hasKeyboard,
         game'.call \notin {"none", "keymap"} => game'.conn = seat.conn
  PROVE  OneHolder'
BY DEF OneHolder, Objects

LEMMA HolderAdds ==
  ASSUME SeatTypeOK, OneHolder, NEW c \in Conns, NEW i \in Ids, NEW kind,
         AddObject(c, i, kind), seat'.conn = seat.conn, game' = game,
         kind \in {"registry", "output", "surface"} \/ c = seat.conn,
         seat.conn \notin Conns => ~seat'.hasPointer /\ ~seat'.hasKeyboard
  PROVE  OneHolder'
BY Added DEF OneHolder, Objects

LEMMA HolderStep ==
  ASSUME TypeOK, CallArgs, OneHolder, Followed \subseteq promises, [Next]_vars
  PROVE  OneHolder'
<1> SeatTypeOK /\ seat \in Seats
  BY DEF TypeOK, SeatTypeOK
<1> Promised("oneBinder") /\ Promised("ownSurfaces")
  BY DEF Promised, Followed
<1>1. ASSUME NEW c \in Conns, NEW i \in Ids,
             GetRegistry(c, i) \/ BindOutput(c, i) \/ CreateSurface(c, i)
      PROVE  OneHolder'
  <2>1. PICK kind \in {"registry", "output", "surface"} : AddObject(c, i, kind)
    BY <1>1, OtherObject
  <2>2. UNCHANGED <<slots, game>>
    BY <1>1, OtherObject
  <2> QED BY <2>1, <2>2, HolderAdds DEF slots, OneHolder
<1>2. ASSUME NEW c \in Conns, NEW i \in Ids, BindSeat(c, i)
      PROVE  OneHolder'
  <2>1. /\ AddObject(c, i, "seat") /\ seat.conn \in {NoConn, c} /\ seat'.conn = c
        /\ game' = game
    BY <1>2 DEF BindSeat, BindGlobal, Seats
  <2>2. /\ \A d \in Conns : \A j \in objects'[d] : j \in objects[d] \/ (d = c /\ j = i)
    BY <2>1, Added
  <2>3. ASSUME NEW d \in Conns,
               (Objects(d, "seat") \cup Objects(d, "pointer") \cup Objects(d, "keyboard"))' # {}
        PROVE  d = c
    <3>1. CASE d # c
      <4>1. Objects(d, "seat") \cup Objects(d, "pointer") \cup Objects(d, "keyboard") # {}
        BY <2>2, <2>3, <3>1 DEF Objects
      <4> QED BY <2>1, <4>1 DEF OneHolder
    <3> QED BY <3>1
  <2>4. game.call \notin {"none", "keymap"} => game.conn = c
    BY <2>1 DEF OneHolder, CallArgs, NoCall
  <2> QED BY <2>1, <2>3, <2>4 DEF OneHolder
<1>3. ASSUME NEW c \in Conns, NEW i \in Ids, GetPointer(c, i) \/ GetKeyboard(c, i)
      PROVE  OneHolder'
  <2>1. PICK kind : AddObject(c, i, kind)
    BY <1>3 DEF GetPointer, GetKeyboard
  <2>2. /\ Objects(c, "seat") # {} /\ seat'.conn = seat.conn /\ game' = game
    BY <1>3 DEF GetPointer, GetKeyboard, Seats
  <2>3. c = seat.conn
    BY <2>2 DEF OneHolder
  <2> QED BY <2>1, <2>2, <2>3, HolderAdds
<1>4. ASSUME NEW c \in Conns, NEW i \in Ids, Release(c, i)
      PROVE  OneHolder'
  BY <1>4, HolderKept DEF Release, ReleasedSlots, Seats, OneHolder, SeatTypeOK
<1>5. ASSUME NEW c \in Conns, FlushFds(c) \/ Kill(c) \/ Reap(c)
      PROVE  OneHolder'
  BY <1>5, HolderKept DEF FlushFds, Kill, Reap, slots, OneHolder, SeatTypeOK
<1>6. CASE BeginCall \/ BeginPointerButton
  <2>1. PICK call, c, arg : Begin(call, c, arg) /\ (call # "keymap" => c = seat.conn)
    BY <1>6 DEF BeginCall, BeginPointerButton, BeginPointerLeave,
       BeginPointerScroll, BeginKeyboardUnfocus, BeginKeyboardModifiers,
       BeginPointerMotion, BeginKeyboardFocus, BeginUseKeymapText, MayPoint
  <2> QED BY <2>1, HolderKept DEF Begin, slots
<1>7. CASE FinishCall
  BY <1>7, Finished, HolderKept DEF NoCall
<1>8. ASSUME NEW key \in KeyEvents, KeyDown(key) \/ KeyUp(key)
      PROVE  OneHolder'
  <2>1. /\ UNCHANGED <<objects, slots>>
        /\ game' = game \/ game'.conn = seat.conn
    BY <1>8 DEF KeyDown, KeyUp, PressExit, PressCapture, PressUncaptured, PressCaptured,
       ReleaseKey, Forward
  <2> QED BY <2>1, HolderKept DEF slots, OneHolder
<1>9. CASE UNCHANGED vars
  BY <1>9, HolderKept DEF vars, seatVars, slots, OneHolder
<1> QED BY <1>1, <1>2, <1>3, <1>4, <1>5, <1>6, <1>7, <1>8, <1>9, NextCases

----------------------------------------------------------------------------
(* What a client hears of one object.                                      *)

LEMMA HearsAt ==
  ASSUME SeatTypeOK, Followed \subseteq promises, NEW c \in Conns, NEW view, Hears(c, view)
  PROVE  /\ c \in alive => heard'[c] = view
         /\ c \notin alive => heard' = heard
         /\ \A d \in Conns : d # c => heard'[d] = heard[d]
BY DEF SeatTypeOK, Hears

\* An event is not heard on other objects than the one it names ...
LEMMA SendElse ==
  ASSUME SeatTypeOK, Followed \subseteq promises, NEW c \in Conns, NEW e, Send(c, e)
  PROVE  \A d \in Conns, j \in Ids : d # c \/ j # e.id => heard'[d][j] = heard[d][j]
<1>1. heard \in [Conns -> [Ids -> View]]
  BY DEF SeatTypeOK
<1> QED BY <1>1 DEF Send, Hears, Hear

\* ... and not at all where it is not judged.
LEMMA SendUnjudged ==
  ASSUME SeatTypeOK, Followed \subseteq promises, NEW c \in Conns, NEW e, Send(c, e),
         c \notin alive \/ ~Judged(objects[c], e)
  PROVE  \A d \in Conns : heard'[d] = heard[d]
BY DEF Send, Hears, Hear, SeatTypeOK

LEMMA SendJudged ==
  ASSUME SeatTypeOK, Followed \subseteq promises, NEW c \in Conns, NEW e, Send(c, e),
         c \in alive, Judged(objects[c], e)
  PROVE  heard'[c][e.id] = IF Allowed(heard[c][e.id], e) THEN After(heard[c][e.id], e)
                           ELSE [heard[c][e.id] EXCEPT !.confused = TRUE]
<1>1. heard[c] \in [Ids -> View] /\ e.id \in Ids
  BY DEF SeatTypeOK, Judged
<1>2. heard'[c] = Hear(c, heard[c], e)
  BY DEF SeatTypeOK, Send, Hears
<1> QED BY <1>1, <1>2 DEF Hear

----------------------------------------------------------------------------
(* The pointer.                                                            *)

\* Every step that leaves the client's view of its pointer with the pointer
\* focus.
LEMMA PointerKept ==
  ASSUME SeatTypeOK, PointerSlot, PointerHeard, alive' \subseteq alive,
         seat'.conn = seat.conn, seat'.pointer = seat.pointer,
         seat'.hasPointer = seat.hasPointer,
         SeatAlive' => (seat.pointer.id \in objects'[seat.conn] <=>
                          seat.pointer.id \in objects[seat.conn]),
         \A d \in Conns, j \in Ids :
           KindOf[j] = "pointer" /\ heard'[d][j].confused => heard[d][j].confused,
         SeatAlive' /\ seat.hasPointer =>
           heard'[seat.conn][seat.pointer.id].focus = gPointer'.id
  PROVE  PointerSlot' /\ PointerHeard'
<1>1. SeatAlive' => SeatAlive
  BY DEF SeatAlive
<1>2. Confused("pointer")' = {}
  BY DEF PointerHeard, Confused
<1> QED BY <1>1, <1>2 DEF PointerSlot, PointerHeard

\* What is known of the seat's pointer and of its client's view of it.
LEMMA PointerFacts ==
  ASSUME SeatTypeOK, SlotKinds, PointerSlot, PointerHeard, SeatAlive, seat.hasPointer,
         NEW c, c = seat.conn, NEW p, p = seat.pointer.id
  PROVE  /\ c \in Conns /\ p \in Ids /\ p \in objects[c] /\ KindOf[p] = "pointer"
         /\ heard[c] \in [Ids -> View] /\ heard[c][p] \in View
         /\ ~heard[c][p].confused /\ heard[c][p].focus = gPointer.id
<1>1. c \in Conns /\ p \in objects[c]
  BY DEF PointerSlot, SeatAlive, SeatTypeOK
<1>2. p \in Ids /\ heard[c] \in [Ids -> View]
  BY <1>1 DEF SeatTypeOK
<1>3. p # NoId
  BY <1>2
<1>4. KindOf[p] = "pointer"
  BY <1>3 DEF SlotKinds
<1> QED BY <1>1, <1>2, <1>4 DEF PointerHeard, Confused

LEMMA PointerSame ==
  ASSUME SeatTypeOK, SlotKinds, PointerSlot, PointerHeard, UNCHANGED <<alive, objects, seat>>,
         SeatAlive /\ seat.hasPointer => gPointer' = gPointer,
         \A d \in Conns, j \in Ids : KindOf[j] = "pointer" => heard'[d][j] = heard[d][j]
  PROVE  PointerSlot' /\ PointerHeard'
<1>1. SeatAlive' = SeatAlive
  BY DEF SeatAlive
<1>2. SeatAlive /\ seat.hasPointer =>
        heard'[seat.conn][seat.pointer.id].focus = gPointer'.id
  BY PointerFacts
<1> QED BY <1>1, <1>2, PointerKept

\* The pointer leaves what it is inside of, which its client knows.
LEMMA LeftAt ==
  ASSUME SeatTypeOK, SlotKinds, PointerSlot, PointerHeard, SeatAlive, seat.hasPointer,
         NEW c, c = seat.conn, NEW p, p = seat.pointer.id, NEW w, w = Left(c, heard[c])
  PROVE  /\ w \in [Ids -> View]
         /\ \A j \in Ids : j # p => w[j] = heard[c][j]
         /\ ~w[p].confused /\ w[p].focus = NoId
<1> DEFINE e == Event("leave", p, gPointer.id)
<1>1. /\ c \in Conns /\ p \in Ids /\ p \in objects[c] /\ KindOf[p] = "pointer"
      /\ heard[c] \in [Ids -> View] /\ heard[c][p] \in View
      /\ ~heard[c][p].confused /\ heard[c][p].focus = gPointer.id
  BY PointerFacts
<1>2. CASE gPointer = NoRef
  BY <1>1, <1>2 DEF Left, NoRef
<1>3. CASE gPointer # NoRef
  <2>1. w = Hear(c, heard[c], e)
    BY <1>1, <1>3 DEF Left, PointerReady
  <2>2. /\ Judged(objects[c], e) /\ Allowed(heard[c][p], e) /\ e.id = p /\ Typed(e)
        /\ After(heard[c][p], e) = [heard[c][p] EXCEPT !.focus = NoId, !.down = {}]
    BY <1>1 DEF Judged, Allowed, After, Typed, Event
  <2> HIDE DEF e
  <2>3. w \in [Ids -> View]
    BY <1>1, <2>1, <2>2, HearType
  <2>4. w = [heard[c] EXCEPT ![p] = [heard[c][p] EXCEPT !.focus = NoId, !.down = {}]]
    BY <1>1, <2>1, <2>2 DEF Hear
  <2>5. w[p] = [heard[c][p] EXCEPT !.focus = NoId, !.down = {}]
    BY <1>1, <2>4
  <2>6. \A j \in Ids : j # p => w[j] = heard[c][j]
    BY <1>1, <2>4
  <2> QED BY <1>1, <2>3, <2>5, <2>6 DEF View
<1> QED BY <1>2, <1>3

\* It enters a surface when it is on none ...
LEMMA EnteredAt ==
  ASSUME SeatTypeOK, SlotKinds, PointerSlot, PointerHeard, SeatAlive, seat.hasPointer,
         NEW c, c = seat.conn, NEW p, p = seat.pointer.id,
         NEW view \in [Ids -> View], view[p].focus = NoId,
         NEW surface \in Ids, NEW w, w = Entered(c, view, surface)
  PROVE  /\ w \in [Ids -> View]
         /\ \A j \in Ids : j # p => w[j] = view[j]
         /\ w[p].confused = view[p].confused /\ w[p].focus = surface
<1> DEFINE e == Event("enter", p, surface)
<1>1. /\ c \in Conns /\ p \in Ids /\ p \in objects[c] /\ KindOf[p] = "pointer"
      /\ view[p] \in View
  BY PointerFacts
<1>2. /\ Judged(objects[c], e) /\ Allowed(view[p], e) /\ e.id = p /\ Typed(e)
      /\ After(view[p], e) = [view[p] EXCEPT !.focus = surface, !.down = {}]
      /\ w = Hear(c, view, e)
  BY <1>1 DEF Judged, Allowed, After, Typed, Event, Entered
<1> HIDE DEF e
<1>3. w \in [Ids -> View]
  BY <1>2, HearType
<1>4. w = [view EXCEPT ![p] = [view[p] EXCEPT !.focus = surface, !.down = {}]]
  BY <1>1, <1>2 DEF Hear
<1> QED BY <1>1, <1>3, <1>4 DEF View

\* ... and moves on the one it is on.
LEMMA MovedAt ==
  ASSUME SeatTypeOK, SlotKinds, PointerSlot, PointerHeard, SeatAlive, seat.hasPointer,
         NEW c, c = seat.conn, NEW view \in [Ids -> View],
         view[seat.pointer.id].focus # NoId
  PROVE  Moved(c, view) = view
<1> DEFINE p == seat.pointer.id
           e == Event("motion", p, NoId)
<1>1. /\ c \in Conns /\ p \in Ids /\ p \in objects[c] /\ KindOf[p] = "pointer"
      /\ view[p] \in View
  BY PointerFacts
<1>2. PICK w : w = Moved(c, view)
  OBVIOUS
<1>3. /\ Judged(objects[c], e) /\ Allowed(view[p], e) /\ e.id = p /\ Typed(e)
      /\ After(view[p], e) = view[p] /\ w = Hear(c, view, e)
  BY <1>1, <1>2 DEF Judged, Allowed, After, Typed, Event, Moved
<1> HIDE DEF e, p
<1>4. w = [view EXCEPT ![p] = view[p]]
  BY <1>1, <1>3 DEF Hear
<1>5. w = view
  BY <1>1, <1>4
<1> QED BY <1>2, <1>5

\* With no pointer in its slot nothing is heard of one.
LEMMA NothingMoves ==
  ASSUME SeatTypeOK, PointerSlot, SeatAlive, ~seat.hasPointer, NEW c, c = seat.conn
  PROVE  Moved(c, heard[c]) = heard[c] /\ Left(c, heard[c]) = heard[c]
BY DEF PointerSlot, Moved, Left, PointerReady, Hear, Judged, Event

LEMMA PointerMotionStep ==
  ASSUME SeatTypeOK, CallArgs, SlotKinds, FollowedInv, Followed \subseteq promises, PointerMotion
  PROVE  PointerSlot' /\ PointerHeard'
<1> DEFINE c == seat.conn
           p == seat.pointer.id
           moves == gPointer # RefTo(c, game.arg) /\ PointerReady
           on == IF moves THEN Entered(c, Left(c, heard[c]), game.arg) ELSE heard[c]
<1>1. /\ UNCHANGED <<promises, alive, objects, seat>>
      /\ game.call = "motion" /\ game.conn = c /\ c \in Conns /\ game.arg \in Ids
  BY DEF PointerMotion, Finish, FollowedInv, OneHolder, CallArgs, NoCall
<1>2. Hears(c, Moved(c, on)) /\ gPointer' = IF moves THEN RefTo(c, game.arg) ELSE gPointer
  BY <1>1 DEF PointerMotion
<1>3. SeatAlive' = SeatAlive
  BY <1>1 DEF SeatAlive
<1>4. CASE ~SeatAlive
  <2>1. heard' = heard
    BY <1>1, <1>2, <1>4, HearsAt DEF SeatAlive
  <2> QED BY <1>1, <1>4, <2>1, PointerSame DEF FollowedInv
<1>5. CASE SeatAlive /\ ~seat.hasPointer
  <2>1. on = heard[c]
    BY <1>5 DEF PointerReady
  <2>2. Hears(c, heard[c])
    BY <1>2, <1>5, <2>1, NothingMoves DEF FollowedInv
  <2>3. \A d \in Conns : heard'[d] = heard[d]
    BY <1>1, <2>2, HearsAt
  <2> QED BY <1>1, <1>5, <2>3, PointerSame DEF FollowedInv
<1>6. CASE SeatAlive /\ seat.hasPointer
  <2>1. /\ c # NoConn /\ p \in Ids /\ heard[c] \in [Ids -> View]
        /\ ~heard[c][p].confused /\ heard[c][p].focus = gPointer.id
    BY <1>1, <1>6, PointerFacts DEF FollowedInv
  <2>2. /\ on \in [Ids -> View] /\ \A j \in Ids : j # p => on[j] = heard[c][j]
        /\ ~on[p].confused /\ on[p].focus = game.arg
    <3>1. CASE moves
      <4>1. PICK w : w = Left(c, heard[c])
        OBVIOUS
      <4>2. /\ w \in [Ids -> View] /\ \A j \in Ids : j # p => w[j] = heard[c][j]
            /\ ~w[p].confused /\ w[p].focus = NoId
        BY <1>6, <4>1, LeftAt DEF FollowedInv
      <4>3. on = Entered(c, w, game.arg)
        BY <3>1, <4>1
      <4> HIDE DEF on
      <4> QED BY <1>1, <1>6, <4>2, <4>3, EnteredAt DEF FollowedInv
    <3>2. CASE ~moves
      <4>1. gPointer = RefTo(c, game.arg)
        BY <1>6, <2>1, <3>2 DEF PointerReady
      <4> QED BY <2>1, <3>2, <4>1 DEF RefTo
    <3> QED BY <3>1, <3>2
  <2>3. gPointer'.id = game.arg
    BY <1>2, <1>6, <2>1 DEF PointerReady, RefTo
  <2>4. on[p].focus # NoId
    BY <1>1, <2>2
  <2> HIDE DEF on
  <2>5. Hears(c, on)
    BY <1>2, <1>6, <2>2, <2>4, MovedAt DEF FollowedInv
  <2>6. heard'[c] = on /\ \A d \in Conns : d # c => heard'[d] = heard[d]
    BY <1>1, <1>6, <2>5, HearsAt DEF SeatAlive
  <2>7. heard'[c][p].focus = gPointer'.id
    BY <2>2, <2>3, <2>6
  <2>8. \A d \in Conns, j \in Ids : heard'[d][j].confused => heard[d][j].confused
    BY <2>2, <2>6
  <2> QED BY <1>1, <2>7, <2>8, PointerKept DEF FollowedInv
<1> QED BY <1>4, <1>5, <1>6

LEMMA PointerLeaveStep ==
  ASSUME SeatTypeOK, CallArgs, SlotKinds, FollowedInv, Followed \subseteq promises, PointerLeave
  PROVE  PointerSlot' /\ PointerHeard'
<1> DEFINE c == seat.conn
           p == seat.pointer.id
<1>1. /\ UNCHANGED <<promises, alive, objects, seat>>
      /\ game.call = "leave" /\ game.conn = c /\ c \in Conns
      /\ Hears(c, Left(c, heard[c]))
      /\ gPointer' = IF PointerReady THEN NoRef ELSE gPointer
  BY DEF PointerLeave, Finish, FollowedInv, OneHolder, CallArgs, NoCall
<1>2. CASE ~SeatAlive
  <2>1. heard' = heard
    BY <1>1, <1>2, HearsAt DEF SeatAlive
  <2> QED BY <1>1, <1>2, <2>1, PointerSame DEF FollowedInv
<1>3. CASE SeatAlive /\ ~seat.hasPointer
  <2>1. Hears(c, heard[c])
    BY <1>1, <1>3, NothingMoves DEF FollowedInv
  <2>2. \A d \in Conns : heard'[d] = heard[d]
    BY <1>1, <2>1, HearsAt
  <2> QED BY <1>1, <1>3, <2>2, PointerSame DEF FollowedInv
<1>4. CASE SeatAlive /\ seat.hasPointer
  <2>1. gPointer' = NoRef
    BY <1>1, <1>4 DEF PointerReady
  <2>2. PICK w : w = Left(c, heard[c])
    OBVIOUS
  <2>3. /\ \A j \in Ids : j # p => w[j] = heard[c][j]
        /\ ~w[p].confused /\ w[p].focus = NoId
    BY <1>4, <2>2, LeftAt DEF FollowedInv
  <2>4. heard'[c] = w /\ \A d \in Conns : d # c => heard'[d] = heard[d]
    BY <1>1, <1>4, <2>2, HearsAt DEF SeatAlive
  <2>5. heard'[c][p].focus = gPointer'.id
    BY <2>1, <2>3, <2>4 DEF NoRef
  <2>6. \A d \in Conns, j \in Ids : heard'[d][j].confused => heard[d][j].confused
    BY <2>3, <2>4
  <2> QED BY <1>1, <2>5, <2>6, PointerKept DEF FollowedInv
<1> QED BY <1>2, <1>3, <1>4

\* A button, an axis or an event of a keyboard says nothing of the pointer.
LEMMA OtherCallStep ==
  ASSUME SeatTypeOK, CallArgs, SlotKinds, FollowedInv, Followed \subseteq promises, FinishCall,
         ~PointerMotion, ~PointerLeave
  PROVE  PointerSlot' /\ PointerHeard'
<1>1. /\ UNCHANGED <<promises, alive, objects, seat>> /\ game.conn \in Conns
      /\ gPointer' = gPointer
  BY Finished DEF CallArgs, NoCall, FinishCall, PointerButton, PointerScroll, KeyboardKey,
     KeyboardModifiers, KeyboardEvent, KeyboardFocus, KeyboardUnfocus, UseKeymapText
<1>2. \A d \in Conns, j \in Ids : KindOf[j] = "pointer" => heard'[d][j] = heard[d][j]
  <2>1. ASSUME NEW e, Send(game.conn, e), e.type \in {"button", "axis"}
        PROVE  \A d \in Conns : heard'[d] = heard[d]
    <3>1. ~Judged(objects[game.conn], e)
      BY <2>1 DEF Judged
    <3> QED BY <1>1, <2>1, <3>1, SendUnjudged
  <2>2. ASSUME NEW e, Send(game.conn, e), e.id = seat.keyboard.id
        PROVE  \A d \in Conns, j \in Ids : KindOf[j] = "pointer" => heard'[d][j] = heard[d][j]
    <3>1. \A j \in Ids : KindOf[j] = "pointer" => j # e.id
      BY <2>2 DEF SlotKinds
    <3>2. \A d \in Conns, j \in Ids :
            d # game.conn \/ j # e.id => heard'[d][j] = heard[d][j]
      BY <1>1, <2>2, SendElse
    <3> QED BY <3>1, <3>2
  <2>3. CASE PointerButton \/ PointerScroll
    <3>1. PICK type \in {"button", "axis"} : Send(game.conn, Event(type, seat.pointer.id, NoId))
      BY <2>3 DEF PointerButton, PointerScroll
    <3> QED BY <2>1, <3>1 DEF Event
  <2>4. CASE KeyboardKey \/ KeyboardModifiers \/ KeyboardFocus
    <3>1. PICK type, arg : Send(game.conn, Event(type, seat.keyboard.id, arg))
      BY <2>4 DEF KeyboardKey, KeyboardModifiers, KeyboardEvent, KeyboardFocus
    <3> QED BY <2>2, <3>1 DEF Event
  <2>5. CASE KeyboardUnfocus
    <3>1. \/ Send(game.conn, Event("unfocused", seat.keyboard.id, gKeyboard.id))
          \/ Hears(game.conn, heard[game.conn])
      BY <2>5 DEF KeyboardUnfocus, Unfocused, Send
    <3> QED BY <1>1, <2>2, <3>1, HearsAt DEF Event
  <2>6. CASE UseKeymapText
    <3>1. \/ Send(game.conn, Event("keymap", seat.keyboard.id, NoId))
          \/ heard' = heard
      BY <2>6 DEF UseKeymapText
    <3> QED BY <2>2, <3>1 DEF Event
  <2> QED BY <2>3, <2>4, <2>5, <2>6 DEF FinishCall
<1> QED BY <1>1, <1>2, PointerSame DEF FollowedInv

\* An object of another kind says nothing of the pointer.
LEMMA PointerBeside ==
  ASSUME SeatTypeOK, SlotKinds, PointerSlot, PointerHeard,
         NEW c \in Conns, NEW i \in Ids, NEW kind, AddObject(c, i, kind), kind # "pointer",
         seat'.conn = seat.conn, seat'.pointer = seat.pointer,
         seat'.hasPointer = seat.hasPointer, gPointer' = gPointer,
         \A d \in Conns, j \in Ids : d # c \/ j # i => heard'[d][j] = heard[d][j]
  PROVE  PointerSlot' /\ PointerHeard'
<1>1. /\ alive' = alive /\ i \notin objects[c] /\ KindOf[i] = kind
      /\ \A d \in Conns : objects[d] \subseteq objects'[d]
      /\ \A d \in Conns : \A j \in objects'[d] : j \in objects[d] \/ (d = c /\ j = i)
  BY Added
<1>2. SeatAlive' = SeatAlive /\ (SeatAlive => seat.conn \in Conns)
  BY <1>1 DEF SeatAlive, SeatTypeOK
<1>3. seat.pointer.id # i
  BY <1>1 DEF SlotKinds
<1>4. SeatAlive => (seat.pointer.id \in objects'[seat.conn] <=>
                      seat.pointer.id \in objects[seat.conn])
  BY <1>1, <1>2, <1>3
<1>5. SeatAlive /\ seat.hasPointer =>
        heard'[seat.conn][seat.pointer.id].focus = gPointer'.id
  BY <1>3, PointerFacts
<1>6. \A d \in Conns, j \in Ids :
        KindOf[j] = "pointer" /\ heard'[d][j].confused => heard[d][j].confused
  BY <1>1
<1> QED BY <1>1, <1>2, <1>4, <1>5, <1>6, PointerKept

LEMMA OtherObjectPointer ==
  ASSUME SeatTypeOK, SlotKinds, FollowedInv, NEW c \in Conns, NEW i \in Ids,
         GetRegistry(c, i) \/ BindOutput(c, i) \/ CreateSurface(c, i)
  PROVE  PointerSlot' /\ PointerHeard'
<1>1. PICK kind \in {"registry", "output", "surface"} : AddObject(c, i, kind)
  BY OtherObject
<1>2. UNCHANGED slots /\ heard' = NewProxy(c, i)
  BY OtherObject
<1> QED BY <1>1, <1>2, NewProxyViews, PointerBeside DEF slots, FollowedInv

LEMMA GetKeyboardPointer ==
  ASSUME SeatTypeOK, SlotKinds, FollowedInv, NEW c \in Conns, NEW i \in Ids, GetKeyboard(c, i)
  PROVE  PointerSlot' /\ PointerHeard'
<1>1. /\ AddObject(c, i, "keyboard") /\ gPointer' = gPointer
      /\ seat' = [seat EXCEPT !.hasKeyboard = TRUE, !.keyboard = RefTo(c, i)]
  BY DEF GetKeyboard
<1>2. \A d \in Conns, j \in Ids : d # c \/ j # i => heard'[d][j] = heard[d][j]
  <2>1. heard \in [Conns -> [Ids -> View]]
    BY DEF SeatTypeOK
  <2> QED BY <2>1 DEF GetKeyboard, NewProxy
<1>3. /\ seat'.conn = seat.conn /\ seat'.pointer = seat.pointer
      /\ seat'.hasPointer = seat.hasPointer
  BY <1>1 DEF SeatTypeOK, Seats
<1> QED BY <1>1, <1>2, <1>3, PointerBeside DEF FollowedInv

\* Before a seat is bound there is no pointer, and after it is bound again it
\* is as before.
LEMMA BindSeatPointer ==
  ASSUME SeatTypeOK, SlotKinds, FollowedInv, Followed \subseteq promises,
         NEW c \in Conns, NEW i \in Ids, BindSeat(c, i)
  PROVE  PointerSlot' /\ PointerHeard'
<1>1. /\ AddObject(c, i, "seat") /\ seat.conn \in {NoConn, c}
      /\ seat' = [seat EXCEPT !.conn = c] /\ gPointer' = gPointer
      /\ heard' = NewProxy(c, i)
  BY DEF BindSeat, BindGlobal, Promised, Followed
<1>2. /\ seat'.conn = c /\ seat'.pointer = seat.pointer
      /\ seat'.hasPointer = seat.hasPointer
  BY <1>1 DEF SeatTypeOK, Seats
<1>3. /\ heard'[c][i] = NewView
      /\ \A d \in Conns, j \in Ids : d # c \/ j # i => heard'[d][j] = heard[d][j]
  BY <1>1, NewProxyViews
<1>4. CASE seat.conn = c
  BY <1>1, <1>2, <1>3, <1>4, PointerBeside DEF FollowedInv
<1>5. CASE seat.conn # c
  <2>1. ~seat.hasPointer /\ Objects(c, "pointer") = {}
    BY <1>1, <1>5 DEF FollowedInv, OneHolder
  <2>2. ASSUME NEW j \in objects'[c]
        PROVE  KindOf[j] # "pointer" /\ j \in Ids
    BY <1>1, <2>1, Added, AddObjectType DEF Objects
  <2>3. PointerSlot'
    BY <1>2, <2>1, <2>2 DEF PointerSlot, SlotKinds
  <2>4. \A d \in Conns, j \in Ids : heard'[d][j].confused => heard[d][j].confused
    BY <1>3 DEF NewView
  <2> QED BY <1>2, <2>1, <2>3, <2>4 DEF FollowedInv, PointerHeard, Confused
<1> QED BY <1>4, <1>5

\* A new pointer is on no surface, and neither is the seat's pointer.
LEMMA GetPointerPointer ==
  ASSUME SeatTypeOK, FollowedInv, NEW c \in Conns, NEW i \in Ids, GetPointer(c, i)
  PROVE  PointerSlot' /\ PointerHeard'
<1>1. /\ AddObject(c, i, "pointer") /\ Objects(c, "seat") # {}
      /\ seat' = [seat EXCEPT !.hasPointer = TRUE, !.pointer = RefTo(c, i)]
      /\ gPointer' = NoRef /\ heard' = NewProxy(c, i)
  BY DEF GetPointer
<1>2. seat'.conn = c /\ seat'.pointer.id = i /\ seat'.hasPointer
  BY <1>1 DEF SeatTypeOK, Seats, RefTo, FollowedInv, OneHolder
<1>3. i \in objects'[c]
  BY <1>1, Added
<1>4. /\ heard'[c][i] = NewView
      /\ \A d \in Conns, j \in Ids : d # c \/ j # i => heard'[d][j] = heard[d][j]
  BY <1>1, NewProxyViews
<1>5. \A d \in Conns, j \in Ids : heard'[d][j].confused => heard[d][j].confused
  BY <1>4 DEF NewView
<1>6. PointerSlot'
  BY <1>2, <1>3 DEF PointerSlot
<1> QED BY <1>1, <1>2, <1>4, <1>5, <1>6 DEF FollowedInv, PointerHeard, Confused, NewView, NoRef

\* A pointer that is released leaves its slot empty.
LEMMA ReleasePointer ==
  ASSUME SeatTypeOK, SlotKinds, FollowedInv, NEW c \in Conns, NEW i \in Ids, Release(c, i)
  PROVE  PointerSlot' /\ PointerHeard'
<1>1. /\ i \in objects[c] /\ objects' = [objects EXCEPT ![c] = @ \ {i}]
      /\ seat' = ReleasedSlots(c, i) /\ UNCHANGED <<alive, gPointer, heard>>
  BY DEF Release
<1>2. /\ seat'.conn = seat.conn /\ seat'.pointer = seat.pointer
      /\ seat'.hasPointer = (seat.hasPointer /\
                               ~(KindOf[i] = "pointer" /\ seat.pointer.id = i))
  BY <1>1 DEF ReleasedSlots, SeatTypeOK, Seats
<1>3. /\ \A d \in Conns : d # c => objects'[d] = objects[d]
      /\ objects'[c] = objects[c] \ {i}
  BY <1>1 DEF SeatTypeOK
<1>4. KindOf[i] = "pointer" => c = seat.conn
  BY <1>1 DEF FollowedInv, OneHolder, Objects
<1>5. seat.pointer.id = i => KindOf[i] = "pointer"
  BY DEF SlotKinds
<1>6. SeatAlive' = SeatAlive /\ (SeatAlive => seat.conn \in Conns)
  BY <1>1, <1>2 DEF SeatAlive, SeatTypeOK
<1>7. PointerSlot'
  <2>1. CASE seat.pointer.id = i
    BY <1>2, <1>3, <1>4, <1>5, <2>1 DEF PointerSlot
  <2>2. CASE seat.pointer.id # i
    <3>1. SeatAlive => (seat.pointer.id \in objects'[seat.conn] <=>
                          seat.pointer.id \in objects[seat.conn])
      BY <1>3, <1>6, <2>2
    <3>2. seat'.hasPointer <=> seat.hasPointer
      BY <1>2, <2>2
    <3> QED BY <1>2, <1>6, <3>1, <3>2 DEF FollowedInv, PointerSlot
  <2> QED BY <2>1, <2>2
<1>8. PointerHeard'
  BY <1>1, <1>2, <1>6 DEF FollowedInv, PointerHeard, Confused
<1> QED BY <1>7, <1>8

LEMMA ConnectionPointer ==
  ASSUME SeatTypeOK, SlotKinds, FollowedInv, NEW c \in Conns,
         FlushFds(c) \/ Kill(c) \/ Reap(c)
  PROVE  PointerSlot' /\ PointerHeard'
<1>1. /\ UNCHANGED slots /\ alive' \subseteq alive
      /\ c \in alive' => UNCHANGED <<objects, heard>>
      /\ \A d \in Conns : d # c => objects'[d] = objects[d] /\ heard'[d] = heard[d]
      /\ \A j \in Ids : ~heard'[c][j].confused \/ heard'[c] = heard[c]
  BY DEF FlushFds, Kill, Reap, SeatTypeOK, slots, NewView
<1>2. SeatAlive' => SeatAlive /\ seat.conn \in Conns
  BY <1>1 DEF SeatAlive, SeatTypeOK, slots
<1>3. SeatAlive' => objects'[seat.conn] = objects[seat.conn] /\ heard'[seat.conn] = heard[seat.conn]
  BY <1>1, <1>2 DEF SeatAlive, slots
<1>4. SeatAlive' /\ seat.hasPointer => heard'[seat.conn][seat.pointer.id].focus = gPointer'.id
  BY <1>1, <1>2, <1>3 DEF slots, FollowedInv, PointerHeard
<1> QED BY <1>1, <1>3, <1>4, PointerKept DEF slots, FollowedInv

LEMMA FollowedStep ==
  ASSUME TypeOK, CallArgs, SlotKinds, FollowedInv, Followed \subseteq promises, [Next]_vars
  PROVE  FollowedInv'
<1>1. SeatTypeOK
  BY DEF TypeOK
<1>2. SUFFICES PointerSlot' /\ PointerHeard'
  BY HolderStep DEF FollowedInv
<1>3. ASSUME UNCHANGED <<alive, objects, slots, heard>>
      PROVE  PointerSlot' /\ PointerHeard'
  BY <1>1, <1>3, PointerSame DEF FollowedInv, slots
<1>4. CASE BeginCall \/ BeginPointerButton
  BY <1>3, <1>4 DEF BeginCall, BeginPointerButton, BeginPointerLeave,
     BeginPointerScroll, BeginKeyboardUnfocus, BeginKeyboardModifiers,
     BeginPointerMotion, BeginKeyboardFocus, BeginUseKeymapText, Begin
<1>5. CASE FinishCall
  BY <1>1, <1>5, PointerMotionStep, PointerLeaveStep, OtherCallStep
<1>6. CASE \E key \in KeyEvents : KeyDown(key) \/ KeyUp(key)
  BY <1>3, <1>6 DEF KeyDown, KeyUp
<1>7. CASE UNCHANGED vars
  BY <1>3, <1>7 DEF vars, seatVars
<1>8. ASSUME NEW c \in Conns, NEW i \in Ids,
             \/ GetRegistry(c, i) \/ BindOutput(c, i) \/ CreateSurface(c, i)
             \/ BindSeat(c, i) \/ GetPointer(c, i) \/ GetKeyboard(c, i) \/ Release(c, i)
      PROVE  PointerSlot' /\ PointerHeard'
  BY <1>1, <1>8, OtherObjectPointer, GetKeyboardPointer, BindSeatPointer,
     GetPointerPointer, ReleasePointer
<1>9. ASSUME NEW c \in Conns, FlushFds(c) \/ Kill(c) \/ Reap(c)
      PROVE  PointerSlot' /\ PointerHeard'
  BY <1>1, <1>9, ConnectionPointer
<1> QED BY <1>4, <1>5, <1>6, <1>7, <1>8, <1>9, NextCases

----------------------------------------------------------------------------
(* The keyboard.                                                           *)

\* Every step that leaves the keyboard, its focus and its client's view of it.
LEMMA KeyboardKept ==
  ASSUME SeatTypeOK, SlotKinds, TidyInv, alive' \subseteq alive,
         UNCHANGED <<promises, gKeyboard, held>>,
         seat'.conn = seat.conn, seat'.keyboard = seat.keyboard,
         seat'.hasKeyboard = seat.hasKeyboard,
         SeatAlive' /\ seat.hasKeyboard =>
           /\ seat.keyboard.id \in objects'[seat.conn]
           /\ heard'[seat.conn][seat.keyboard.id] = heard[seat.conn][seat.keyboard.id],
         \A d \in Conns, j \in Ids :
           KindOf[j] = "keyboard" /\ heard'[d][j].confused => heard[d][j].confused,
         \A d \in Conns, j \in Ids :
           heard'[d][j].down # {} => heard'[d][j] = heard[d][j],
         \A d \in alive \ alive' : \A j \in Ids : heard'[d][j].down = {},
         CallHolds',
         game'.call = "press" => game' = game,
         game.call = "release" => game' = game \/ ~SeatAlive
  PROVE  TidyInv'
<1>1. SeatAlive' => SeatAlive
  BY DEF SeatAlive
<1>2. KeyboardSlot'
  BY DEF TidyInv, KeyboardSlot
<1>3. Confused("keyboard") = {} => Confused("keyboard")' = {}
  BY DEF Confused
<1>4. KeyboardHeard'
  BY <1>1, <1>3 DEF TidyInv, KeyboardHeard
<1>5. game'.call = "press" => game'.arg \in held' \ {ExitKey}
  BY DEF TidyInv, KeysHeld
<1>6. ASSUME NEW d \in Conns, NEW j \in Ids, heard'[d][j].down # {}
      PROVE  /\ d = seat'.conn /\ d \in alive' /\ j = seat'.keyboard.id
             /\ seat'.hasKeyboard /\ heard'[d][j].focus # NoId
             /\ ExitKey \notin heard'[d][j].down
             /\ heard'[d][j].down \subseteq
                  held' \cup (IF game'.call = "release" THEN {game'.arg} ELSE {})
  <2>1. /\ d = seat.conn /\ d \in alive /\ j = seat.keyboard.id
        /\ seat.hasKeyboard /\ heard[d][j].focus # NoId
        /\ ExitKey \notin heard[d][j].down
        /\ heard[d][j].down \subseteq
             held \cup (IF game.call = "release" THEN {game.arg} ELSE {})
        /\ heard'[d][j] = heard[d][j]
    BY <1>6 DEF TidyInv, KeysHeld
  <2>2. d \in alive'
    BY <1>6, <2>1
  <2>3. game.call = "release" => game' = game
    BY <2>1 DEF SeatAlive
  <2> QED BY <2>1, <2>2, <2>3
<1>7. KeysHeld'
  BY <1>5, <1>6 DEF KeysHeld
<1> QED BY <1>2, <1>4, <1>7 DEF TidyInv

\* What is known of the seat's keyboard and of its client's view of it.
LEMMA KeyboardFacts ==
  ASSUME SeatTypeOK, SlotKinds, TidyInv, SeatAlive, seat.hasKeyboard,
         NEW c, c = seat.conn, NEW k, k = seat.keyboard.id, NEW v, v = heard[c][k]
  PROVE  /\ c \in Conns /\ k \in Ids /\ k \in objects[c] /\ KindOf[k] = "keyboard"
         /\ heard[c] \in [Ids -> View] /\ v \in View
         /\ v.focus \in {NoId, gKeyboard.id} /\ (v.focus # NoId => v.keymap)
         /\ v.down # {} => /\ v.focus # NoId
                           /\ ExitKey \notin v.down
                           /\ v.down \subseteq
                                held \cup (IF game.call = "release" THEN {game.arg} ELSE {})
         /\ "memfdWorks" \in promises => ~v.confused /\ v.keymap /\ v.focus = gKeyboard.id
<1>1. c \in Conns /\ k \in objects[c]
  BY DEF TidyInv, KeyboardSlot, SeatAlive, SeatTypeOK
<1>2. k \in Ids /\ heard[c] \in [Ids -> View]
  BY <1>1 DEF SeatTypeOK
<1>3. k # NoId
  BY <1>2
<1>4. KindOf[k] = "keyboard" /\ v \in View
  BY <1>2, <1>3 DEF SlotKinds
<1>5. v.focus \in {NoId, gKeyboard.id} /\ (v.focus # NoId => v.keymap)
  BY DEF TidyInv, KeyboardHeard
<1>6. v.down # {} => /\ v.focus # NoId
                     /\ ExitKey \notin v.down
                     /\ v.down \subseteq
                          held \cup (IF game.call = "release" THEN {game.arg} ELSE {})
  BY <1>1, <1>2 DEF TidyInv, KeysHeld
<1>7. "memfdWorks" \in promises => ~v.confused /\ v.keymap /\ v.focus = gKeyboard.id
  BY <1>1, <1>2, <1>4 DEF TidyInv, KeyboardHeard, Confused
<1> QED BY <1>1, <1>2, <1>4, <1>5, <1>6, <1>7

\* A call after which the keyboard's client has heard what it should have.
LEMMA KeyboardStep ==
  ASSUME SeatTypeOK, SlotKinds, TidyInv,
         UNCHANGED <<promises, alive, objects, seat, held>>, game' = NoCall,
         SeatAlive, seat.hasKeyboard,
         NEW c, c = seat.conn, NEW k, k = seat.keyboard.id, NEW v, v = heard'[c][k],
         \A d \in Conns, j \in Ids : d # c \/ j # k => heard'[d][j] = heard[d][j],
         v.focus \in {NoId, gKeyboard'.id}, v.focus # NoId => v.keymap,
         v.down # {} => v.focus # NoId /\ ExitKey \notin v.down /\ v.down \subseteq held,
         "memfdWorks" \in promises => ~v.confused /\ v.keymap /\ v.focus = gKeyboard'.id
  PROVE  TidyInv'
<1>1. KeyboardSlot'
  BY DEF TidyInv, KeyboardSlot, SeatAlive
<1>2. CallHolds'
  BY DEF CallHolds, NoCall
<1>3. "memfdWorks" \in promises => Confused("keyboard")' = {}
  BY DEF TidyInv, KeyboardHeard, Confused
<1>4. KeyboardHeard'
  BY <1>3 DEF KeyboardHeard
<1>5. ASSUME NEW d \in Conns, NEW j \in Ids, heard'[d][j].down # {}
      PROVE  d = c /\ j = k
  BY <1>5 DEF TidyInv, KeysHeld
<1>6. game'.call \notin {"press", "release"} /\ c \in alive
  BY DEF NoCall, SeatAlive
<1>7. KeysHeld'
  BY <1>5, <1>6 DEF KeysHeld
<1> QED BY <1>1, <1>2, <1>4, <1>7 DEF TidyInv

\* A new object of another kind says nothing of the keyboard.
LEMMA KeyboardBeside ==
  ASSUME SeatTypeOK, SlotKinds, TidyInv,
         NEW c \in Conns, NEW i \in Ids, NEW kind, AddObject(c, i, kind), kind # "keyboard",
         UNCHANGED <<promises, gKeyboard, held, game>>, heard' = NewProxy(c, i),
         seat'.conn = seat.conn, seat'.keyboard = seat.keyboard,
         seat'.hasKeyboard = seat.hasKeyboard
  PROVE  TidyInv'
<1>1. /\ alive' = alive /\ KindOf[i] = kind
      /\ \A d \in Conns : objects[d] \subseteq objects'[d]
  BY Added
<1>2. /\ heard'[c][i] = NewView
      /\ \A d \in Conns, j \in Ids : d # c \/ j # i => heard'[d][j] = heard[d][j]
  BY NewProxyViews
<1>3. SeatAlive' = SeatAlive
  BY <1>1 DEF SeatAlive
<1>4. seat.keyboard.id # i
  BY <1>1 DEF SlotKinds
<1>5. SeatAlive /\ seat.hasKeyboard =>
        /\ seat.keyboard.id \in objects'[seat.conn]
        /\ heard'[seat.conn][seat.keyboard.id] = heard[seat.conn][seat.keyboard.id]
  BY <1>1, <1>2, <1>4, KeyboardFacts
<1>6. \A d \in Conns, j \in Ids :
        KindOf[j] = "keyboard" /\ heard'[d][j].confused => heard[d][j].confused
  BY <1>2 DEF NewView
<1>7. \A d \in Conns, j \in Ids : heard'[d][j].down # {} => heard'[d][j] = heard[d][j]
  BY <1>2 DEF NewView
<1>8. CallHolds'
  BY DEF TidyInv, CallHolds
<1> QED BY <1>1, <1>3, <1>5, <1>6, <1>7, <1>8, KeyboardKept

LEMMA OtherObjectKeyboard ==
  ASSUME SeatTypeOK, SlotKinds, TidyInv, held' = held, NEW c \in Conns, NEW i \in Ids,
         GetRegistry(c, i) \/ BindOutput(c, i) \/ CreateSurface(c, i)
  PROVE  TidyInv'
<1>1. PICK kind \in {"registry", "output", "surface"} : AddObject(c, i, kind)
  BY OtherObject
<1>2. UNCHANGED <<promises, slots, game>> /\ heard' = NewProxy(c, i)
  BY OtherObject
<1> QED BY <1>1, <1>2, KeyboardBeside DEF slots

LEMMA GetPointerKeyboard ==
  ASSUME SeatTypeOK, SlotKinds, TidyInv, held' = held, NEW c \in Conns, NEW i \in Ids,
         GetPointer(c, i)
  PROVE  TidyInv'
<1>1. /\ AddObject(c, i, "pointer") /\ UNCHANGED <<promises, gKeyboard, game>>
      /\ heard' = NewProxy(c, i)
      /\ seat' = [seat EXCEPT !.hasPointer = TRUE, !.pointer = RefTo(c, i)]
  BY DEF GetPointer
<1>2. /\ seat'.conn = seat.conn /\ seat'.keyboard = seat.keyboard
      /\ seat'.hasKeyboard = seat.hasKeyboard
  BY <1>1 DEF SeatTypeOK, Seats
<1> QED BY <1>1, <1>2, KeyboardBeside

\* Before a seat is bound there is no keyboard.
LEMMA BindSeatKeyboard ==
  ASSUME SeatTypeOK, SlotKinds, OneHolder, TidyInv, Tidy \subseteq promises, held' = held,
         NEW c \in Conns, NEW i \in Ids, BindSeat(c, i)
  PROVE  TidyInv'
<1>1. /\ AddObject(c, i, "seat") /\ seat.conn \in {NoConn, c}
      /\ seat' = [seat EXCEPT !.conn = c] /\ UNCHANGED <<promises, gKeyboard, game>>
      /\ heard' = NewProxy(c, i)
  BY DEF BindSeat, BindGlobal, Promised, Followed, Tidy
<1>2. /\ seat'.conn = c /\ seat'.keyboard = seat.keyboard
      /\ seat'.hasKeyboard = seat.hasKeyboard
  BY <1>1 DEF SeatTypeOK, Seats
<1>3. CASE seat.conn = c
  BY <1>1, <1>2, <1>3, KeyboardBeside
<1>4. CASE seat.conn # c
  <2>1. ~seat.hasKeyboard
    BY <1>1, <1>4 DEF OneHolder
  <2>2. /\ heard'[c][i] = NewView
        /\ \A d \in Conns, j \in Ids : d # c \/ j # i => heard'[d][j] = heard[d][j]
    BY <1>1, NewProxyViews
  <2>3. KeyboardSlot' /\ CallHolds'
    BY <1>1, <1>2, <2>1 DEF TidyInv, KeyboardSlot, CallHolds
  <2>4. KeyboardHeard'
    BY <1>1, <1>2, <2>1, <2>2 DEF TidyInv, KeyboardHeard, Confused, NewView
  <2>5. KeysHeld'
    BY <1>1, <2>1, <2>2 DEF TidyInv, KeysHeld, NewView
  <2> QED BY <2>3, <2>4, <2>5 DEF TidyInv
<1> QED BY <1>3, <1>4

\* The first keyboard, and the only one, has no focus yet.
LEMMA GetKeyboardKeyboard ==
  ASSUME SeatTypeOK, SlotKinds, OneHolder, TidyInv, Tidy \subseteq promises, held' = held,
         NEW c \in Conns, NEW i \in Ids, GetKeyboard(c, i)
  PROVE  TidyInv'
<1>1. /\ AddObject(c, i, "keyboard") /\ UNCHANGED <<promises, gKeyboard, game>>
      /\ Objects(c, "seat") # {} /\ Objects(c, "keyboard") = {}
      /\ seat' = [seat EXCEPT !.hasKeyboard = TRUE, !.keyboard = RefTo(c, i)]
  BY DEF GetKeyboard, Promised, Tidy
<1>2. c = seat.conn /\ c \in alive /\ alive' = alive /\ i \in objects'[c] /\ KindOf[i] = "keyboard"
  BY <1>1, Added DEF OneHolder
<1>3. seat'.conn = c /\ seat'.keyboard.id = i /\ seat'.hasKeyboard
  BY <1>1, <1>2 DEF SeatTypeOK, Seats, RefTo
<1>4. ~seat.hasKeyboard
  <2> SUFFICES ASSUME seat.hasKeyboard PROVE FALSE
    OBVIOUS
  <2>1. seat.keyboard.id \in objects[c] /\ KindOf[seat.keyboard.id] = "keyboard"
    BY <1>2, KeyboardFacts DEF SeatAlive
  <2> QED BY <1>1, <2>1 DEF Objects
<1>5. gKeyboard' = NoRef
  BY <1>1, <1>4 DEF TidyInv, KeyboardSlot
<1>6. /\ heard'[c][i].focus = NoId /\ ~heard'[c][i].confused /\ heard'[c][i].down = {}
      /\ "memfdWorks" \in promises => heard'[c][i].keymap
      /\ \A d \in Conns, j \in Ids : d # c \/ j # i => heard'[d][j] = heard[d][j]
  <2>1. heard \in [Conns -> [Ids -> View]]
    BY DEF SeatTypeOK
  <2>2. PushesKeymap(c)
    BY <1>3 DEF PushesKeymap
  <2>3. CASE heard' = [heard EXCEPT ![c][i] = [NewView EXCEPT !.keymap = PushesKeymap(c)]]
    <3>1. heard'[c][i] = [NewView EXCEPT !.keymap = PushesKeymap(c)]
      BY <2>1, <2>3
    <3> QED BY <2>1, <2>2, <2>3, <3>1 DEF NewView
  <2>4. CASE heard' = NewProxy(c, i) /\ "none" \in MakeMemFd
    <3>1. "memfdWorks" \notin promises
      BY <2>4 DEF MakeMemFd, Promised
    <3> QED BY <2>4, <3>1, NewProxyViews DEF NewView
  <2> QED BY <2>3, <2>4 DEF GetKeyboard
<1>7. KeyboardSlot' /\ CallHolds'
  BY <1>1, <1>2, <1>3 DEF TidyInv, KeyboardSlot, CallHolds
<1>8. KeyboardHeard'
  BY <1>1, <1>3, <1>5, <1>6 DEF TidyInv, KeyboardHeard, Confused, NoRef
<1>9. KeysHeld'
  <2>1. \A d \in Conns, j \in Ids : heard'[d][j].down = {}
    BY <1>4, <1>6 DEF TidyInv, KeysHeld
  <2> QED BY <1>1, <2>1 DEF TidyInv, KeysHeld
<1> QED BY <1>7, <1>8, <1>9 DEF TidyInv

\* The keyboard is not released.
LEMMA ReleaseKeyboard ==
  ASSUME SeatTypeOK, SlotKinds, TidyInv, Tidy \subseteq promises, held' = held,
         NEW c \in Conns, NEW i \in Ids, Release(c, i)
  PROVE  TidyInv'
<1>1. /\ objects' = [objects EXCEPT ![c] = @ \ {i}] /\ KindOf[i] # "keyboard"
      /\ seat' = ReleasedSlots(c, i) /\ UNCHANGED <<promises, alive, gKeyboard, game, heard>>
  BY DEF Release, Promised, Tidy
<1>2. seat.hasKeyboard \in BOOLEAN
  BY DEF SeatTypeOK, Seats
<1>3. /\ seat'.conn = seat.conn /\ seat'.keyboard = seat.keyboard
      /\ seat'.hasKeyboard = seat.hasKeyboard
  BY <1>1, <1>2 DEF ReleasedSlots, SeatTypeOK, Seats
<1>4. SeatAlive' = SeatAlive
  BY <1>1, <1>3 DEF SeatAlive
<1>5. seat.keyboard.id # i
  BY <1>1 DEF SlotKinds
<1>6. \A d \in Conns : \A j \in objects[d] : j # i => j \in objects'[d]
  BY <1>1 DEF SeatTypeOK
<1>7. SeatAlive /\ seat.hasKeyboard => seat.keyboard.id \in objects'[seat.conn]
  BY <1>5, <1>6, KeyboardFacts
<1>8. CallHolds'
  BY <1>1, <1>3 DEF TidyInv, CallHolds
<1> QED BY <1>1, <1>3, <1>4, <1>7, <1>8, KeyboardKept

LEMMA ConnectionKeyboard ==
  ASSUME SeatTypeOK, SlotKinds, TidyInv, held' = held, NEW c \in Conns,
         FlushFds(c) \/ Kill(c) \/ Reap(c)
  PROVE  TidyInv'
<1>1. /\ UNCHANGED <<promises, slots, game>> /\ alive' \subseteq alive
      /\ c \in alive' => UNCHANGED <<alive, objects, heard>>
      /\ \A d \in Conns : d # c => objects'[d] = objects[d] /\ heard'[d] = heard[d]
      /\ alive \ alive' \subseteq {c}
      /\ heard'[c] = [j \in Ids |-> NewView] \/ UNCHANGED <<alive, heard>>
  BY DEF FlushFds, Kill, Reap, SeatTypeOK
<1>2. SeatAlive' => SeatAlive /\ seat.conn \in Conns
  BY <1>1 DEF SeatAlive, SeatTypeOK, slots
<1>3. SeatAlive' => objects'[seat.conn] = objects[seat.conn] /\ heard'[seat.conn] = heard[seat.conn]
  BY <1>1, <1>2 DEF SeatAlive, slots
<1>4. SeatAlive' /\ seat.hasKeyboard => seat.keyboard.id \in objects'[seat.conn]
  BY <1>2, <1>3, KeyboardFacts
<1>5. CallHolds'
  BY <1>1 DEF TidyInv, CallHolds, slots
<1>6. \A d \in Conns, j \in Ids :
        /\ heard'[d][j].confused => heard[d][j].confused
        /\ heard'[d][j].down # {} => heard'[d][j] = heard[d][j]
  BY <1>1 DEF NewView
<1>7. \A d \in alive \ alive' : \A j \in Ids : heard'[d][j].down = {}
  BY <1>1 DEF NewView
<1> QED BY <1>1, <1>3, <1>4, <1>5, <1>6, <1>7, KeyboardKept DEF slots

\* A step that begins a call, or nothing.
LEMMA KeyboardQuiet ==
  ASSUME SeatTypeOK, SlotKinds, TidyInv,
         UNCHANGED <<promises, alive, objects, slots, heard, held>>, CallHolds',
         game'.call = "press" => game' = game,
         game.call = "release" => game' = game
  PROVE  TidyInv'
<1>1. SeatAlive' = SeatAlive
  BY DEF SeatAlive, slots
<1>2. SeatAlive /\ seat.hasKeyboard => seat.keyboard.id \in objects[seat.conn]
  BY DEF TidyInv, KeyboardSlot
<1> QED BY <1>1, <1>2, KeyboardKept DEF slots

LEMMA BeginKeyboard ==
  ASSUME SeatTypeOK, SlotKinds, TidyInv, Tidy \subseteq promises, held' = held,
         BeginCall \/ BeginPointerButton
  PROVE  TidyInv'
<1>1. ASSUME NEW call \in Calls \ {"none", "press", "release"}, NEW c, NEW arg,
             Begin(call, c, arg),
             call \in {"modifiers", "focus", "unfocus"} => seat.hasKeyboard,
             call = "modifiers" => gKeyboard # NoRef,
             call = "focus" => gKeyboard = NoRef
      PROVE  TidyInv'
  <2>1. /\ UNCHANGED <<promises, alive, objects, slots, heard>>
        /\ game = NoCall /\ game' = [call |-> call, conn |-> c, arg |-> arg]
    BY <1>1 DEF Begin
  <2>2. CallHolds'
    BY <1>1, <2>1 DEF CallHolds, slots
  <2>3. game.call # "release" /\ game'.call # "press"
    BY <1>1, <2>1 DEF NoCall
  <2> QED BY <2>1, <2>2, <2>3, KeyboardQuiet
<1>2. Promised("unfocusesFirst")
  BY DEF Promised, Tidy
<1>3. CASE BeginPointerLeave \/ BeginPointerScroll \/ BeginPointerButton
  BY <1>1, <1>3 DEF BeginPointerLeave, BeginPointerScroll, BeginPointerButton, Calls
<1>4. CASE BeginKeyboardUnfocus \/ BeginKeyboardModifiers
  BY <1>1, <1>4 DEF BeginKeyboardUnfocus, BeginKeyboardModifiers, KeyboardHasFocus, Calls
<1>5. ASSUME NEW c \in Conns, NEW surface \in Surfaces(c),
             BeginPointerMotion(c, surface) \/ BeginKeyboardFocus(c, surface)
      PROVE  TidyInv'
  BY <1>1, <1>2, <1>5 DEF BeginPointerMotion, BeginKeyboardFocus, Calls
<1>6. ASSUME NEW c \in Conns, BeginUseKeymapText(c)
      PROVE  TidyInv'
  BY <1>1, <1>6 DEF BeginUseKeymapText, Calls
<1> QED BY <1>3, <1>4, <1>5, <1>6 DEF BeginCall

\* What is heard, and by whom, does not depend on the call or on the keys held.
LEMMA KeysKeyboard ==
  ASSUME SeatTypeOK, TidyInv, UNCHANGED <<promises, alive, objects, slots, heard>>,
         CallHolds', KeysHeld'
  PROVE  TidyInv'
BY DEF TidyInv, KeyboardSlot, KeyboardHeard, Confused, slots, SeatAlive

LEMMA KeyDownKeyboard ==
  ASSUME SeatTypeOK, TidyInv, NEW key \in KeyEvents, KeyDown(key)
  PROVE  TidyInv'
<1>1. /\ UNCHANGED <<promises, alive, objects, slots, heard>>
      /\ game = NoCall /\ held' = held \cup {key}
      /\ \/ game' = game
         \/ /\ KeyboardHasFocus /\ key # ExitKey
            /\ game' = [call |-> "press", conn |-> seat.conn, arg |-> key]
  BY DEF KeyDown, PressExit, PressCapture, PressUncaptured, PressCaptured, Forward
<1>2. CallHolds'
  BY <1>1 DEF CallHolds, NoCall, KeyboardHasFocus, slots
<1>3. game.call \notin {"press", "release"} /\ game'.call # "release"
  BY <1>1 DEF NoCall
<1>4. game'.call = "press" => game'.arg \in held' \ {ExitKey}
  BY <1>1 DEF NoCall
<1>5. KeysHeld'
  BY <1>1, <1>3, <1>4 DEF TidyInv, KeysHeld, slots
<1> QED BY <1>1, <1>2, <1>5, KeysKeyboard

\* A key that is down has a keyboard with a focus to be released on.
LEMMA KeyUpKeyboard ==
  ASSUME SeatTypeOK, TidyInv, NEW key \in KeyEvents, KeyUp(key)
  PROVE  TidyInv'
<1>1. /\ UNCHANGED <<promises, alive, objects, slots, heard>>
      /\ game = NoCall /\ held' = held \ {key}
      /\ \/ game' = game /\ (key = ExitKey \/ key \notin Keys \/ ~KeyboardHasFocus)
         \/ /\ KeyboardHasFocus
            /\ game' = [call |-> "release", conn |-> seat.conn, arg |-> key]
  BY DEF KeyUp, ReleaseKey, Forward, Mapped
<1>2. CallHolds'
  BY <1>1 DEF CallHolds, NoCall, KeyboardHasFocus, slots
<1>3. ASSUME NEW c \in Conns, NEW i \in Ids, heard[c][i].down # {}
      PROVE  /\ c = seat.conn /\ c \in alive /\ i = seat.keyboard.id
             /\ seat.hasKeyboard /\ heard[c][i].focus # NoId
             /\ ExitKey \notin heard[c][i].down
             /\ heard[c][i].down \subseteq
                  held' \cup (IF game'.call = "release" THEN {game'.arg} ELSE {})
  <2>1. /\ c = seat.conn /\ c \in alive /\ i = seat.keyboard.id
        /\ seat.hasKeyboard /\ heard[c][i].focus # NoId
        /\ ExitKey \notin heard[c][i].down /\ heard[c][i].down \subseteq held
    BY <1>1, <1>3 DEF TidyInv, KeysHeld, NoCall
  <2>2. heard[c][i].down \subseteq Keys
    BY DEF SeatTypeOK, View
  <2>3. KeyboardHasFocus
    BY <2>1 DEF TidyInv, KeyboardHeard, KeyboardHasFocus, SeatAlive, NoRef
  <2> QED BY <1>1, <2>1, <2>2, <2>3
<1>4. game'.call # "press"
  BY <1>1 DEF NoCall
<1>5. KeysHeld'
  BY <1>1, <1>3, <1>4 DEF KeysHeld, slots
<1> QED BY <1>1, <1>2, <1>5, KeysKeyboard

----------------------------------------------------------------------------
(* The keyboard: calls under the lock.                                     *)

\* What is said of a pointer is not said of another object, and presses no key.
Beside(view, w) ==
  /\ w \in [Ids -> View]
  /\ \A j \in Ids : /\ j # seat.pointer.id => w[j] = view[j]
                    /\ w[j].down \subseteq view[j].down

LEMMA HearBeside ==
  ASSUME NEW c, NEW view \in [Ids -> View], NEW e, Typed(e), e.id = seat.pointer.id,
         e.type # "press"
  PROVE  Beside(view, Hear(c, view, e))
<1>1. Hear(c, view, e) \in [Ids -> View]
  BY HearType
<1>2. \A j \in Ids : j # seat.pointer.id => Hear(c, view, e)[j] = view[j]
  BY DEF Hear
<1>3. \A v \in View : /\ After(v, e).down \subseteq v.down
                       /\ [v EXCEPT !.confused = TRUE].down = v.down
  BY DEF After, View
<1>4. \A j \in Ids : Hear(c, view, e)[j].down \subseteq view[j].down
  BY <1>3 DEF Hear
<1> QED BY <1>1, <1>2, <1>4 DEF Beside

LEMMA PointerCallHeard ==
  ASSUME SeatTypeOK, CallArgs,
         PointerMotion \/ PointerLeave \/ PointerButton \/ PointerScroll
  PROVE  \E w : Beside(heard[game.conn], w) /\ Hears(game.conn, w)
<1> DEFINE c == game.conn
<1>1. c \in Conns /\ heard[c] \in [Ids -> View]
  BY DEF PointerMotion, PointerLeave, PointerButton, PointerScroll, Finish, CallArgs,
     NoCall, SeatTypeOK
<1>2. \A view \in [Ids -> View] : Beside(view, view)
  BY DEF Beside
<1>3. \A view \in [Ids -> View] : Beside(view, Left(c, view))
  BY <1>2, HearBeside DEF Left, Event, Typed
<1>4. \A view \in [Ids -> View] : Beside(view, Moved(c, view))
  BY HearBeside DEF Moved, Event, Typed
<1>5. CASE PointerMotion
  <2>1. game.arg \in Ids
    BY <1>5 DEF PointerMotion, Finish, CallArgs
  <2>2. \A view \in [Ids -> View] : Beside(view, Entered(c, view, game.arg))
    BY <2>1, HearBeside DEF Entered, Event, Typed
  <2>3. PICK on : /\ \/ on = heard[c]
                     \/ on = Entered(c, Left(c, heard[c]), game.arg)
                  /\ Hears(c, Moved(c, on))
    BY <1>5 DEF PointerMotion
  <2> HIDE DEF c
  <2>4. PICK u : u = Left(c, heard[c])
    OBVIOUS
  <2>5. Beside(heard[c], u)
    BY <1>1, <1>3, <2>4
  <2>6. Beside(heard[c], on)
    <3>1. CASE on = heard[c]
      BY <1>1, <1>2, <3>1
    <3>2. CASE on = Entered(c, u, game.arg)
      <4>1. Beside(u, on)
        BY <2>2, <2>5, <3>2 DEF Beside
      <4> QED BY <2>5, <4>1 DEF Beside
    <3> QED BY <2>3, <2>4, <3>1, <3>2
  <2>7. PICK w : w = Moved(c, on)
    OBVIOUS
  <2>8. Beside(on, w)
    BY <1>4, <2>6, <2>7 DEF Beside
  <2>9. Beside(heard[c], w)
    BY <2>6, <2>8 DEF Beside
  <2> QED BY <2>3, <2>7, <2>9 DEF c
<1>6. CASE PointerLeave
  BY <1>1, <1>3, <1>6 DEF PointerLeave
<1>7. CASE PointerButton \/ PointerScroll
  BY <1>1, <1>7, HearBeside DEF PointerButton, PointerScroll, Send, Event, Typed
<1> QED BY <1>5, <1>6, <1>7

LEMMA PointerCallKeyboard ==
  ASSUME SeatTypeOK, CallArgs, SlotKinds, TidyInv, Tidy \subseteq promises, held' = held,
         PointerMotion \/ PointerLeave \/ PointerButton \/ PointerScroll
  PROVE  TidyInv'
<1> DEFINE p == seat.pointer.id
<1>1. /\ UNCHANGED <<promises, alive, objects, seat, gKeyboard>> /\ game' = NoCall
      /\ game.call # "release" /\ game.conn \in Conns
  BY DEF PointerMotion, PointerLeave, PointerButton, PointerScroll, Finish, CallArgs, NoCall
<1>2. PICK w : Beside(heard[game.conn], w) /\ Hears(game.conn, w)
  BY PointerCallHeard
<1>3. Followed \subseteq promises
  BY DEF Tidy
<1>4. PICK c \in Conns : c = game.conn /\ Hears(c, w) /\ Beside(heard[c], w)
  BY <1>1, <1>2
<1>5. /\ heard'[c] = w \/ heard'[c] = heard[c]
      /\ \A d \in Conns : d # c => heard'[d] = heard[d]
  BY <1>3, <1>4, HearsAt
<1>6. \A d \in Conns, j \in Ids : /\ j # p => heard'[d][j] = heard[d][j]
                                  /\ heard'[d][j].down \subseteq heard[d][j].down
  BY <1>4, <1>5 DEF Beside
<1>7. \A d \in Conns, j \in Ids : heard'[d][j].down # {} => heard'[d][j] = heard[d][j]
  <2> SUFFICES ASSUME NEW d \in Conns, NEW j \in Ids, heard'[d][j].down # {}
               PROVE  j # p
    BY <1>6
  <2>1. heard[d][j].down # {}
    BY <1>6
  <2>2. j = seat.keyboard.id
    BY <2>1 DEF TidyInv, KeysHeld
  <2>3. j # NoId
    OBVIOUS
  <2> QED BY <2>2, <2>3 DEF SlotKinds
<1>8. SeatAlive' = SeatAlive
  BY <1>1 DEF SeatAlive
<1>9. \A d \in Conns, j \in Ids : KindOf[j] = "keyboard" => heard'[d][j] = heard[d][j]
  <2>1. \A j \in Ids : KindOf[j] = "keyboard" => j # p
    BY DEF SlotKinds
  <2> QED BY <1>6, <2>1
<1>10. SeatAlive /\ seat.hasKeyboard =>
         /\ seat.keyboard.id \in objects[seat.conn]
         /\ heard'[seat.conn][seat.keyboard.id] = heard[seat.conn][seat.keyboard.id]
  BY <1>9, KeyboardFacts
<1>11. CallHolds' /\ game'.call # "press"
  BY <1>1 DEF CallHolds, NoCall
<1> QED BY <1>1, <1>7, <1>8, <1>9, <1>10, <1>11, KeyboardKept

\* On a connection that ended nothing is heard.
LEMMA KeyboardGone ==
  ASSUME SeatTypeOK, TidyInv, UNCHANGED <<promises, alive, objects, seat, heard, held>>,
         game' = NoCall, ~SeatAlive, gKeyboard' # NoRef => seat.hasKeyboard
  PROVE  TidyInv'
<1>1. ~SeatAlive'
  BY DEF SeatAlive
<1>2. \A d \in Conns, j \in Ids : heard[d][j].down = {}
  BY DEF TidyInv, KeysHeld, SeatAlive
<1>3. KeyboardSlot' /\ CallHolds'
  BY <1>1 DEF KeyboardSlot, CallHolds, NoCall
<1>4. KeyboardHeard'
  BY <1>1 DEF TidyInv, KeyboardHeard, Confused
<1>5. KeysHeld'
  BY <1>2 DEF KeysHeld, NoCall
<1> QED BY <1>3, <1>4, <1>5 DEF TidyInv

LEMMA SendGone ==
  ASSUME SeatTypeOK, Followed \subseteq promises, NEW c \in Conns, c \notin alive,
         NEW view, Hears(c, view)
  PROVE  heard' = heard
BY DEF Hears

LEMMA UseKeymapTextKeyboard ==
  ASSUME SeatTypeOK, CallArgs, SlotKinds, TidyInv, Tidy \subseteq promises, held' = held,
         UseKeymapText
  PROVE  TidyInv'
<1> DEFINE c == game.conn
           k == seat.keyboard.id
           e == Event("keymap", k, NoId)
<1>1. /\ UNCHANGED <<promises, alive, objects, seat, gPointer, gKeyboard, held>>
      /\ game.call = "keymap" /\ game' = NoCall /\ c \in Conns
      /\ Followed \subseteq promises
  BY DEF UseKeymapText, Finish, CallArgs, NoCall, Tidy
<1>2. CallHolds' /\ game'.call # "press" /\ game.call # "release"
  BY <1>1 DEF CallHolds, NoCall
<1>3. ASSUME heard' = heard PROVE TidyInv'
  BY <1>1, <1>2, <1>3, KeyboardQuiet DEF slots
<1>4. CASE UNCHANGED heard
  BY <1>3, <1>4
<1>5. CASE PushesKeymap(c) /\ Send(c, e) /\ c \notin alive
  BY <1>1, <1>3, <1>5, SendGone DEF Send
<1>6. CASE PushesKeymap(c) /\ Send(c, e) /\ c \in alive
  <2>1. c = seat.conn /\ seat.hasKeyboard /\ SeatAlive
    BY <1>1, <1>6 DEF PushesKeymap, SeatAlive
  <2>2. PICK v : v = heard[c][k]
    OBVIOUS
  <2>3. /\ k \in Ids /\ k \in objects[c] /\ KindOf[k] = "keyboard" /\ v \in View
        /\ v.focus \in {NoId, gKeyboard.id}
        /\ v.down # {} => v.focus # NoId /\ ExitKey \notin v.down /\ v.down \subseteq held
        /\ "memfdWorks" \in promises => ~v.confused /\ v.focus = gKeyboard.id
    BY <1>2, <2>1, <2>2, KeyboardFacts
  <2>4. /\ Judged(objects[c], e) /\ Allowed(v, e) /\ e.id = k
        /\ After(v, e) = [v EXCEPT !.keymap = TRUE]
    BY <2>3 DEF Judged, Allowed, After, Event
  <2> HIDE DEF e
  <2>5. PICK w : w = heard'[c][k]
    OBVIOUS
  <2>6. w = [v EXCEPT !.keymap = TRUE]
    BY <1>1, <1>6, <2>2, <2>4, <2>5, SendJudged
  <2>7. \A d \in Conns, j \in Ids : d # c \/ j # k => heard'[d][j] = heard[d][j]
    BY <1>1, <1>6, <2>4, SendElse
  <2>8. w.focus = v.focus /\ w.down = v.down /\ w.keymap /\ w.confused = v.confused
    BY <2>3, <2>6 DEF View
  <2>9. w.focus \in {NoId, gKeyboard'.id}
    BY <1>1, <2>3, <2>8
  <2>10. w.down # {} => w.focus # NoId /\ ExitKey \notin w.down /\ w.down \subseteq held
    BY <2>3, <2>8
  <2>11. "memfdWorks" \in promises => ~w.confused /\ w.keymap /\ w.focus = gKeyboard'.id
    BY <1>1, <2>3, <2>8
  <2> HIDE DEF c, k
  <2> QED BY <1>1, <2>1, <2>5, <2>7, <2>8, <2>9, <2>10, <2>11, KeyboardStep DEF c, k
<1> QED BY <1>4, <1>5, <1>6 DEF UseKeymapText

\* A key or the modifiers go to the keyboard with the focus.
LEMMA KeyboardEventKeyboard ==
  ASSUME SeatTypeOK, CallArgs, SlotKinds, OneHolder, TidyInv, Tidy \subseteq promises,
         held' = held, NEW call \in {"press", "release", "modifiers"}, KeyboardEvent(call)
  PROVE  TidyInv'
<1> DEFINE c == seat.conn
           k == seat.keyboard.id
           e == Event(call, k, game.arg)
<1>1. /\ UNCHANGED <<promises, alive, objects, seat, gPointer, gKeyboard, held>>
      /\ game.call = call /\ game' = NoCall /\ game.conn = c /\ c \in Conns
      /\ Send(c, e) /\ Followed \subseteq promises
  BY DEF KeyboardEvent, Finish, OneHolder, CallArgs, NoCall, Tidy
<1>2. /\ seat.hasKeyboard /\ gKeyboard # NoRef
      /\ call = "press" => game.arg \in held \ {ExitKey}
  BY <1>1 DEF TidyInv, CallHolds, KeysHeld
<1>3. CASE ~SeatAlive
  <2>1. heard' = heard
    BY <1>1, <1>3, SendGone DEF Send, SeatAlive
  <2> QED BY <1>1, <1>2, <1>3, <2>1, KeyboardGone
<1>4. CASE SeatAlive
  <2>1. PICK v : v = heard[c][k]
    OBVIOUS
  <2>2. /\ k \in Ids /\ k \in objects[c] /\ KindOf[k] = "keyboard" /\ v \in View
        /\ v.focus \in {NoId, gKeyboard.id} /\ (v.focus # NoId => v.keymap)
        /\ v.down # {} => /\ v.focus # NoId
                          /\ ExitKey \notin v.down
                          /\ v.down \subseteq
                               held \cup (IF game.call = "release" THEN {game.arg} ELSE {})
        /\ "memfdWorks" \in promises => ~v.confused /\ v.keymap /\ v.focus = gKeyboard.id
    BY <1>2, <1>4, <2>1, KeyboardFacts
  <2>3. gKeyboard.id # NoId
    BY <1>2, RefType DEF SeatTypeOK
  <2>4. /\ Judged(objects[c], e) /\ e.id = k /\ (Allowed(v, e) <=> v.focus # NoId)
        /\ After(v, e) = IF call = "press" THEN [v EXCEPT !.down = @ \cup {game.arg}]
                         ELSE IF call = "release" THEN [v EXCEPT !.down = @ \ {game.arg}]
                         ELSE v
    BY <2>2 DEF Judged, Allowed, After, Event
  <2> HIDE DEF e
  <2>5. PICK w : w = heard'[c][k]
    OBVIOUS
  <2>6. w = IF v.focus # NoId THEN After(v, e) ELSE [v EXCEPT !.confused = TRUE]
    <3>1. heard'[c][e.id] = IF Allowed(heard[c][e.id], e) THEN After(heard[c][e.id], e)
                            ELSE [heard[c][e.id] EXCEPT !.confused = TRUE]
      <4>1. c \in alive
        BY <1>4 DEF SeatAlive
      <4> QED BY <1>1, <2>4, <4>1, SendJudged
    <3>2. w = IF Allowed(v, e) THEN After(v, e) ELSE [v EXCEPT !.confused = TRUE]
      BY <2>1, <2>4, <2>5, <3>1
    <3> QED BY <2>4, <3>2
  <2>7. \A d \in Conns, j \in Ids : d # c \/ j # k => heard'[d][j] = heard[d][j]
    BY <1>1, <2>4, SendElse
  <2>8. CASE v.focus = NoId
    <3>1. w.focus = NoId /\ w.down = {} /\ "memfdWorks" \notin promises
      BY <2>2, <2>3, <2>6, <2>8 DEF View
    <3> HIDE DEF c, k
    <3> QED BY <1>1, <1>2, <1>4, <2>5, <2>7, <3>1, KeyboardStep DEF c, k
  <2>9. CASE v.focus # NoId
    <3>1. w = After(v, e)
      BY <2>6, <2>9
    <3>2. w.focus = v.focus /\ w.keymap = v.keymap /\ w.confused = v.confused
      BY <2>2, <2>4, <3>1 DEF View
    <3>3. /\ w.down \subseteq v.down \cup (IF call = "press" THEN {game.arg} ELSE {})
          /\ call = "release" => game.arg \notin w.down
      BY <2>2, <2>4, <3>1 DEF View
    <3>4. ExitKey \notin w.down /\ w.down \subseteq held
      BY <1>1, <1>2, <2>2, <3>3
    <3>5. w.focus \in {NoId, gKeyboard'.id} /\ (w.focus # NoId => w.keymap)
      BY <1>1, <2>2, <3>2
    <3>6. "memfdWorks" \in promises => ~w.confused /\ w.keymap /\ w.focus = gKeyboard'.id
      BY <1>1, <2>2, <3>2
    <3>7. w.focus # NoId
      BY <2>9, <3>2
    <3> HIDE DEF c, k
    <3> QED BY <1>1, <1>2, <1>4, <2>5, <2>7, <3>4, <3>5, <3>6, <3>7, KeyboardStep DEF c, k
  <2> QED BY <2>8, <2>9
<1> QED BY <1>3, <1>4

\* The focus comes to a keyboard without one ...
LEMMA KeyboardFocusKeyboard ==
  ASSUME SeatTypeOK, CallArgs, SlotKinds, OneHolder, TidyInv, Tidy \subseteq promises,
         held' = held, KeyboardFocus
  PROVE  TidyInv'
<1> DEFINE c == seat.conn
           k == seat.keyboard.id
           e == Event("focused", k, game.arg)
<1>1. /\ UNCHANGED <<promises, alive, objects, seat, gPointer, held>>
      /\ game.call = "focus" /\ game' = NoCall /\ game.conn = c /\ c \in Conns
      /\ game.arg \in Ids /\ gKeyboard' = RefTo(c, game.arg)
      /\ Send(c, e) /\ Followed \subseteq promises
  BY DEF KeyboardFocus, Finish, OneHolder, CallArgs, NoCall, Tidy
<1>2. seat.hasKeyboard /\ gKeyboard = NoRef
  BY <1>1 DEF TidyInv, CallHolds
<1>3. CASE ~SeatAlive
  <2>1. heard' = heard
    BY <1>1, <1>3, SendGone DEF Send, SeatAlive
  <2> QED BY <1>1, <1>2, <1>3, <2>1, KeyboardGone
<1>4. CASE SeatAlive
  <2>1. PICK v : v = heard[c][k]
    OBVIOUS
  <2>2. /\ k \in Ids /\ k \in objects[c] /\ KindOf[k] = "keyboard" /\ v \in View
        /\ v.focus = NoId /\ v.down = {}
        /\ "memfdWorks" \in promises => ~v.confused /\ v.keymap
    BY <1>2, <1>4, <2>1, KeyboardFacts DEF NoRef
  <2>3. /\ Judged(objects[c], e) /\ e.id = k /\ (Allowed(v, e) <=> v.keymap)
        /\ After(v, e) = [v EXCEPT !.focus = game.arg, !.down = {}]
    BY <2>2 DEF Judged, Allowed, After, Event
  <2> HIDE DEF e
  <2>4. PICK w : w = heard'[c][k]
    OBVIOUS
  <2>5. w = IF Allowed(v, e) THEN After(v, e) ELSE [v EXCEPT !.confused = TRUE]
    BY <1>1, <1>4, <2>1, <2>3, <2>4, SendJudged DEF SeatAlive
  <2>6. \A d \in Conns, j \in Ids : d # c \/ j # k => heard'[d][j] = heard[d][j]
    BY <1>1, <2>3, SendElse
  <2>7. gKeyboard'.id = game.arg
    BY <1>1 DEF RefTo
  <2>8. /\ w.focus \in {NoId, gKeyboard'.id} /\ (w.focus # NoId => w.keymap)
        /\ w.down = {}
    BY <2>2, <2>3, <2>5, <2>7 DEF View
  <2>9. "memfdWorks" \in promises => ~w.confused /\ w.keymap /\ w.focus = gKeyboard'.id
    BY <2>2, <2>3, <2>5, <2>7 DEF View
  <2> HIDE DEF c, k
  <2> QED BY <1>1, <1>2, <1>4, <2>4, <2>6, <2>8, <2>9, KeyboardStep DEF c, k
<1> QED BY <1>3, <1>4

\* ... and is taken back from the surface that has it.
LEMMA KeyboardUnfocusKeyboard ==
  ASSUME SeatTypeOK, CallArgs, SlotKinds, OneHolder, TidyInv, Tidy \subseteq promises,
         held' = held, KeyboardUnfocus
  PROVE  TidyInv'
<1> DEFINE c == seat.conn
           k == seat.keyboard.id
           e == Event("unfocused", k, gKeyboard.id)
<1>1. /\ UNCHANGED <<promises, alive, objects, seat, gPointer, held>>
      /\ game.call = "unfocus" /\ game' = NoCall /\ game.conn = c /\ c \in Conns
      /\ gKeyboard' = NoRef /\ Hears(c, Unfocused(c, heard[c]))
      /\ Followed \subseteq promises
  BY DEF KeyboardUnfocus, Finish, OneHolder, CallArgs, NoCall, Tidy
<1>2. seat.hasKeyboard
  BY <1>1 DEF TidyInv, CallHolds
<1>3. CASE ~SeatAlive
  <2>1. heard' = heard
    BY <1>1, <1>3, SendGone DEF SeatAlive
  <2> QED BY <1>1, <1>2, <1>3, <2>1, KeyboardGone
<1>4. CASE SeatAlive
  <2>1. PICK v : v = heard[c][k]
    OBVIOUS
  <2>2. /\ k \in Ids /\ k \in objects[c] /\ KindOf[k] = "keyboard" /\ v \in View
        /\ v.focus \in {NoId, gKeyboard.id} /\ (v.down # {} => v.focus # NoId)
        /\ "memfdWorks" \in promises => ~v.confused /\ v.keymap /\ v.focus = gKeyboard.id
    BY <1>2, <1>4, <2>1, KeyboardFacts
  <2>3. PICK w : w = heard'[c][k]
    OBVIOUS
  <2>4. /\ w.focus = NoId /\ w.down = {} /\ w.keymap = v.keymap
        /\ v.focus = gKeyboard.id => w.confused = v.confused
        /\ \A d \in Conns, j \in Ids : d # c \/ j # k => heard'[d][j] = heard[d][j]
    <3>1. CASE gKeyboard = NoRef
      <4>1. Hears(c, heard[c])
        BY <1>1, <3>1 DEF Unfocused
      <4>2. \A d \in Conns : heard'[d] = heard[d]
        BY <1>1, <4>1, HearsAt
      <4> QED BY <1>1, <2>1, <2>2, <2>3, <3>1, <4>2 DEF NoRef
    <3>2. CASE gKeyboard # NoRef
      <4>1. Send(c, e)
        BY <1>1, <3>2 DEF Unfocused, Send
      <4>2. /\ Judged(objects[c], e) /\ e.id = k /\ (Allowed(v, e) <=> v.focus = gKeyboard.id)
            /\ After(v, e) = [v EXCEPT !.focus = NoId, !.down = {}]
        BY <2>2 DEF Judged, Allowed, After, Event
      <4> HIDE DEF e
      <4>3. w = IF Allowed(v, e) THEN After(v, e) ELSE [v EXCEPT !.confused = TRUE]
        BY <1>1, <1>4, <2>1, <2>3, <4>1, <4>2, SendJudged DEF SeatAlive
      <4>4. \A d \in Conns, j \in Ids : d # c \/ j # k => heard'[d][j] = heard[d][j]
        BY <1>1, <4>1, <4>2, SendElse
      <4>5. /\ w.focus = NoId /\ w.down = {} /\ w.keymap = v.keymap
            /\ v.focus = gKeyboard.id => w.confused = v.confused
        BY <2>2, <4>2, <4>3 DEF View
      <4> QED BY <4>4, <4>5
    <3> QED BY <3>1, <3>2
  <2>5. gKeyboard'.id = NoId
    BY <1>1 DEF NoRef
  <2>6. "memfdWorks" \in promises => ~w.confused /\ w.keymap /\ w.focus = gKeyboard'.id
    BY <2>2, <2>4, <2>5
  <2> HIDE DEF c, k
  <2> QED BY <1>1, <1>2, <1>4, <2>3, <2>4, <2>6, KeyboardStep DEF c, k
<1> QED BY <1>3, <1>4

LEMMA TidyStep ==
  ASSUME TypeOK, CallArgs, SlotKinds, OneHolder, TidyInv, Tidy \subseteq promises, [Next]_vars
  PROVE  TidyInv'
<1>1. SeatTypeOK
  BY DEF TypeOK
<1>2. CASE \E key \in KeyEvents : KeyDown(key) \/ KeyUp(key)
  BY <1>1, <1>2, KeyDownKeyboard, KeyUpKeyboard
<1>3. CASE UNCHANGED vars
  <2>1. CallHolds' /\ KeysHeld'
    BY <1>3 DEF vars, seatVars, slots, TidyInv, CallHolds, KeysHeld
  <2> QED BY <1>1, <1>3, <2>1, KeysKeyboard DEF vars, seatVars
<1>4. ASSUME held' = held, NEW c \in Conns, NEW i \in Ids,
             \/ GetRegistry(c, i) \/ BindOutput(c, i) \/ CreateSurface(c, i)
             \/ BindSeat(c, i) \/ GetPointer(c, i) \/ GetKeyboard(c, i) \/ Release(c, i)
      PROVE  TidyInv'
  BY <1>1, <1>4, OtherObjectKeyboard, BindSeatKeyboard, GetPointerKeyboard,
     GetKeyboardKeyboard, ReleaseKeyboard
<1>5. ASSUME held' = held, NEW c \in Conns, FlushFds(c) \/ Kill(c) \/ Reap(c)
      PROVE  TidyInv'
  BY <1>1, <1>5, ConnectionKeyboard
<1>6. ASSUME held' = held, BeginCall \/ BeginPointerButton
      PROVE  TidyInv'
  BY <1>1, <1>6, BeginKeyboard
<1>7. ASSUME held' = held, FinishCall
      PROVE  TidyInv'
  BY <1>1, <1>7, PointerCallKeyboard, UseKeymapTextKeyboard, KeyboardEventKeyboard,
     KeyboardFocusKeyboard, KeyboardUnfocusKeyboard
     DEF FinishCall, KeyboardKey, KeyboardModifiers
<1> QED BY <1>2, <1>3, <1>4, <1>5, <1>6, <1>7, NextCases, HeldStays

----------------------------------------------------------------------------
(* The invariant.                                                          *)

LEMMA InitIInv == Init => IInv
<1> SUFFICES ASSUME Init PROVE IInv
  OBVIOUS
<1> USE DEF Init, SeatInit
<1>1. SeatTypeOK
  <2>1. NoCall \in Call /\ NoRef \in Ref
    BY RefType DEF NoCall, Call, Calls
  <2>2. seat \in Seats
    BY <2>1 DEF Seats
  <2>3. heard \in [Conns -> [Ids -> View]]
    BY NewViewType
  <2> QED BY <2>1, <2>2, <2>3 DEF SeatTypeOK
<1>2. TypeOK /\ CallArgs /\ SlotKinds /\ LastLeak
  BY <1>1 DEF TypeOK, CallArgs, SlotKinds, LastLeak, NoCall, NoRef
<1>3. KeymapFdsAccounted
  BY DEF KeymapFdsAccounted
<1>4. FollowedInv
  <2>1. ~SeatAlive
    BY DEF SeatAlive
  <2>2. OneHolder
    BY DEF OneHolder, Objects, NoCall
  <2> QED BY <2>1, <2>2 DEF FollowedInv, PointerSlot, PointerHeard, Confused, NewView
<1>5. TidyInv
  BY DEF TidyInv, KeyboardSlot, CallHolds, KeyboardHeard, KeysHeld, Confused, NewView, NoCall
<1> QED BY <1>2, <1>3, <1>4, <1>5 DEF IInv

\* What clients, game and kernel keep to is chosen once.
LEMMA PromisesStay ==
  ASSUME [Next]_vars
  PROVE  promises' = promises
<1>1. ASSUME NEW c \in Conns, NEW i \in Ids,
             \/ GetRegistry(c, i) \/ BindOutput(c, i) \/ CreateSurface(c, i)
             \/ BindSeat(c, i) \/ GetPointer(c, i) \/ GetKeyboard(c, i) \/ Release(c, i)
      PROVE  promises' = promises
  BY <1>1 DEF GetRegistry, BindOutput, CreateSurface, BindSeat, GetPointer, GetKeyboard, Release
<1>2. ASSUME NEW c \in Conns, FlushFds(c) \/ Kill(c) \/ Reap(c)
      PROVE  promises' = promises
  BY <1>2 DEF FlushFds, Kill, Reap
<1>3. ASSUME BeginCall \/ BeginPointerButton
      PROVE  promises' = promises
  BY <1>3 DEF BeginCall, BeginPointerButton, BeginPointerLeave,
     BeginPointerScroll, BeginKeyboardUnfocus, BeginKeyboardModifiers,
     BeginPointerMotion, BeginKeyboardFocus, BeginUseKeymapText, Begin
<1>4. ASSUME NEW key \in KeyEvents, KeyDown(key) \/ KeyUp(key)
      PROVE  promises' = promises
  BY <1>4 DEF KeyDown, KeyUp
<1>5. UNCHANGED vars => promises' = promises
  BY DEF vars, seatVars
<1> QED BY <1>1, <1>2, <1>3, <1>4, <1>5, NextCases, Finished

LEMMA NextIInv == IInv /\ [Next]_vars => IInv'
<1> SUFFICES ASSUME IInv, [Next]_vars PROVE IInv'
  OBVIOUS
<1>1. /\ TypeOK /\ CallArgs /\ SlotKinds /\ KeymapFdsAccounted /\ LastLeak
      /\ Followed \subseteq promises => FollowedInv
      /\ Tidy \subseteq promises => TidyInv
  BY DEF IInv
<1>2. TypeOK' /\ CallArgs' /\ SlotKinds' /\ KeymapFdsAccounted' /\ LastLeak'
  BY <1>1, TypeStep, SlotKindsStep, KeymapFdsStep
<1>3. Followed \subseteq promises => FollowedInv'
  BY <1>1, FollowedStep
<1>4. Tidy \subseteq promises => TidyInv'
  <2>1. Tidy \subseteq promises => Followed \subseteq promises
    BY DEF Tidy
  <2> QED BY <1>1, <2>1, TidyStep DEF FollowedInv
<1> QED BY <1>2, <1>3, <1>4, PromisesStay DEF IInv

\* Every state of the seat and of the hooks satisfies the inductive invariant.
THEOREM Invariant == Spec => []IInv
BY InitIInv, NextIInv, PTL DEF Spec

\* The variables keep their types, the queues their bound.
THEOREM TypeCorrect == Spec => []TypeOK
<1>1. IInv => TypeOK
  BY DEF IInv
<1> QED BY <1>1, Invariant, PTL

\* However pointers are bound and released, surfaces destroyed and the
\* connection ended between a call's test and its lock, a client that alone has
\* the seat hears of each of its pointers that it enters one surface at a time,
\* moves where it is, and leaves the one it entered. (pointerMotion,
\* sendPointerLeave, onPointerBound)
THEOREM PointerIsFollowed == Spec => []PointerGrammar
<1>1. IInv => PointerGrammar
  BY DEF IInv, FollowedInv, PointerHeard, PointerGrammar
<1> QED BY <1>1, Invariant, PTL

\* A client that makes one keyboard and keeps it hears of it, when a keymap can
\* be made and the game takes the focus back before it gives it anew, the keymap
\* first, then focus, then keys. (onKeyboardBound, keyboardFocus, keyboardKey)
THEOREM KeyboardIsFollowed == Spec => []KeyboardGrammar
<1>1. IInv => KeyboardGrammar
  BY DEF IInv, TidyInv, KeyboardHeard, KeyboardGrammar
<1> QED BY <1>1, Invariant, PTL

\* A keymap descriptor that is open is queued with its event, but for one of a
\* connection that ended. (pushKeymap, sendEvent)
THEOREM NoKeymapLeaks == Spec => []KeymapFdsAccounted
<1>1. IInv => KeymapFdsAccounted
  BY DEF IInv
<1> QED BY <1>1, Invariant, PTL

\* No key gets stuck in an application, whatever the level of capture was at
\* its press and at its release. (handleKey)
THEOREM KeysAreReleased == Spec => []NoKeyStuck
<1>1. IInv => NoKeyStuck
  BY DEF IInv, TidyInv, KeysHeld, NoKeyStuck, NoCall
<1> QED BY <1>1, Invariant, PTL
=============================================================================
