-------------------------------- MODULE Seat --------------------------------
(***************************************************************************)
(* The one seat of the compositor (compositor/Seat.cpp): the slots for a   *)
(* pointer and a keyboard, the surfaces that have their focus, and the     *)
(* keymap each keyboard is sent (util/XkbKeymap.cpp, util/MemFd.cpp). A    *)
(* client comes to the seat, and to the output, by way of its registry     *)
(* (compositor/Globals.cpp).                                               *)
(*                                                                         *)
(* Requests run on the event loop under updateMutex_. An injection call    *)
(* runs on the game thread in two steps: it reads the slots without the    *)
(* lock, then takes the lock, reads the slots again and sends. Requests,   *)
(* and the end of a connection, fall between the two.                      *)
(*                                                                         *)
(* What a client makes of its events is judged as they are sent, which is  *)
(* the order it reads them in (Outgoing); the globals of a registry and    *)
(* the state of an output or a seat, sent with their binding, are not      *)
(* judged. A connection that ended does not come back, and what points to  *)
(* it afterwards is the subject of Lifetime. Coordinates, serials,         *)
(* versions, button states, modifiers and the cursor's shape are left out: *)
(* nothing reads them. Of the calls only keyboardKey and pointerButton     *)
(* have a caller (Input).                                                  *)
(***************************************************************************)
EXTENDS Integers, SequencesExt

CONSTANTS
  Conns,      \* connections
  NoConn,     \* the null connection
  Ids,        \* object ids, the same for every connection
  KindOf,     \* the kind of object an id is used for
  NoId,       \* the null id 0
  Keys,       \* keys with an evdev code
  Available,  \* bound: the ids a connection uses
  MaxFds,     \* bound: keymap descriptors queued on a connection
  Mortal,     \* bound: the connections that may end
  Worlds      \* the sets of promises to consider

\* That an id moves from one kind to another is the subject of Surface.
Kinds == {"registry", "output", "seat", "pointer", "keyboard", "surface"}
\* oneBinder       one client binds the seat
\* ownSurfaces     the game points and focuses only at surfaces of that client
\* keepsKeyboard   a client makes one keyboard and keeps it
\* unfocusesFirst  the game takes the focus back before it gives it anew
\* memfdWorks      a descriptor for the keymap can be made
Promises == {"oneBinder", "ownSurfaces", "keepsKeyboard", "unfocusesFirst", "memfdWorks"}

ASSUME SeatAssumption ==
  /\ NoConn \notin Conns
  /\ NoId \notin Ids
  /\ KindOf \in [Ids -> Kinds]
  /\ Available \in [Conns -> SUBSET Ids]
  /\ MaxFds \in Nat
  /\ Mortal \subseteq Conns
  /\ Worlds \subseteq SUBSET Promises

VARIABLES
  promises,     \* what clients, game and kernel keep to, chosen once
  alive,        \* alive_: the connections that have not ended
  objects,      \* objects_: the ids that name an object of a connection
  seat,         \* seat_: the slots
  gPointer,     \* the surface the pointer is inside of
  gKeyboard,    \* the surface with the keyboard focus
  game,         \* the injection call between its two steps
  outFds,       \* keymap descriptors queued on a connection
  openFds,      \* keymap descriptors open here, by whom they were made for
  heard         \* what a client knows of its pointers and keyboards

slots == <<seat, gPointer, gKeyboard>>
keymaps == <<outFds, openFds>>
seatVars == <<promises, alive, objects, slots, game, keymaps, heard>>

----------------------------------------------------------------------------
(* State.                                                                  *)

Ref == [conn : Conns, id : Ids] \cup {[conn |-> NoConn, id |-> NoId]}
NoRef == [conn |-> NoConn, id |-> NoId]
RefTo(c, i) == [conn |-> c, id |-> i]

Seats == [conn : Conns \cup {NoConn}, pointer : Ref, keyboard : Ref,
          hasPointer : BOOLEAN, hasKeyboard : BOOLEAN]

Calls == {"none", "motion", "leave", "button", "scroll", "press", "release",
          "focus", "unfocus", "modifiers", "keymap"}
Call == [call : Calls, conn : Conns \cup {NoConn}, arg : Ids \cup Keys \cup {NoId}]
NoCall == [call |-> "none", conn |-> NoConn, arg |-> NoId]

\* A client's view of one pointer or keyboard: whether it has a keymap, the
\* surface it is on, the keys that are down, and whether an event came that
\* the protocol does not allow there.
View == [keymap : BOOLEAN, focus : Ids \cup {NoId}, down : SUBSET Keys,
         confused : BOOLEAN]
NewView == [keymap |-> FALSE, focus |-> NoId, down |-> {}, confused |-> FALSE]

Promised(promise) == promise \in promises
Objects(c, kind) == {i \in objects[c] : KindOf[i] = kind}
Surfaces(c) == Objects(c, "surface")

SeatInit ==
  /\ promises \in Worlds
  /\ alive = Conns
  /\ objects = [c \in Conns |-> {}]
  /\ seat = [conn |-> NoConn, pointer |-> NoRef, keyboard |-> NoRef,
             hasPointer |-> FALSE, hasKeyboard |-> FALSE]
  /\ gPointer = NoRef
  /\ gKeyboard = NoRef
  /\ game = NoCall
  /\ outFds = [c \in Conns |-> 0]
  /\ openFds = [c \in Conns |-> 0]
  /\ heard = [c \in Conns |-> [i \in Ids |-> NewView]]

----------------------------------------------------------------------------
(* What the client hears.                                                  *)

Event(type, id, arg) == [type |-> type, id |-> id, arg |-> arg]

\* Whether an event tells the state of an object that is there. One that is
\* sent to an id of no object, which a request may cause that falls between
\* a call's test and its lock, is not judged, nor is a button or an axis: the
\* game clicks without pointing.
Judged(live, e) == e.id \in live /\ e.type \notin {"button", "axis"}

\* Whether an event is one the protocol allows on the object it names. A
\* client knows surfaces by their ids.
Allowed(v, e) ==
  LET pointer == \/ e.type = "enter" /\ v.focus = NoId
                 \/ e.type = "leave" /\ v.focus = e.arg
                 \/ e.type = "motion" /\ v.focus # NoId
      keyboard == \/ e.type = "keymap"
                  \/ e.type = "focused" /\ v.keymap /\ v.focus = NoId
                  \/ e.type = "unfocused" /\ v.focus = e.arg
                  \/ e.type \in {"press", "release", "modifiers"} /\ v.focus # NoId
  IN \/ KindOf[e.id] = "pointer" /\ pointer
     \/ KindOf[e.id] = "keyboard" /\ keyboard

After(v, e) ==
  CASE e.type = "keymap" -> [v EXCEPT !.keymap = TRUE]
    [] e.type \in {"enter", "focused"} -> [v EXCEPT !.focus = e.arg, !.down = {}]
    [] e.type \in {"leave", "unfocused"} -> [v EXCEPT !.focus = NoId, !.down = {}]
    [] e.type = "press" -> [v EXCEPT !.down = @ \cup {e.arg}]
    [] e.type = "release" -> [v EXCEPT !.down = @ \ {e.arg}]
    [] OTHER -> v

\* An event sent to connection c, as its client hears it.
Hear(c, view, e) ==
  IF ~Judged(objects[c], e) THEN view
  ELSE [view EXCEPT ![e.id] = IF Allowed(@, e) THEN After(@, e)
                              ELSE [@ EXCEPT !.confused = TRUE]]

\* sendEvent: nothing is sent to a connection that ended. What is heard is
\* followed where one client has the seat.
Followed == {"oneBinder", "ownSurfaces"}
Hears(c, view) ==
  heard' = IF Followed \subseteq promises /\ c \in alive
           THEN [heard EXCEPT ![c] = view] ELSE heard

Send(c, event) == Hears(c, Hear(c, heard[c], event))

----------------------------------------------------------------------------
(* Objects and globals.                                                    *)

\* addObject under an id the client chose, and its new proxy.
AddObject(c, i, kind) ==
  /\ c \in alive
  /\ KindOf[i] = kind
  /\ i \in Available[c] \ objects[c]
  /\ objects' = [objects EXCEPT ![c] = @ \cup {i}]
  /\ UNCHANGED alive

NewProxy(c, i) == [heard EXCEPT ![c][i] = NewView]

\* wl_display.get_registry. The globals that lead to something here are
\* wl_compositor, wl_seat and wl_output; the other seven are bound the same
\* way.
GetRegistry(c, i) ==
  /\ AddObject(c, i, "registry")
  /\ heard' = NewProxy(c, i)
  /\ UNCHANGED <<promises, slots, game, keymaps>>

\* wl_registry.bind. A client binds what was advertised: any other name is an
\* error that ends its connection.
BindGlobal(c, i, kind) ==
  /\ AddObject(c, i, kind)
  /\ Objects(c, "registry") # {}

BindOutput(c, i) ==
  /\ BindGlobal(c, i, "output")
  /\ heard' = NewProxy(c, i)
  /\ UNCHANGED <<promises, slots, game, keymaps>>

----------------------------------------------------------------------------
(* Requests.                                                               *)

\* The last to bind the seat has it. capabilities and name are sent, too.
BindSeat(c, i) ==
  /\ BindGlobal(c, i, "seat")
  /\ Promised("oneBinder") => seat.conn \in {NoConn, c}
  /\ seat' = [seat EXCEPT !.conn = c]
  /\ heard' = NewProxy(c, i)
  /\ UNCHANGED <<promises, gPointer, gKeyboard, game, keymaps>>

\* Wrong variant: the new pointer inherits the focus of the last.
GetPointerInside(c, i) ==
  /\ AddObject(c, i, "pointer")
  /\ Objects(c, "seat") # {}
  /\ seat' = [seat EXCEPT !.hasPointer = TRUE, !.pointer = RefTo(c, i)]
  /\ heard' = NewProxy(c, i)
  /\ UNCHANGED <<promises, gPointer, gKeyboard, game, keymaps>>

\* A client may bind pointers again and again: the last has the slot, and is
\* on no surface.
GetPointer(c, i) ==
  /\ AddObject(c, i, "pointer")
  /\ Objects(c, "seat") # {}
  /\ seat' = [seat EXCEPT !.hasPointer = TRUE, !.pointer = RefTo(c, i)]
  /\ gPointer' = NoRef
  /\ heard' = NewProxy(c, i)
  /\ UNCHANGED <<promises, gKeyboard, game, keymaps>>

\* pushKeymap of a fresh descriptor: it is closed where nobody is bound, and
\* queued with the event otherwise; but sendEvent returns early on a
\* connection that ended, which leaves it open.
PushesKeymap(c) == seat'.conn = c /\ seat'.hasKeyboard
QueuesKeymap(c) == PushesKeymap(c) /\ c \in alive

\* Wrong variant: a keymap nobody is bound for is not closed.
PushKeymapKeeping(c) ==
  /\ outFds' = IF QueuesKeymap(c) THEN [outFds EXCEPT ![c] = @ + 1] ELSE outFds
  /\ openFds' = [openFds EXCEPT ![c] = @ + 1]

PushKeymap(c) ==
  /\ outFds' = IF QueuesKeymap(c) THEN [outFds EXCEPT ![c] = @ + 1] ELSE outFds
  /\ openFds' = IF PushesKeymap(c) THEN [openFds EXCEPT ![c] = @ + 1] ELSE openFds

\* makeMemFd: a descriptor of the first backend that can make one and size it,
\* or none; what a backend could make but not size is closed again.
MakeMemFd == IF Promised("memfdWorks") THEN {"fd"} ELSE {"fd", "none"}

\* The keymap goes out with the keyboard's first event.
GetKeyboard(c, i) ==
  /\ AddObject(c, i, "keyboard")
  /\ Objects(c, "seat") # {}
  /\ Promised("keepsKeyboard") => Objects(c, "keyboard") = {}
  /\ outFds[c] < MaxFds
  /\ seat' = [seat EXCEPT !.hasKeyboard = TRUE, !.keyboard = RefTo(c, i)]
  /\ \/ /\ "fd" \in MakeMemFd
        /\ PushKeymap(c)
        /\ heard' = [heard EXCEPT ![c][i] = [NewView EXCEPT !.keymap = PushesKeymap(c)]]
     \/ /\ "none" \in MakeMemFd
        /\ heard' = NewProxy(c, i)
        /\ UNCHANGED keymaps
  /\ UNCHANGED <<promises, gPointer, gKeyboard, game>>

\* By way of wl_compositor, which is bound but not shown.
CreateSurface(c, i) ==
  /\ BindGlobal(c, i, "surface")
  /\ heard' = NewProxy(c, i)
  /\ UNCHANGED <<promises, slots, game, keymaps>>

\* release or destroy: the pointer or keyboard with the slot's id, of
\* whatever connection, empties the slot; an output, a seat or a surface
\* empties nothing.
ReleasedSlots(c, i) ==
  [seat EXCEPT
    !.hasPointer = @ /\ ~(KindOf[i] = "pointer" /\ seat.pointer.id = i),
    !.hasKeyboard = @ /\ ~(KindOf[i] = "keyboard" /\ seat.keyboard.id = i)]

Release(c, i) ==
  /\ c \in alive
  /\ i \in objects[c] /\ KindOf[i] # "registry"
  /\ Promised("keepsKeyboard") => KindOf[i] # "keyboard"
  /\ objects' = [objects EXCEPT ![c] = @ \ {i}]
  /\ seat' = ReleasedSlots(c, i)
  /\ UNCHANGED <<promises, alive, gPointer, gKeyboard, game, keymaps, heard>>

\* The event loop flushes a live connection: the descriptors go and are closed
\* here.
FlushFds(c) ==
  /\ c \in alive
  /\ outFds[c] > 0
  /\ outFds' = [outFds EXCEPT ![c] = 0]
  /\ openFds' = [openFds EXCEPT ![c] = @ - outFds[c]]
  /\ UNCHANGED <<promises, alive, objects, slots, game, heard>>

\* A connection ends, of a protocol error or with its client, which hears no
\* more.
Kill(c) ==
  /\ c \in alive \cap Mortal
  /\ alive' = alive \ {c}
  /\ heard' = [heard EXCEPT ![c] = [i \in Ids |-> NewView]]
  /\ UNCHANGED <<promises, objects, slots, game, keymaps>>

\* reapClosed, under connMutex_, which useKeymapText holds from its test to its
\* last push: the objects of a connection that ended go, and what is queued on
\* it is closed.
Reap(c) ==
  /\ c \notin alive
  /\ game.call # "keymap"
  /\ objects[c] # {} \/ outFds[c] > 0
  /\ objects' = [objects EXCEPT ![c] = {}]
  /\ outFds' = [outFds EXCEPT ![c] = 0]
  /\ openFds' = [openFds EXCEPT ![c] = @ - outFds[c]]
  /\ UNCHANGED <<promises, alive, slots, game, heard>>

----------------------------------------------------------------------------
(* The game thread: a call before it has the lock. A call whose test fails *)
(* returns; it is no step.                                                 *)

MayPoint(c) == Promised("ownSurfaces") => c = seat.conn

Begin(call, c, arg) ==
  /\ game = NoCall
  /\ game' = [call |-> call, conn |-> c, arg |-> arg]
  /\ UNCHANGED <<promises, alive, objects, slots, keymaps, heard>>

BeginPointerMotion(c, surface) ==
  /\ c \in alive
  /\ surface \in Surfaces(c)
  /\ MayPoint(c)
  /\ seat.hasPointer
  /\ Begin("motion", c, surface)

\* seatConn: the seat's connection is not null, and alive.
SeatAlive == seat.conn \in alive

BeginPointerLeave == SeatAlive /\ Begin("leave", seat.conn, NoId)

BeginPointerButton ==
  /\ SeatAlive
  /\ seat.hasPointer
  /\ Begin("button", seat.conn, NoId)

BeginPointerScroll ==
  /\ SeatAlive
  /\ seat.hasPointer
  /\ gPointer # NoRef
  /\ Begin("scroll", seat.conn, NoId)

\* Wrong variant: the focus is not looked at.
KeyboardHasFocusBlindly == SeatAlive /\ seat.hasKeyboard

KeyboardHasFocus == SeatAlive /\ seat.hasKeyboard /\ gKeyboard # NoRef

BeginKeyboardModifiers ==
  /\ KeyboardHasFocus
  /\ Begin("modifiers", seat.conn, NoId)

\* Of the connection it focuses on it asks nothing.
BeginKeyboardFocus(c, surface) ==
  /\ surface \in Surfaces(c)
  /\ MayPoint(c)
  /\ Promised("unfocusesFirst") => gKeyboard = NoRef
  /\ seat.hasKeyboard
  /\ Begin("focus", c, surface)

BeginKeyboardUnfocus ==
  /\ SeatAlive
  /\ seat.hasKeyboard
  /\ Begin("unfocus", seat.conn, NoId)

\* useKeymapText finds connection c alive.
BeginUseKeymapText(c) == c \in alive /\ Begin("keymap", c, NoId)

----------------------------------------------------------------------------
(* The game thread: the call under the lock.                               *)

Finish(call) ==
  /\ game.call = call
  /\ game' = NoCall
  /\ UNCHANGED <<promises, alive, objects, seat>>

\* sendPointerEnter and sendPointerLeave look at the slot again.
PointerReady == seat.conn # NoConn /\ seat.hasPointer

Left(c, view) ==
  IF PointerReady /\ gPointer # NoRef
  THEN Hear(c, view, Event("leave", seat.pointer.id, gPointer.id)) ELSE view

Entered(c, view, surface) == Hear(c, view, Event("enter", seat.pointer.id, surface))
Moved(c, view) == Hear(c, view, Event("motion", seat.pointer.id, NoId))

PointerMotion ==
  LET c == game.conn
      moves == gPointer # RefTo(c, game.arg) /\ PointerReady
  IN /\ Finish("motion")
     /\ gPointer' = IF moves THEN RefTo(c, game.arg) ELSE gPointer
     /\ Hears(c, Moved(c, IF moves THEN Entered(c, Left(c, heard[c]), game.arg)
                          ELSE heard[c]))
     /\ UNCHANGED <<gKeyboard, keymaps>>

PointerLeave ==
  /\ Finish("leave")
  /\ gPointer' = IF PointerReady THEN NoRef ELSE gPointer
  /\ Hears(game.conn, Left(game.conn, heard[game.conn]))
  /\ UNCHANGED <<gKeyboard, keymaps>>

\* The button with its frame; the axes with theirs.
PointerButton ==
  /\ Finish("button")
  /\ Send(game.conn, Event("button", seat.pointer.id, NoId))
  /\ UNCHANGED <<gPointer, gKeyboard, keymaps>>

PointerScroll ==
  /\ Finish("scroll")
  /\ Send(game.conn, Event("axis", seat.pointer.id, NoId))
  /\ UNCHANGED <<gPointer, gKeyboard, keymaps>>

KeyboardEvent(call) ==
  /\ Finish(call)
  /\ Send(game.conn, Event(call, seat.keyboard.id, game.arg))
  /\ UNCHANGED <<gPointer, gKeyboard, keymaps>>

KeyboardKey == KeyboardEvent("press") \/ KeyboardEvent("release")
KeyboardModifiers == KeyboardEvent("modifiers")

\* No leave for the surface that had the focus.
KeyboardFocus ==
  /\ Finish("focus")
  /\ gKeyboard' = RefTo(game.conn, game.arg)
  /\ Send(game.conn, Event("focused", seat.keyboard.id, game.arg))
  /\ UNCHANGED <<gPointer, keymaps>>

Unfocused(c, view) ==
  IF gKeyboard # NoRef
  THEN Hear(c, view, Event("unfocused", seat.keyboard.id, gKeyboard.id)) ELSE view

KeyboardUnfocus ==
  /\ Finish("unfocus")
  /\ gKeyboard' = NoRef
  /\ Hears(game.conn, Unfocused(game.conn, heard[game.conn]))
  /\ UNCHANGED <<gPointer, keymaps>>

\* useKeymapText, under connMutex_ only: each connection it found alive is
\* pushed a descriptor of its own. dup does not fail here.
UseKeymapText ==
  LET c == game.conn
  IN /\ Finish("keymap")
     /\ QueuesKeymap(c) => outFds[c] < MaxFds
     /\ PushKeymap(c)
     /\ IF PushesKeymap(c) THEN Send(c, Event("keymap", seat.keyboard.id, NoId))
                           ELSE UNCHANGED heard
     /\ UNCHANGED <<gPointer, gKeyboard>>

----------------------------------------------------------------------------
(* The steps of each thread.                                               *)

Request(c) ==
  \E i \in Ids : \/ GetRegistry(c, i) \/ BindOutput(c, i) \/ BindSeat(c, i)
                \/ GetPointer(c, i) \/ GetKeyboard(c, i)
                \/ CreateSurface(c, i) \/ Release(c, i)

Loop(c) == Request(c) \/ FlushFds(c) \/ Kill(c) \/ Reap(c)

\* The calls without a caller.
BeginCall ==
  \/ BeginPointerLeave \/ BeginPointerScroll
  \/ BeginKeyboardUnfocus \/ BeginKeyboardModifiers
  \/ \E c \in Conns :
       \/ BeginUseKeymapText(c)
       \/ \E surface \in Surfaces(c) :
            BeginPointerMotion(c, surface) \/ BeginKeyboardFocus(c, surface)

FinishCall ==
  \/ PointerMotion \/ PointerLeave \/ PointerButton \/ PointerScroll
  \/ KeyboardKey \/ KeyboardModifiers \/ KeyboardFocus \/ KeyboardUnfocus
  \/ UseKeymapText

SeatStep ==
  \/ \E c \in Conns : Loop(c)
  \/ BeginCall
  \/ FinishCall

----------------------------------------------------------------------------
(* Properties.                                                             *)

SeatTypeOK ==
  /\ promises \subseteq Promises
  /\ alive \subseteq Conns
  /\ objects \in [Conns -> SUBSET Ids]
  /\ seat \in Seats
  /\ gPointer \in Ref
  /\ gKeyboard \in Ref
  /\ game \in Call
  /\ outFds \in [Conns -> 0..MaxFds]
  /\ openFds \in [Conns -> Nat]
  /\ heard \in [Conns -> [Ids -> View]]

Confused(kind) ==
  {i \in Ids : KindOf[i] = kind /\ \E c \in Conns : heard[c][i].confused}

\* A client that alone has the seat hears of each of its pointers that it
\* enters one surface at a time, moves only where it is, and leaves the
\* surface it entered: however often pointers are bound and released and
\* surfaces destroyed, between the test and the lock of a call, too. Of
\* buttons and axes it says nothing, nor of what an id names by then.
\* (pointerMotion, sendPointerEnter, sendPointerLeave, onPointerBound)
PointerGrammar == Followed \subseteq promises => Confused("pointer") = {}

\* A client that has one keyboard and keeps it hears of it the keymap first,
\* then of focus, on one surface at a time, and of keys only while a surface
\* of it has the focus, if the game takes the focus back before it gives it
\* anew. (onKeyboardBound, pushKeymap, keyboardFocus, keyboardKey)
Tidy == Followed \cup {"keepsKeyboard", "unfocusesFirst"}
KeyboardGrammar ==
  Tidy \cup {"memfdWorks"} \subseteq promises => Confused("keyboard") = {}

\* Whatever clients do, and however many bind the seat, a keymap descriptor
\* that is open is queued with its event; one nobody can be sent is closed.
\* Of a connection that ended while a keymap was on its way to it, that one
\* descriptor leaks, and no other. (onKeyboardBound, pushKeymap, sendEvent)
KeymapFdsAccounted ==
  \A c \in Conns : openFds[c] - outFds[c] \in (IF c \in alive THEN {0} ELSE {0, 1})
=============================================================================
