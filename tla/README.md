# A TLA+ model of the WaylandCraft-BE compositor

WaylandCraft-BE puts Wayland windows into a Minecraft Bedrock world: the mod
runs a Wayland compositor inside the game process, programs connect to it over a
socket, and their surfaces are drawn on planes in the world. This directory
models the compositor's own logic in TLA+, checks small instances with TLC and
proves the main safety properties with TLAPS.

All paths below are relative to the repository; `compositor/X` stands for
`src/compositor/X`.

## The system

These threads share the compositor:

* the **event loop** (`Compositor::eventLoop`) polls the sockets, reads,
  dispatches requests to handlers, flushes output and reaps dead connections;
* the **game thread** calls `update()` once per rendered frame (frame callbacks,
  buffer releases), injects input, runs the window registry, and enables and
  disables the mod; in the Android mod a **pump thread** calls `update()` instead;
* a **scan thread** (Android only) looks for applications and is waited for by
  nobody;
* the **capture sessions** with their accept thread talk to a helper application
  on the same device.

Locks: `updateMutex_` (dispatch against `update`), then `connMutex_` (the list of
connections), then a connection's `ioMutex_` (its output buffer); `reqMutex_`
is a leaf.

| Component (module) | State | Operations | Interacts with | Hard parts | Correct when |
|---|---|---|---|---|---|
| Surfaces, shm, frame callbacks (`Surface.cpp`; `Surface`) | per object: surface state (pending, committed), pools, buffers | create, attach, frame, commit, destroy; present | object table, game thread | two threads, client recycling ids, release and done timing | every committed callback is answered once, lent buffers come back, a surface shows what was committed |
| Object table (`Client.cpp`; `Surface`, `Toplevels`, `Drag`) | objects, typed user data, viewport owners | add, destroy, user data by type | every protocol module | ids recycled on delete_id | an id is live, retired or free; data dies with its object |
| Transport, event loop (`Server.cpp`, `Client.cpp`; `Outgoing`, `Incoming`, `Lifetime`) | in and out bytes, three descriptor queues, alive | recv, dispatch, flush, kill, reap | kernel socket, both threads | partial send, EAGAIN, descriptors positional in the bytes | descriptors travel with their message, errors reach the client |
| Display and globals (`Globals.cpp`; `Seat`) | globals, outputs | sync, get_registry, bind | object table | ids of sync callbacks | sync answered in order, ids retired |
| Wire codec (`WireProtocol.h`; `WireCodec`) | a reader's position | marshal, parse | transport | 16-bit size, padding | reading gives back what was written, never beyond the payload |
| Seat (`Seat.cpp`, `XkbKeymap.cpp`, `MemFd.cpp`; `Seat`) | one pointer and keyboard slot, two focuses | bind, motion, button, key, focus | connections, game thread | rebind and death against use, check then act | enter and leave alternate, keys go only to the focus |
| Xdg shell (`XdgShell.cpp`; `Toplevels`) | toplevel states, roles | get_toplevel, configure, ack, close | surfaces, registry | configure and ack order, recycled ids | one role per surface, acked size applied |
| Data device (`DataDevice.cpp`; `Drag`) | one global drag source, offers and their ids | start_drag, motion, drop, finish | seat, connections | global without a lock, ids of two sides, descriptors | an offer never takes the place of a client's object |
| Window registry (`WindowRegistry.cpp`; `Toplevels`) | displays, focus order | sync with toplevels, handle requests | xdg shell, UI | tables read from another thread | one display per toplevel |
| Key capture (`ClientHooks.cpp`; `Input`) | soft and hard capture | key and mouse hooks | seat | press and release on two sides of a change | no key stays down in an application after the player let go |
| Server synchronisation (`Sync.cpp`, `WindowItem.cpp`; not modelled) | alive windows per player, cool-downs | set, give, tick | server events | keys that do not match, timers | a give is refused only during its cool-down |
| Entry points (`Mod.cpp`, `AndroidMod.cpp`; `Lifetime`) | the compositor, pump, scan | load, enable, disable, unload | all threads | threads under way while it ends | disabling returns and leaves nothing running |
| Capture service and helper (`CaptureService.cpp`, `CaptureService.java`; `Capture`) | listener, sessions; stream, acknowledgements | start, accept, read frame, stop; consent, draw, stop | renderer, system | blocking reads and writes on both sides, a stop beside a frame | whole frames are shown, nobody waits for ever |
| Rendering, UI, commands, configuration, platform bridges, logging, stubs (mostly not modelled) | none of their own worth a model | | | | |

`PROJECT.json` lists every component with what is and is not modelled, and every
hazard with its line and the properties that cover it.

## Modules

| Module | Models |
|---|---|
| `Surface` | objects, surfaces, pools, buffers, callbacks, roles and viewports of one connection, with its event queue, the game thread and the client's bookkeeping |
| `FrameContract` | what the frame pump promises a client: requested, committed, answered; lent, given back |
| `MCSurface` | small instances of `Surface` for TLC |
| `SurfaceProofs` | theorems about `Surface`, and that its safety half implements `FrameContract` |
| `Channel` | what a connection promises for the messages put on it: whole, in order, eventually while it is open |
| `Outgoing` | the way out of a connection: `sendEvent`, `flushClient`, the socket and the client's reader |
| `OutgoingProofs` | theorems about `Outgoing`, and that its safety half implements `Channel` |
| `Incoming` | the way in: the client's writer, the socket, `recvAll`, `processIncoming`, `takeFd` |
| `IncomingProofs` | theorems about `Incoming`, and that its safety half implements `Channel` |
| `Toplevels` | roles of surfaces, window requests, and the window registry on the game thread |
| `MCToplevels` | a small instance of `Toplevels` for TLC |
| `ToplevelsProofs` | theorems about `Toplevels` and their proofs |
| `Seat` | registry, output, seat, pointer and keyboard objects, the injection calls in their two steps, keymap descriptors, and what a client hears of it all |
| `Input` | the key and mouse hooks of the game on top of `Seat` |
| `MCInput` | a small instance of `Input` for TLC |
| `InputProofs` | theorems about `Seat` and `Input` and their proofs |
| `WireCodec` | `Writer`, `Reader` and the message header |
| `MCWireCodec` | values and foreign payloads in base six |
| `WireProofs` | theorems about `WireCodec` and `Capture`: what is read is what was written |
| `Lifetime` | start, accept, read, reap, frames, disable and unload over all threads, with the locks and the plain pointers to connections |
| `MCLifetime` | a small instance of `Lifetime` |
| `LifetimeProofs` | theorems about `Lifetime` and their proofs |
| `CaptureFrames` | the units of a helper's stream, the promises, and what is shown of its frames |
| `Capture` | the capture helper, the sessions, the accept thread and the sink |
| `MCCapture` | a small instance of `Capture` |
| `Drag` | the ids of drag offers beside those of a client's own objects |

`Surface` and `Toplevels` abstract the transport to a queue of events that
arrives in order; `Outgoing` and `Incoming` check that the transport is such a
queue, and where it is not. `Seat` judges events as they are sent. Connections end
in `Lifetime`, `Seat` and the transport; the other modules follow one that is open,
or killed by its own error.

In most modules a variable that never changes (`promises`, `environment`) or a
constant (`Promises` of `Surface`) says what clients, kernel or system keep to. A
run explores one or more such worlds (its row says which); a property says which
promises it needs, or its run does, and the proofs assume those and no more.

### Surface

*State.* `objects` is `objects_` (a kind stands for interface and handler),
`userData` the type-tagged `userData_`, `link` the surface id captured by a
sub-surface's handler or kept in `viewportOwners_`, `alive` is `alive_`.
`presenting` is the list of surfaces `presentFrameCallbacks` has collected and
not yet finished: while it is not empty the game thread holds `updateMutex_`, and
requests wait. `out` is every event queued or in flight. The client's side is
what a Wayland client library keeps: `free` ids (an id returns on delete_id),
`lent` buffers, and `frameOf`, the callbacks it awaits.

*Actions.* One per request: `CreateSurface`, `Attach`, `Frame`, `Commit` and so
on, each with all of its handler (`Commit` moves every pending field, marks the
buffer in use). `GetSubsurfaceTwice`, `AttachWithOffset` and the refused branch
of `DestroyViewport` end in `SendError`, which kills the connection.
A presentation is `BeginPresent`, one `PresentDone` per callback and
`PresentRelease`: separate steps, because the event loop may flush and the client
may read between any two of them.

*Data.* A buffer has an extent, a pool a size, and a buffer resolves when the
extent fits: the arithmetic of offset, stride and height is one number. Requests
that store damage, regions, scale, transform, positions or viewport rectangles are
one action, `StoreValue`, without the value; no property depends on it. A region is
an object of its own, and nothing refers to it. A request names existing objects of
the right interface; new ids are ones the client may allocate. The death of the peer
(`recvAll` failing) belongs to the transport: after it nobody observes events.

*Clients.* Some promises of the compositor only hold for clients that behave.
`Promises` says which rules the client keeps: `wellFormed` (requests the protocol
allows; it cuts buffers that fit, and only grows pools), `paced` (one frame at a
time), `waitsRelease` (a lent buffer is left alone until it comes back), `rolesFirst`
(roles are destroyed before their surface). Any other client may do all the handlers
accept: shrink a pool, destroy a shown buffer. Each run states the rules it needs,
and so does each theorem.

### FrameContract

An abstract client and compositor: a callback is requested, committed, answered;
a buffer is lent by a commit and given back. `Surface` is shown to implement it,
liveness included, under a refinement mapping that computes a callback's phase
from the surfaces' lists.

### Outgoing and Incoming

*State.* `out` and `in` are the byte buffers `out_` and `in_`; a byte is a unit of
some event or request, so that order, loss and splits are visible.
`outFds`/`pendingOutFds` and `inFds`/`msgFds` are the four descriptor queues. A
descriptor is named by the message it belongs to; `open` is the set of those open
in the process. `wire` is the socket. In `Incoming` it is a sequence of units,
marked where a chunk ends, and a chunk's descriptors ride on its first unit.
`listed` says whether the connection is still in `connections_`.

*Actions.* `SendEvent` and `SendError` run on either thread, the rest on the
event loop. `sendEvent` and `flushClient` hold `ioMutex_` and are one step each;
`FlushSent` chooses how much the socket takes, `FlushRefused` is EAGAIN or a client
that went. In `Incoming`, `Receive` is one `recvmsg`, which stops at a full buffer or
behind a chunk with descriptors, as the kernel does; a full buffer is followed by
another `recvmsg` (`pc = "reading"`), then requests are dispatched one by one. The
client may send or leave between any two steps. `Reap` is `reapClosed` with the
destructor.

*Environments.* Some promises hold only while the kernel is kind. A variable that
never changes, `environment`, says which conditions the whole run keeps: `roomy`
(no send is refused), `fewFds` (no more than the 16 descriptors a control message
holds), `shortReads` (no read fills the buffer). A property says in its text which
it needs.

*Scope.* The sockets are Unix sockets; over TCP no descriptor ever travels.
Accepting, starting and stopping are in `Lifetime`.

### Toplevels

*State.* `objects`, `state` (role and `xdgSurfaceId`), `surfaceOf` and `toplevel` are
the object table's and user data's share; `requests` is `requests_`, `displays` the
registry's list with its `visible` flag, `game` the point the game thread has
reached in `update`, with the requests it drained. The client remembers what it
asked (`wants`) and what it was configured to be: a configure is latched
and takes effect with the `xdg_surface` event that ends it.

*Actions.* One per request; `set_maximized` and `unset_maximized` are one, as they
differ in a size only (nothing ever sets `maximized`), and so are the three
requests `onRequestUnhandled` would get, which nothing installs. An update is
`Drain`, one step per request, `SendConfigure` and `FinishConfigure` for the two
events of a configure, and `SyncDisplays`. The registry does not hold
`updateMutex_`, so requests are handled between any two of them. What the code does
to a table or a `ToplevelState` while the other thread changes it is undefined;
each look-up is one step here, as it would be under the lock.

*The client* destroys a role's object before its `xdg_surface` and that before the
surface, and gives a surface one role: a role survives its object, so `get_toplevel`
again on the same surface would kill the connection. It may destroy a window at any
moment, and reuses an id as soon as it has read its delete_id, which is all it can
see: a request in the game's queue, a configure between its two events, or a hidden
display may outlive its window and meet the next owner of the id. `QuietIsAsAsked`
says what is true all the same: what a window asks itself comes last and is what it
gets. A window that has asked nothing may get what a former one asked.

### Seat and Input

*State.* `objects` holds the ids of a connection that name an object; which kind an id
is used for is fixed (`KindOf`), since ids that change kind are the subject of
`Surface`. `seat` is `seat_` with its slots, `gPointer` and `gKeyboard` the two focuses.
`game` is the injection call between its two steps. `outFds` counts the keymap
descriptors queued on a connection, `openFds` those open in the process. `alive` are the
connections that have not ended. `heard` is what a client makes of its pointers and
keyboards: whether a keymap came, which surface it is on, which keys are down, and
whether an event came that the protocol does not allow there. `Input` adds the two
levels of capture, `soft` and `hard`, and the keys the player holds.

*Actions.* Requests, one each: `GetRegistry`, `BindOutput`, `BindSeat`, `GetPointer`,
`GetKeyboard` with its keymap, `CreateSurface`, `Release` of anything at any time.
`FlushFds`, `Kill` and `Reap` are the loop's. An injection call
(`Compositor::pointerMotion`, `keyboardKey` and so on) reads the slots without a lock,
then takes `updateMutex_`, reads them again and sends: a `Begin` step and a finishing
one, and requests, kills and reaping fall between the two. A keymap descriptor is made
or not (`MakeMemFd`), and queued, closed, or left open where the connection has ended
(`PushKeymap`); `UseKeymapText` sends a changed keymap, in two steps as well, under
`connMutex_` only. `KeyDown` and `KeyUp` are `handleKey` with every level of capture,
and start an injection call when the key goes on to the seat; `MouseButton` is the mouse
hook.

*What is judged.* `Hear` follows the events of pointers and keyboards (`Allowed`). Two
things it leaves out (`Judged`): buttons and axes, which the code sends without
looking at the pointer's focus (`Seat.cpp:143-168`), and an event to an id of no
object, as a request between a call's test and its lock may cause and a client drops.
Surfaces are known by id: an enter for a surface that took the id of the one meant,
between test and lock, is not told apart. The globals and the state sent at a
binding are not judged either.

*Promises.* `oneBinder`: one client binds the seat. `ownSurfaces`: the game points at
surfaces of the seat's client. These two are what `PointerGrammar` needs: pointers are
bound and released, surfaces destroyed and connections ended at any time.
`keepsKeyboard`: a client makes one keyboard and keeps it. `unfocusesFirst`: the game
takes the focus back before it gives it. `memfdWorks`: the system has memory for a
keymap. `KeyboardGrammar` needs all five, `NoKeyStuck` all but `memfdWorks`: each
guards against something the code does not check (see the disagreements).
`KeymapFdsAccounted` needs none; the one descriptor that leaks is pushed to a
connection that has ended.

*Scope.* Of the injection calls only `keyboardKey` and `pointerButton` have a caller;
the others may come at any time here.

### WireCodec

*State.* A message is written argument by argument into `body`, framed, and read
argument by argument from `data` at `pos`. A second kind of run begins with
`data` from elsewhere (`Foreign`).

*Actions.* `Write` appends what `Writer` does for a type, padding included. `Frame`
writes the header with the size cast to its field and takes what a receiver takes
that believes the header. `ReadArgument` is `Reader`'s function for a type; one
that finds too little ends the reading.

*Data.* A byte is a digit below `Base`. In the code that is 256; in the runs it is
6, so that a size field wraps at 36 bytes and TLC meets messages that do not fit.
The proofs hold for every base above two.

### Lifetime

*State.* `lane` says which of the two mods it is: in `mod` frames, enabling and
disabling are one thread, the game's; in `android` frames are the pump's. `loop`
and `frames` say where the event loop and the frame thread are, and the connection
each holds a pointer to (`at`); `owner` is the thread that enables and disables,
`scans` the detached scans under way. `connections`, `alive`, `requests`, `seatConn`
are the lists and pointers of the source; `updateMutex` and `connMutex` have an
owner. On the clients' side there are those outside, those knocking at a listener,
and those that left. `capturing` says that `capture_->stop()` has threads to wait for.

*Actions.* The loop: `CheckRunning`, `Poll` or `PollFails`, then for each ready
descriptor `TakeListener` and `Accept`, or `TakeConnection`, a read that ends the
connection or gets something, a dispatch under `updateMutex_` that may leave a
request or a seat behind (`PushRequest`, `BindSeat`), and `ReapClosed`. A frame:
`DrainRequests`, one request after another, the visits of `syncDisplays` under
`connMutex_`, and the presentation under both; `PumpTick` begins it in the Android
mod; `Click` and `Inject` are an injection call by way of the seat's pointer. The
owner: load, enable (either listener may fail to bind), `Disable`, `BeginShutdown`,
`JoinLoop`, `Clear`, unload. Disabling stops the capture service first (`StopCapture`:
there may be one to stop, or none), and shutdown begins when its accept thread has
ended. `CaptureEnds` makes it end, and nothing makes `CaptureEnds` come: that is
`Capture`'s subject, and a hanging `disable()` is the run `CaptureStop`.

*Promises.* `stays`: a client leaves, or is killed, only while no request of it waits
and the seat is not its own. `once`: the mod is enabled once per process.
`scanned`: unloading waits for the scans. The code guarantees none of the three;
the part of `NoDanglingUse` about the loop and the visits needs none.

### Capture

*State.* Per helper: `closer` is where its connection is in its life, from the
question to the user to the closed socket, `streaming` the flag, `drawer` the units
of a frame its image listener has yet to write. `toMod` and `acks` are the two
directions of the socket, `session` the thread that reads it, with the pixels it
has got. `accepter`, `stopper`, `running` and `sink` belong to the service. `shown`
is what the sink was given, `texture` whose frame the renderer's one texture
last took.

*Actions.* Consent (`AskConsent`, `Answer`), `Connect`, which finds a listener or
not, `SendHello`, `BeginFrame`, `SendUnit` (a write waits for room), `StopStreaming`
with `SayBye` and `CloseSocket` on a thread of its own, `Die` at any unit. The
service: `Start`, `SetFrameSink`, `Accept`, and per session a header, pixels unit
by unit, the acknowledgement (which waits for room), the sink. `BeginStop`, an
accept thread that notices only after another connection (`Knock` or `Accept`),
`JoinSessions`, `EndStop`. A header is one unit, or torn if its writer died in it;
pixels are `PixelUnits`. Units and `ShownAreFrames` are in `CaptureFrames`, which the
proofs extend beside another system.

*Promises.* `networkOrder`: headers come in the byte order `readHeader` takes them in.
`quietStop`: streaming is stopped between two frames. `wholeHeaders`: nobody dies
inside a header. The repository's helper keeps none of them: with it a session ends at
its first header. No world promises, and no fairness assumes, that a helper reads its
acknowledgements (`ReadAck`) or that somebody connects to a port nobody waits on
(`Knock`): they may happen.

### Drag

*State.* `objects` is a connection's table, `mine` the client's idea of it; `next` is
`nextObjectId_`, `target` and `offer` are `gDragTarget` and the offer last made,
`hasDevice` says that `gDevice` names a connection.

*Actions.* A client's `Create` of sources and devices, `Destroy`, `Finish`; and the
game's side, `MoveTo`, which makes an offer under an id of the compositor's own, then
withdraws the one before, `MoveOff` and `Cancel`. A motion asks for a device and for
nothing else: whether a drag was started, or was finished, it does not look at.

*Scope.* Nothing in the game calls motion or cancel yet; here they come at any time.
`start_drag`, drops, events, mime types and actions change no id. A device made by any
client is kept for good.

## Runs

Nine runs pass. Three show a disagreement: the code against a sentence of the
repository, which TLC finds violated.

| Run | Worlds | Shows |
|---|---|---|
| `SurfaceAnyClient` | any client | types; `IdConservation`: an id is live, or has one delete_id under way, or is free; `NoEventAfterDelete`; `FramesListedOnce` |
| `SurfaceContract` | `wellFormed`, `paced`, `waitsRelease`, `rolesFirst` | `ReleaseOwedOnce`: exactly one release is owed per lent buffer; `DataMatchesObject`: user data and objects agree; `NeverKilled`; `ImplementsContract` |
| `SurfaceViews` | the same | violated: `ViewsAreStable`, a shown buffer keeps its picture |
| `Outgoing` | every environment | types; `FdsHeldOnce`: the waiting descriptors are the open ones, once each, and go with the connection; `ClosedOnlyWhenSent` (`fewFds`); `DeliversBytes`; `DeliversWithFds` (`roomy`, `fewFds`) |
| `Incoming` | every environment | types; `FdsAccounted`: a received descriptor is queued or kept by one handler, and closed with the connection (`shortReads`); `KilledForCause` and `DispatchesWithFds` (`fewFds`); `DispatchesBytes` |
| `Toplevels` | a tidy client | types; `OneWindowPerSurface`; `QuietIsAsAsked`: requests take effect in order; `AsksAreAnswered`; `DisplaysFollow` |
| `Input` | all promises; all but `ownSurfaces` and `memfdWorks` | `PointerGrammar` and `KeyboardGrammar`: a client hears what the protocol allows; `KeymapFdsAccounted`: an open keymap descriptor is queued with its event; `NoKeyStuck`: a key down for an application is held by the player |
| `WireCodec` | messages written here, and foreign payloads | `ReaderStaysInside`; `ReadsWhatWasWritten`; `FramedWhole`: whole exactly if the size field holds it |
| `Lifetime` | `once`; `stays`; all promises | `NoDanglingUse`; `OffIsOff`; `ShutdownReturns`, once the capture service has stopped |
| `Capture` | no promise; `networkOrder`; all promises | `ShownAreFrames` (`quietStop`, `wholeHeaders`): whole frames in order; `SessionsEnd`: the session of a helper that is gone ends |
| `CaptureStop` | the same | violated: `StopReturns` |
| `Drag` | any clients | violated: `OwnObjectsKept` |

*Bounds of Surface.* `Ids` (three or four) bounds the objects alive at once
together with ids under way; `Limit` bounds each kind. Three ids are enough to
recycle an id into an object of another kind while a third object still refers to
it. `MaxSize = 2`, for any client, gives a pool that does not fit a buffer, one that
does after a resize, and one that no longer does after another. Two callbacks or two buffers
are needed for a replaced commit. The queue `out` needs no bound: an id retired is
not allocated before the client reads its delete_id, and a surface releases a
buffer once per commit; the exhaustive runs terminate. Symmetry over ids is used
only in runs without liveness; all ids are alike.

*Bounds of the transport.* Three events of up to two units over a socket of
two: sends are partial, refused, and refused again with descriptors of two
events waiting. Of three descriptors a send carries two (`MaxFds`, 16 in the
code), so that a third is one too many. In `Incoming`, two requests of up to three
units, reads of two units and one descriptor, a flood above three units, and a
client's library that sends two descriptors at once (28 in libwayland): requests
are split over reads, reads fill the buffer or not, and a descriptor arrives
before, with or after the bytes of its request.

*Bounds of Toplevels.* One surface, one xdg_surface and two toplevels; `MaxRequests = 2`
bounds the requests not yet handled, `MaxOut = 1` the events not yet read (a request
that is answered waits for room, the game does not). A window and the next owner of its
ids, with a request of each under way, are enough to confuse one with the other; two
requests of one window are enough for the second to undo the first; the second toplevel
asks for a role that is taken. What several surfaces add is in the theorems.

*Bounds of Input.* `c1` has one object of each kind and two surfaces, so that focus
moves from one to another, and may end (`Mortal`); `c2` binds nothing, but keymaps are
pushed to it, too (`Available`). `MaxFds = 1` keymap descriptor queued per connection,
`MaxHeld = 2` keys held; of the keys one is mapped, and the two the hooks treat
specially are not. Surfaces are alike.

*Bounds of WireCodec.* Three arguments, with values at the ends of their ranges,
strings and arrays of every padding, and foreign payloads that are every beginning
of three words, among them lengths beyond the end.

*Bounds of Lifetime.* Two clients and one listener, one request queued
(`MaxRequests`), the mod enabled twice (`MaxEnables`): a pointer kept from the first
life is met in the second.

*Bounds of Capture.* One helper, three frames of two pixel units (`MaxFrames`,
`PixelUnits`), two units in flight to the service and two acknowledgements back: both
directions fill up while a frame is left to draw, a goodbye falls between the pixels of
a frame. The violation needs no frame at all, so `CaptureStop` has fewer of both.

*Bounds of Drag.* Two clients with two surfaces each, ids up to 4, two offers per
connection (`MaxOffers`): the second withdraws the first.

*Deadlock* is not checked in `SurfaceAnyClient`, `SurfaceViews`, `Outgoing` and
`Incoming` (a killed connection stops), `WireCodec` (a message has been read),
`Lifetime` (the mod stays disabled), `Capture` and `CaptureStop` (the service was
stopped, or no helper comes).

*Fairness.* `Surface`: weak fairness of `BeginPresent` and of the steps of a
presentation, because the render hook calls `update()` on every frame, and of
`Receive`, because the loop flushes at least every 16 ms poll tick and a client
reads its socket. `Outgoing`, `Incoming`: the loop polls, flushes and reaps every
tick; the client flushes what it asked and reads. `Toplevels`: `update()` runs on
every frame, the client reads. `Lifetime`: each thread goes on with what it has
begun; a mutex that is free again and again is got in the end (strong fairness of
the steps that wait for one), since the other thread holds it for a part of a frame
or of a dispatch and then sleeps or polls. `Capture`: sessions, the accept thread and a
helper's writes go on as long as the other side lets them. No fairness is assumed of
requests, of a client leaving, of a socket having room, of frames beginning, of
disabling, of a capture service ending, nor of a helper that draws, connects, reads its
acknowledgements or ends.

## Proofs

TLC covers the instances above; the theorems hold for every value of the constants,
from the assumptions named in the modules. A theorem about clients that keep some
promises names them; they are those of the run that checks the same property, or
fewer.

`SurfaceProofs`: for every set of ids, every `Limit`, `MaxSize` and `Promises`,

* `TypeCorrect`: `Spec => []TypeOK`
* `IdsConserved`: `Spec => []IdConservation`
* `NothingAfterDelete`: `Spec => []NoEventAfterDelete`
* `FramesOnce`: `Spec => []FramesListedOnce`

They follow from one inductive invariant, `IInv`. None of the four is inductive
alone. A presentation step destroys the object its list names, so it keeps ids
conserved only if that object is a live callback (`FramesListedOnce`); a list
stays that way when ids are allocated only if free ids name no object
(`IdConservation`); a release names a live object only if data tagged as a buffer
belongs to one (`BuffersAreLive`); the surface being presented has its state only
if nothing destroys it meanwhile (`PresentingSurfaces`), which needs that only
live surfaces list callbacks (`FramesOnSurfaces`), since state recreated for a
dead surface lists none. The lemmas go component by component: types; the four
ways a step moves an id (`MovesIds`); lists that shrink (`ShrinkFramesSafe`) and
the three steps that move callbacks (`FrameLists`, `CommitLists`,
`PresentDoneLists`).

For clients that keep promises, every set of ids and every bound:

* `DataMatches` (`rolesFirst`): `Spec => []DataMatchesObject`. Inductive with
  `LinksLive`: sub-surfaces and viewports refer to live surfaces, so the handler that
  writes to the surface of a link writes to a surface.
* `WellFormedStays` (`wellFormed`, `rolesFirst`): `Spec => []NeverKilled`. It needs
  that a surface has a role only while a sub-surface gives it one (`RolesLinked`);
  otherwise the first `get_subsurface` on it could be the error.
* `ReleasesOwed` (`waitsRelease`, `rolesFirst`): `Spec => []ReleaseOwedOnce`. The
  invariant follows a buffer: attached to one surface and not lent (`AttachedOnce`),
  lent and marked in use on the one surface that awaits its frame (`AwaitsRelease`),
  then marked free with one release in the queue (`OwedRelease`); lent buffers live
  (`LentLive`), and no event is on its way to an id that may be used again
  (`FreeUnheard`).
* `PumpKeepsContract` (`paced`, `waitsRelease`, `rolesFirst`): every step of `Surface`
  is a step of `FrameContract` or none, the safety half of `ImplementsContract`. Beyond
  the invariant for releases it needs that the callback a client awaits is alive or
  its done is on the way (`AwaitedLive`), that a surface lists the callbacks requested
  on it (`PendingRequested`), and that a callback is gone when its done is sent
  (`DoneIsLast`).

`OutgoingProofs`: for every number and size of events, every socket capacity, every
`MaxFds` and every environment, from `BoundsAssumption`,

* `TypeCorrect`: `Spec => []TypeOK`
* `HeldOnce`: `Spec => []FdsHeldOnce`
* `SentBeforeClosed`: `Spec => []ClosedOnlyWhenSent`
* `DeliveredInOrder`: every step keeps `Channel` for bytes, the safety half of
  `DeliversBytes`
* `DeliveredWithFds`: the same with descriptors, for `DeliversWithFds`

A descriptor that is open belongs to an event already sent (`OpenAreSent`), so the
one `Marshal` appends is new and is queued once. While few descriptors wait
(`WaitingFit`), the first `MaxFds` of a send are all of them, so the send that closes
the list has carried it. For the bytes, the wire and the buffer behind it are one
flow of units (`Flow`), which a flush leaves as it is: it goes on where the client
stopped, every unit is followed by the next of its event or the first of the next
event, and it ends with the last event sent until the connection is dropped
(`InOrder`); what the client holds is the beginning of one event
(`PartialIsBeginning`). So a unit that is read is the expected one (`ReadGoesOn`). For
the descriptors of an easy run (`FdsFit`), all that are on their way are in order
from the client's queue to the buffer's (`FdsInOrder`), belong to events not decoded
(`OwnFds`), and none is behind the first unit of its event (`FdAhead`): when the
event is whole, the oldest at the client is its own (`FirstIsOwn`).

`IncomingProofs`: for every number and size of requests, every cut of the stream into
chunks and reads, every `MaxFds` and every environment, from `BoundsAssumption`,

* `TypeCorrect`: `Spec => []TypeOK`
* `FdsAccountedHolds`: `Spec => []FdsAccounted`
* `KilledForCauseHolds`: `Spec => []KilledForCause`
* `DispatchedInOrder`: every step keeps `Channel` for bytes, the safety half of
  `DispatchesBytes`
* `DispatchedWithFds`: the same with descriptors, for `DispatchesWithFds`

The heart of it is `LaidOut`: what the loop, the socket and the client's buffer hold,
taken together, is the units of the requests not dispatched, one behind the other,
each behind its first `start[n]` units; and where few descriptors are sent at once,
the one of a request is queued already, or on the wire no later than the request's
first unit, or still at the client, and so is that unit (`FdsAhead`). Writing and
reading move the cuts and not the stream; dispatching moves `start` by the size of a
request. `FdsInv` says that descriptors are everywhere in the order of their requests
(`FdsInOrder`), that a chunk ends before the next that has descriptors (`ChunksEnd`),
and that, where few are sent at once, no chunk has more than a read takes and none
belongs to a request dispatched without it (`FewAtOnce`, `OwnFds`). `OpenHeld` accounts
for those open in the process. `FdsAccountedHolds` assumes `RoomForRead`, that the
longest request and a read fit the bound on the buffer (65535 and 16384 bytes of
4 MiB in the code): what is read at once never fills it.

`LifetimeProofs`: for any clients, listeners, bounds and worlds, from
`LifetimeAssumption`,

* `TypeCorrect`: `Spec => []TypeOK`
* `NothingDangles`: `Spec => []NoDanglingUse`
* `DisabledIsOff`: `Spec => []OffIsOff`

The inductive `Inv` is types, `Places` and `PointersStay`. `Places` says what each
thread's place implies: the connection the loop works on is listed and alive, so that
its own reaping comes later (`LoopAt`, `LoopReady`); visits go to listed connections
(`FramesAt`), which needs that the list changes only without `connMutex_` held
(`MutexesHeld`); what shutdown has done at each of its steps, that no capture service
outlives its beginning, and what a failed start leaves (`Stopped`). `PointersStay` is
the promise of clients made into a fact about requests and the seat: whoever is pointed
at is alive, has not left and is listed, except after the only life of the mod.

`WireProofs`, of `WireCodec`: for every base above two, every value written and every
foreign payload, from `CodecAssumption` and `ValuesAssumption`,

* `TypeCorrect`: `Spec => []TypeOK`
* `StaysInside`: `Spec => []ReaderStaysInside`
* `StaysAligned`: `Spec => []Aligned`
* `WholeIfItFits`: `Spec => []FramedWhole`
* `HeaderBack`: `ParseHeader` of what `WriteHeader` makes gives id, opcode and size back
* `ArgumentBack`: wherever the bytes of an argument stand, `Read` gives its value and
  the place after it
* `ReadsBack`: `Spec => []ReadsWhatWasWritten`

The lemmas are arithmetic in a base that is not known: the digits of a word are
bytes (`WordBytes`) and add up to it again (`WordBack`), a negative number comes back
through its complement (`SignedBack`), one lemma per reading function on where it leaves
the position, and one per type on what it gives there (`StringBack`, `ArrayBack`).
`ReadsBack` needs to know where each argument lies in the body: the invariant `Back` has
a function of cuts, each the one before plus the length of what was written (`Laid`).
Writing adds a cut (`WriteBack`), and the reader stands on the cut of as many arguments
as it has got (`ReadTo`). So no induction over the arguments is needed.

`WireProofs`, of `Capture`: for any number of helpers, of frames and of units in a
frame, from `FramesAssumption`,

* `FramesShown`: `C!Spec => []ShownAreFrames`
* `CaptureTypes`: `C!Spec => []C!TypeOK`, from `CaptureAssumption`'s bounds

The invariant `Streams` is about what a session has yet to read, the units in flight
followed by those to be written, so that writing a unit leaves it as it was (`Moved`).
It goes on from what was read last (`Chain`): a frame's header is followed by its first
pixels, pixels by the next ones, a whole frame by a header. The pixels read are the
first of one frame (`GotOne`); a frame that begins is newer than all before it, read
and shown ones included (`After`). Where a helper may still write, the stream ends
between frames, which `quietStop` keeps when it stops; no header is torn (`Newest`),
which `wholeHeaders` keeps when it dies. Each action is one change of that stream: a
message said (`Says`), a frame begun (`Begins`), cut off (`Cut`), a header or a unit
read (`HeaderRead`, `PixelRead`), a frame shown (`FrameShown`). Both systems are
about one question, so they share the module: `Capture` is an instance (`C`) in it.

`InputProofs`: for any connections, ids, keys and numbers of keys held, from
`SeatAssumption` and `InputAssumption`,

* `TypeCorrect`: `Spec => []TypeOK`
* `PointerIsFollowed`: `Spec => []PointerGrammar`
* `KeyboardIsFollowed`: `Spec => []KeyboardGrammar`
* `NoKeymapLeaks`: `Spec => []KeymapFdsAccounted`
* `KeysAreReleased`: `Spec => []NoKeyStuck`

The invariant has a part for every world, and one for each set of promises. For any
world: types, what a call may carry (`CallArgs`), that slots name objects of their kind
(`SlotKinds`), descriptors, and that a keymap call still under way has not leaked yet
(`LastLeak`: its connection is reaped only afterwards, so one descriptor is all).
Where one client has the seat (`FollowedInv`): the seat's objects are its (`OneHolder`),
the pointer's slot is full exactly when its pointer is alive (`PointerSlot`), and what
the pointer has heard is the seat's focus (`PointerHeard`). A pointer released and
another bound between a call's test and its lock keep this, since `onPointerBound`
resets the focus and a finishing call looks at slot and focus again. Where the keyboard
is kept, too (`TidyInv`): its slot is live (`KeyboardSlot`), what a call found before
the lock still holds under it (`CallHolds`, which is what fails for a keyboard released
meanwhile), what it has heard agrees with the focus (`KeyboardHeard`), and a key that is
down for it is held by the player, or the call that releases it is under way
(`KeysHeld`).

`ToplevelsProofs`: for any windows and bounds, from `BoundsAssumption`,

* `TypeCorrect`: `Spec => []TypeOK`
* `OneWindow`: `Spec => []OneWindowPerSurface`
* `QuietAsAsked`: `Spec => []QuietIsAsAsked`

Two invariants, one on top of the other. `RolesInv`: a live window is the role of its
surface, by a live xdg_surface (`WindowIsRole`), and has it alone (`OneEach`).
`ShapeInv` follows a request on its way to the client, with ids reused as soon as their
delete_id is read. The last ask of a window that is not handled is what the client
wants, or else what the registry stored is (`LastAskIsWanted`). Requests of former
windows may find it too, by its surface's id or by a role that names its xdg_surface's,
but they stand before its own (`FormerFirst`), so they are overruled. A configure carries
what is stored, unless the window has more to come (`SendsWhatIsStored`); the last one
sent says what is stored (`LastIsStored`) and is followed by the event that ends it
(`EndFollows`); a window whose asks are answered has one (`AnsweredIsTold`). A configure
for a window that is gone comes before its delete_id (`ConfiguresLive`), so the client
that reuses the id does not read it.

So every invariant and every action property of the passing runs is proved. Only
model-checked is liveness under fairness, which is out of the prover's reach: what
`ImplementsContract`, `DispatchesBytes`, `DispatchesWithFds`, `DeliversBytes` and
`DeliversWithFds` say beyond the steps proved above; `AsksAreAnswered`, `DisplaysFollow`,
`ShutdownReturns`, `SessionsEnd`.

## Disagreements

The code against a comment, a document or a plausible expectation, seen while
modelling. A C++ file stands for the one under `src/`, as above.

### Disagreements with a run

* `SurfaceViews`: after `wl_shm_pool.destroy` the buffers cut from the pool no longer
  resolve (`Surface.cpp:305`; `Types.h:36-38` promises a view stable until the buffer is
  destroyed or the pool resized). Four requests do it: a pool, a buffer, an attach with
  commit, the pool's end, which is what many clients send first of all.
* `CaptureStop`: closing the listening descriptor does not wake a blocked accept, so
  `stop()` (`CaptureService.cpp:99`) returns only after one more connection, and with it
  `disable()`; `Mod.cpp:9` wants everything reversed cleanly. No helper is needed: the
  service is started, then stopped.
* `Drag`: ids of offers count from 2, as clients' own do (`Client.cpp:35`,
  `Client.h:158`; `WireProtocol.h:33` has a range reserved for the server): a device and
  a motion are enough for an offer to take the place of the client's object.

### Disagreements without a run

Each of these is certain from the code, or nothing in the repository says otherwise in
so many words; the promises above are there because of them.

Surfaces and transport:

* A second commit before the next presentation overwrites the committed callbacks
  (`Surface.cpp:332`): they never get their done and their objects stay
  (`Server.h:144` promises a done per callback). `SurfaceContract` is for a client that
  sends one frame at a time.
* A sub-surface's request recreates the state of its destroyed surface
  (`Surface.cpp:398`; `Surface.h:24` and `Client.h:87-88` tie data to the object), and a
  viewport destroyed after its surface is refused (252). Hence `rolesFirst`.
* A pool may be resized to less (148-152): buffers that no longer fit lose their
  picture.
* The committed buffer is an id: when the buffer is destroyed and its id recycled
  for another, that one is shown (`Surface.cpp:292`).
* A buffer replaced before a presentation, or committed without a frame callback,
  is never released (`Surface.cpp:536`).
* Descriptors of a refused send go out alone with the next bytes, and the
  descriptors of those bytes stay behind (`Server.cpp:295`; `Client.h:72-73` keeps
  them with their bytes). Hence `roomy`.
* The error event of a killed connection is never flushed (`Server.cpp:247`;
  `WireProtocol.h:173-175` and `Client.cpp:31` mean it to be read).
* A flush with more than 16 descriptors closes those it did not attach
  (`Server.cpp:54`); of more than 16 received at once the kernel closes the rest
  (`Server.cpp:79`), and later requests take the wrong ones. Hence `fewFds`.
* Nothing closes the socket of a reaped connection (`Client.cpp:15-26`), and
  descriptors read just before the end of the stream are leaked (`Server.cpp:93`).
* Bytes read together with the peer's close, by reads that fill the buffer, are dropped
  undispatched (`Server.cpp:102`). Hence `shortReads`.
* An event longer than its 16-bit size field says a wrong size (`Client.cpp:73`).
* `committed_` (`Server.cpp:355`) and the registry's `owned_` only grow.

Windows:

* A queued request finds its window by the surface's id, and a hidden display stays
  until an update finds no window there (`WindowRegistry.cpp:62-70`): both may meet the
  next owner of the id.
* A new window gets no first configure (`WindowRegistry.cpp:13`; the smoke test waits
  for one, `smoke_client.cpp:206-207`).
* Minimised windows never come back: nothing sets `visible` again. A request to
  minimise before the first update is lost (`WindowRegistry.cpp:66`).
* `set_maximized` gets a configure without the maximized state
  (`WindowRegistry.cpp:113`).
* `focusSurface` has no caller, so `focusOrder_` is always empty: no keyboard focus is
  ever set and `/wlc pin` never pins.

Seat and keys:

* The last client to bind the seat takes it while the slots keep the objects of the
  one before (`Seat.cpp:352-353`): without `oneBinder`, events go to the wrong
  client's ids. A release empties the slot by id alone, whoever sent it (296, 306). A
  keyboard of a client that does not have the seat gets no keymap (386, against
  `Seat.h:23`).
* Buttons and axes are sent whether the pointer is on a surface or not when the lock is
  got; a button never asks (143-168).
* `keyboardFocus` sends no leave for the surface that had the focus, and does not ask
  whether the connection lives (244-252); hence `unfocusesFirst`. Binding a keyboard
  leaves the focus of the last where it is, so the new one is sent keys it never
  entered for; hence `keepsKeyboard`. A second pointer resets the focus without a
  leave (361, against `Seat.h:27-28`): the first, alive, hears no more.
* A keymap pushed to a connection that has ended is neither queued nor closed
  (`Client.cpp:70`): `KeymapFdsAccounted` allows one such descriptor per connection.
* `seatConn` may be followed after its connection was reaped (101-103).
* Outside capture a release is forwarded and consumed, so the game never sees it
  (`ClientHooks.cpp:102`, 115); no key gets stuck in an application by it
  (`NoKeyStuck`). In hard capture the capture key goes to the game, though the
  comment at line 76 says everything is forwarded.
* The table of key codes swaps a few (`KeyCodes.h`, 54, 56, 69), and the hooks pass
  the game's codes to a table of Android's.
* `wl_display.sync` answers on an id it made no object of and sends no `delete_id`
  (`Globals.cpp:24-31`). `wl_output.done` comes before scale, name and description
  (`Globals.cpp:134-148`).
* Any client's `set_shape` sets the cursor (`Seat.cpp:413`).
* `makeMemFd` gives up when TMPDIR is not set (`MemFd.cpp:65-66`), before the
  directories its comment names (80-81).

Life of the compositor:

* Requests, the seat and displays keep pointers to connections that may be reaped,
  and keep them from one enabling to the next (`WindowRegistry.cpp:108`). Hence
  `stays` and `once`.
* A failed poll ends the loop with `running_` set (`Server.cpp:226`).
* `Server.h:166` says handlers never meet the game's reading; `syncDisplays` takes only
  `connMutex_`, and answering requests takes no lock.
* `/wlc list` (`Commands.cpp:63`) and the window manager (`WindowManagerUI.cpp:17`) run
  the registry's update, too.
* The Android mod's scan is detached and uses the bridge that unloading resets
  (`AndroidMod.cpp:165`, 189). Hence `scanned`.

Capture:

* The helper writes headers little-endian, as `PROTOCOL.md:44` says; `readHeader` takes
  them with `ntohl`, and the session closes at the first.
* The helper never reads its acknowledgements (`CaptureService.cpp:138` sends them): in
  the byte order the service reads, a stream that is long enough fills the socket, and
  session and helper wait for each other until the helper is ended.
* A helper stopped within a frame writes its goodbye among the pixels
  (`CaptureService.java:194`), and one that dies in a header is not noticed: what came
  of it is taken for the whole (`CaptureService.cpp:53`). Hence `quietStop` and
  `wholeHeaders`.
* `AndroidMod.cpp:152` says frames become surfaces; it sets no sink. The other mod sets
  its sink after sessions may have begun, without a lock.
* Textures are kept by payload id without the connection (`TextureBridge.cpp:50`), and
  the helper's payload id is always 1: two helpers share one texture. `uploadRgba`
  drops the pixels.

Drag:

* A motion does not ask whether a drag is under way (`DataDevice.cpp:263-266`), so one
  after `finish` makes and withdraws offers. `finish` on an offer of an earlier drag
  ends the present one.
* `data_offer` is never sent: a client is not told of the offer it then enters with.
* `receive` closes its descriptor just after queueing it, against the comment at
  `DataDevice.cpp:124`.
* There is one device, the last one made by anyone. A drag that leaves a surface sends
  no leave. A drag without a source sends on the null object; a source gets events
  after its destruction.
* A drag stays active until its offer is finished, as the game has no caller.

Elsewhere:

* The cool-down of window items is set and never counted down (`Sync.cpp:77`).
* Players are keyed by a hash when items are given (`WindowItem.cpp:42-48`) and erased
  by their raw id (`Sync.cpp:98`).
* The periodic task of `ServerHooks.cpp:31` survives disabling and doubles on
  enabling again.

## Not modelled

* *Server synchronisation of window items*: maps under one mutex, each operation one
  step. What is wrong with it is wrong in every run and needs no search (above).
* *World planes and window geometry*: floating point, no state that steps could
  confuse. Existence and visibility of a display are in `Toplevels`. The grab map is
  never matched against a serial.
* *Rendering*: the drawing functions are empty bodies; the pump's event and the
  texture of a captured frame are in `Lifetime` and `Capture`.
* *Commands and user interface, configuration*: stateless forms and files of values.
* *Platform bridges, the tcp bridge*: input and output of the operating system.
* *Windows stubs, logging, the smoke test, vendored interfaces of the loader*: nothing
  to check, or not part of the program.
* Of modelled components: damage, regions, scale, transform, positions, viewport
  rectangles (all of them the action `StoreValue`), titles, parents, positioners and
  cursor shape are stored values no property depends on; `wl_display.sync`,
  `set_selection` and `ack_configure` store or send something nothing reads; a second
  role and other errors end the connection like the errors that are modelled;
  `createCallback`, the output size setters and the list of committed surfaces have no
  caller or no reader.
