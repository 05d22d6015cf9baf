------------------------------ MODULE Lifetime ------------------------------
(***************************************************************************)
(* The life of the compositor and of its connections, over three threads:  *)
(* the event loop (compositor/Server.cpp) accepts, reads and reaps; the    *)
(* thread that loads, enables, disables and unloads the mod (Mod.cpp,      *)
(* AndroidMod.cpp) starts and shuts the compositor down; the frame thread  *)
(* handles requests, reconciles displays and presents. In lane "mod" the   *)
(* last two are one thread, the game's. In lane "android" frames are the   *)
(* pump's, which only presents, and enabling leaves a thread to itself     *)
(* that scans for applications with the mod's bridge.                      *)
(*                                                                         *)
(* Connections are kept in a list and referred to by plain pointers: the   *)
(* loop's, the ones in requests and the seat's. What matters is that a     *)
(* pointer is followed only while its connection is in the list. What the  *)
(* handlers do is in Surface, Toplevels and Seat; bytes are in Incoming    *)
(* and Outgoing. Of the capture service only its accept thread is here,    *)
(* which disabling waits for; what that waits for is in Capture.           *)
(***************************************************************************)
EXTENDS Naturals, SequencesExt

CONSTANTS
  Conns,        \* clients, each of which connects at most once
  NoConn,       \* the null pointer
  Listeners,    \* the sockets listened on: unix and tcp in the code
  MaxRequests,  \* bound: requests queued for the game
  MaxEnables,   \* bound: times the mod is enabled
  Worlds        \* the sets of promises to consider

Lanes == {"mod", "android"}

(***************************************************************************)
(* stays    a client leaves, or is killed, only while no request of it is  *)
(*          queued or being handled and the seat is not its own            *)
(* once     the mod is enabled once in the life of its process             *)
(* scanned  the mod is unloaded only after its scans have ended            *)
(***************************************************************************)
Promises == {"stays", "once", "scanned"}

ASSUME LifetimeAssumption ==
  /\ NoConn \notin Conns \cup Listeners
  /\ Conns \cap Listeners = {}
  /\ {MaxRequests, MaxEnables} \subseteq Nat
  /\ Worlds \subseteq SUBSET Promises

VARIABLES
  promises,     \* what clients, loader and kernel keep to, chosen once
  lane,         \* which mod this is
  running,      \* running_
  active,       \* g_activeCompositor is this compositor
  listeners,    \* unixListenFd_, tcpListenFd_: those that are open
  capturing,    \* capture_: its stop() waits for its accept thread
  connections,  \* connections_
  alive,        \* alive_: connections not killed
  outside,      \* clients that have not connected yet
  knocking,     \* clients waiting on a listener
  left,         \* clients that closed their end
  requests,     \* requests_: who asked
  seatConn,     \* seat_.conn
  updateMutex,  \* updateMutex_: its owner
  connMutex,    \* connMutex_: its owner
  loop,         \* loopThread_: where it is, and what it works on
  frames,       \* the frame thread: where it is, and what it works on
  scans,        \* scans of applications under way
  owner         \* the thread that enables and disables

clientSide == <<outside, knocking, left>>
lists == <<connections, alive, requests, seatConn>>
service == <<running, active, listeners, capturing>>
mutexes == <<updateMutex, connMutex>>
ownerSide == <<scans, owner>>
threads == <<loop, frames, ownerSide>>
vars == <<promises, lane, clientSide, lists, service, mutexes, threads>>

----------------------------------------------------------------------------
(* State.                                                                  *)

Threads == {"loop", "frames"}
Free == "free"

\* at: the connection a thread holds a pointer to.
LoopPlaces == {"off", "check", "poll", "ready", "accept", "read", "lock",
               "dispatch", "reap", "ended"}
Loop == [pc : LoopPlaces, ready : SUBSET (Listeners \cup Conns),
         at : Conns \cup Listeners \cup {NoConn}]

FramePlaces == {"off", "idle", "handle", "follow", "sync", "lock", "lists",
                "present", "click"}
Frames == [pc : FramePlaces, drained : Seq(Conns), at : Conns \cup {NoConn},
           todo : SUBSET Conns]

\* From "disabled" on there is a bridge.
OwnerPlaces == {"unloaded", "disabled", "enabled", "stopping", "joining",
                "clearing"}
Owner == [pc : OwnerPlaces, pumping : BOOLEAN, enables : Nat]

Promised(p) == p \in promises
Off == [pc |-> "off", ready |-> {}, at |-> NoConn]
Rest == [pc |-> "idle", drained |-> <<>>, at |-> NoConn, todo |-> {}]

Init ==
  /\ promises \in Worlds
  /\ lane \in Lanes
  /\ running = FALSE /\ active = FALSE /\ listeners = {} /\ capturing = FALSE
  /\ connections = {} /\ alive = {}
  /\ outside = Conns
  /\ knocking = [l \in Listeners |-> {}]
  /\ left = {}
  /\ requests = <<>>
  /\ seatConn = NoConn
  /\ updateMutex = Free /\ connMutex = Free
  /\ loop = Off
  /\ frames = [Rest EXCEPT !.pc = "off"]
  /\ scans = 0
  /\ owner = [pc |-> "unloaded", pumping |-> FALSE, enables |-> 0]

\* Pointers to c that are kept outside the list and may still be followed.
PointedAt(c) ==
  \/ c = seatConn
  \/ c \in ToSet(requests \o frames.drained)
  \/ c = frames.at

MayEnd(c) == Promised("stays") => ~PointedAt(c)

----------------------------------------------------------------------------
(* Clients.                                                                *)

Connect(c, l) ==
  /\ c \in outside /\ l \in listeners
  /\ outside' = outside \ {c}
  /\ knocking' = [knocking EXCEPT ![l] = @ \cup {c}]
  /\ UNCHANGED <<promises, lane, left, lists, service, mutexes, threads>>

Leave(c) ==
  /\ c \in connections \ left
  /\ MayEnd(c)
  /\ left' = left \cup {c}
  /\ UNCHANGED <<promises, lane, outside, knocking, lists, service, mutexes,
                 threads>>

----------------------------------------------------------------------------
(* The event loop.                                                         *)

\* running_ is read, then the connections to poll are collected under the lock.
CheckRunning ==
  /\ loop.pc = "check"
  /\ IF ~running
     THEN loop' = [loop EXCEPT !.pc = "ended"]
     ELSE /\ connMutex = Free
          /\ loop' = [loop EXCEPT !.pc = "poll",
                                  !.ready = listeners \cup (connections \cap alive)]
  /\ UNCHANGED <<promises, lane, clientSide, lists, service, mutexes, frames,
                 ownerSide>>

\* Of the descriptors polled, some have something to read.
Poll(ready) ==
  /\ loop.pc = "poll"
  /\ ready \subseteq loop.ready
  /\ loop.ready \cap left \subseteq ready
  /\ \A l \in Listeners \cap loop.ready : l \in ready <=> knocking[l] # {}
  /\ loop' = [loop EXCEPT !.pc = "ready", !.ready = ready]
  /\ UNCHANGED <<promises, lane, clientSide, lists, service, mutexes, frames,
                 ownerSide>>

\* The loop ends on its own, and running_ stays set.
PollFails ==
  /\ loop.pc = "poll"
  /\ loop' = [loop EXCEPT !.pc = "ended", !.ready = {}]
  /\ UNCHANGED <<promises, lane, clientSide, lists, service, mutexes, frames,
                 ownerSide>>

\* Listeners come first in the list of descriptors.
TakeListener(l) ==
  /\ loop.pc = "ready" /\ l \in loop.ready
  /\ loop' = [pc |-> "accept", ready |-> loop.ready \ {l}, at |-> l]
  /\ UNCHANGED <<promises, lane, clientSide, lists, service, mutexes, frames,
                 ownerSide>>

Accept(c) ==
  /\ loop.pc = "accept" /\ c \in knocking[loop.at]
  /\ connMutex = Free
  /\ knocking' = [knocking EXCEPT ![loop.at] = @ \ {c}]
  /\ connections' = connections \cup {c}
  /\ alive' = alive \cup {c}
  /\ UNCHANGED <<promises, lane, outside, left, requests, seatConn, service,
                 mutexes, threads>>

NoMoreToAccept ==
  /\ loop.pc = "accept" /\ knocking[loop.at] = {}
  /\ loop' = [loop EXCEPT !.pc = "ready", !.at = NoConn]
  /\ UNCHANGED <<promises, lane, clientSide, lists, service, mutexes, frames,
                 ownerSide>>

\* connectionForFd: a descriptor is never closed, so it names one connection.
TakeConnection(c) ==
  /\ loop.pc = "ready" /\ c \in loop.ready \cap connections
  /\ loop.ready \cap Listeners = {}
  /\ connMutex = Free
  /\ loop' = [pc |-> "read", ready |-> loop.ready \ {c}, at |-> c]
  /\ UNCHANGED <<promises, lane, clientSide, lists, service, mutexes, frames,
                 ownerSide>>

Kill(c) == alive' = alive \ {c}

\* The peer closed, or it sent more than a connection may have waiting.
ReadEnds ==
  /\ loop.pc = "read"
  /\ loop.at \in left \/ MayEnd(loop.at)
  /\ Kill(loop.at)
  /\ loop' = [loop EXCEPT !.pc = "ready", !.at = NoConn]
  /\ UNCHANGED <<promises, lane, clientSide, connections, requests, seatConn,
                 service, mutexes, frames, ownerSide>>

ReadGets ==
  /\ loop.pc = "read" /\ loop.at \notin left
  /\ loop' = [loop EXCEPT !.pc = "lock"]
  /\ UNCHANGED <<promises, lane, clientSide, lists, service, mutexes, frames,
                 ownerSide>>

BeginDispatch ==
  /\ loop.pc = "lock" /\ updateMutex = Free
  /\ updateMutex' = "loop"
  /\ loop' = [loop EXCEPT !.pc = "dispatch"]
  /\ UNCHANGED <<promises, lane, clientSide, lists, service, connMutex, frames,
                 ownerSide>>

\* Handlers that leave a pointer to their connection behind.
PushRequest ==
  /\ loop.pc = "dispatch"
  /\ Len(requests) < MaxRequests
  /\ Promised("stays") => loop.at \notin left
  /\ requests' = Append(requests, loop.at)
  /\ UNCHANGED <<promises, lane, clientSide, connections, alive, seatConn,
                 service, mutexes, threads>>

BindSeat ==
  /\ loop.pc = "dispatch"
  /\ Promised("stays") => loop.at \notin left
  /\ seatConn' = loop.at
  /\ UNCHANGED <<promises, lane, clientSide, connections, alive, requests,
                 service, mutexes, threads>>

\* Whatever else was dispatched; a protocol error kills the connection.
EndDispatch(error) ==
  /\ loop.pc = "dispatch"
  /\ error => MayEnd(loop.at)
  /\ IF error THEN Kill(loop.at) ELSE UNCHANGED alive
  /\ updateMutex' = Free
  /\ loop' = [loop EXCEPT !.pc = "ready", !.at = NoConn]
  /\ UNCHANGED <<promises, lane, clientSide, connections, requests, seatConn,
                 service, connMutex, frames, ownerSide>>

NoneReady ==
  /\ loop.pc = "ready" /\ loop.ready = {}
  /\ loop' = [loop EXCEPT !.pc = "reap"]
  /\ UNCHANGED <<promises, lane, clientSide, lists, service, mutexes, frames,
                 ownerSide>>

\* Flushing, under the same lock, is in Outgoing.
ReapClosed ==
  /\ loop.pc = "reap" /\ connMutex = Free
  /\ connections' = connections \cap alive
  /\ loop' = [loop EXCEPT !.pc = "check"]
  /\ UNCHANGED <<promises, lane, clientSide, alive, requests, seatConn,
                 service, mutexes, frames, ownerSide>>

----------------------------------------------------------------------------
(* A frame.                                                                *)

\* The game's thread is in a frame, or enables or disables, or rests.
FrameMayBegin ==
  /\ frames.pc = "idle"
  /\ lane = "mod" => owner.pc = "enabled"

\* WindowRegistry::update: first the requests are taken, all at once.
DrainRequests ==
  /\ lane = "mod" /\ FrameMayBegin
  /\ frames' = [Rest EXCEPT !.pc = "handle", !.drained = requests]
  /\ requests' = <<>>
  /\ UNCHANGED <<promises, lane, clientSide, connections, alive, seatConn,
                 service, mutexes, loop, ownerSide>>

\* The answer follows the pointer; a Minimize would not.
HandleRequest ==
  /\ frames.pc = "handle" /\ frames.drained # <<>>
  /\ frames' = [frames EXCEPT !.pc = "follow", !.at = Head(frames.drained),
                              !.drained = Tail(@)]
  /\ UNCHANGED <<promises, lane, clientSide, lists, service, mutexes, loop,
                 ownerSide>>

HandledRequest ==
  /\ frames.pc = "follow"
  /\ frames' = [frames EXCEPT !.pc = "handle", !.at = NoConn]
  /\ UNCHANGED <<promises, lane, clientSide, lists, service, mutexes, loop,
                 ownerSide>>

\* syncDisplays visits the connections under connMutex_ alone.
BeginSync ==
  /\ frames.pc = "handle" /\ frames.drained = <<>>
  /\ connMutex = Free
  /\ connMutex' = "frames"
  /\ frames' = [frames EXCEPT !.pc = "sync", !.todo = connections]
  /\ UNCHANGED <<promises, lane, clientSide, lists, service, updateMutex, loop,
                 ownerSide>>

\* A connection killed meanwhile is passed over.
Visit(c) ==
  /\ frames.pc \in {"sync", "present"} /\ c \in frames.todo
  /\ frames' = [frames EXCEPT !.at = IF c \in alive THEN c ELSE NoConn,
                              !.todo = @ \ {c}]
  /\ UNCHANGED <<promises, lane, clientSide, lists, service, mutexes, loop,
                 ownerSide>>

EndSync ==
  /\ frames.pc = "sync" /\ frames.todo = {}
  /\ connMutex' = Free
  /\ frames' = [frames EXCEPT !.pc = "lock", !.at = NoConn]
  /\ UNCHANGED <<promises, lane, clientSide, lists, service, updateMutex, loop,
                 ownerSide>>

\* The pump calls update() if it reads running_ set; it ends when told to.
PumpTick ==
  /\ lane = "android" /\ FrameMayBegin
  /\ owner.pumping
  /\ running
  /\ frames' = [frames EXCEPT !.pc = "lock"]
  /\ UNCHANGED <<promises, lane, clientSide, lists, service, mutexes, loop,
                 ownerSide>>

PumpEnds ==
  /\ lane = "android" /\ frames.pc = "idle"
  /\ ~owner.pumping
  /\ frames' = [frames EXCEPT !.pc = "off"]
  /\ UNCHANGED <<promises, lane, clientSide, lists, service, mutexes, loop,
                 ownerSide>>

\* Compositor::update: updateMutex_, and inside it connMutex_.
BeginUpdate ==
  /\ frames.pc = "lock" /\ updateMutex = Free
  /\ updateMutex' = "frames"
  /\ frames' = [frames EXCEPT !.pc = "lists"]
  /\ UNCHANGED <<promises, lane, clientSide, lists, service, connMutex, loop,
                 ownerSide>>

\* Wrong variant: the list is visited without its lock.
BeginPresentUnlocked ==
  /\ frames.pc = "lists"
  /\ frames' = [frames EXCEPT !.pc = "present", !.todo = connections]
  /\ UNCHANGED <<promises, lane, clientSide, lists, service, mutexes, loop,
                 ownerSide>>

BeginPresent ==
  /\ frames.pc = "lists" /\ connMutex = Free
  /\ connMutex' = "frames"
  /\ frames' = [frames EXCEPT !.pc = "present", !.todo = connections]
  /\ UNCHANGED <<promises, lane, clientSide, lists, service, updateMutex, loop,
                 ownerSide>>

EndUpdate ==
  /\ frames.pc = "present" /\ frames.todo = {}
  /\ updateMutex' = Free /\ connMutex' = Free
  /\ frames' = Rest
  /\ UNCHANGED <<promises, lane, clientSide, lists, service, loop, ownerSide>>

\* An input event between frames: seatConn() follows the seat's pointer
\* before it takes the lock, and the event goes to it under the lock.
Click ==
  /\ lane = "mod" /\ FrameMayBegin
  /\ active /\ seatConn # NoConn
  /\ frames' = [frames EXCEPT !.pc = "click", !.at = seatConn]
  /\ UNCHANGED <<promises, lane, clientSide, lists, service, mutexes, loop,
                 ownerSide>>

Inject ==
  /\ frames.pc = "click" /\ updateMutex = Free
  /\ frames' = Rest
  /\ UNCHANGED <<promises, lane, clientSide, lists, service, mutexes, loop,
                 ownerSide>>

----------------------------------------------------------------------------
(* Enabling and disabling.                                                 *)

\* A State: nothing is left in it of an earlier compositor.
LoadMod ==
  /\ lane = "mod" /\ owner.pc = "unloaded"
  /\ requests' = <<>> /\ seatConn' = NoConn
  /\ owner' = [owner EXCEPT !.pc = "disabled"]
  /\ UNCHANGED <<promises, lane, clientSide, connections, alive, service,
                 mutexes, loop, frames, scans>>

\* A bridge. The compositor is a part of the static mod.
LoadAndroid ==
  /\ lane = "android" /\ owner.pc = "unloaded"
  /\ owner' = [owner EXCEPT !.pc = "disabled"]
  /\ UNCHANGED <<promises, lane, clientSide, lists, service, mutexes, loop,
                 frames, scans>>

\* The compositor's destructor shuts it down, which a disabled one is.
Unload ==
  /\ owner.pc = "disabled"
  /\ Promised("scanned") => scans = 0
  /\ owner' = [owner EXCEPT !.pc = "unloaded"]
  /\ UNCHANGED <<promises, lane, clientSide, lists, service, mutexes, loop,
                 frames, scans>>

\* Either listener may fail to bind.
Setups == SUBSET Listeners

\* Compositor::start: without any listener it fails.
StartCompositor(opened) ==
  /\ listeners' = opened
  /\ running' = (opened # {})
  /\ active' = (opened # {})
  /\ loop' = IF opened # {} THEN [Off EXCEPT !.pc = "check"] ELSE loop

MayEnable ==
  /\ owner.pc = "disabled"
  /\ owner.enables < (IF Promised("once") THEN 1 ELSE MaxEnables)

Enabled(pumping) ==
  owner' = [pc |-> "enabled", pumping |-> pumping, enables |-> owner.enables + 1]

\* The hooks are installed whether the compositor runs or not.
EnableMod(opened) ==
  /\ lane = "mod" /\ MayEnable
  /\ StartCompositor(opened)
  /\ frames' = Rest
  /\ Enabled(FALSE)
  /\ UNCHANGED <<promises, lane, clientSide, lists, capturing, mutexes, scans>>

PumpStarts == frames' = Rest

\* So is the pump started, and a scan that nobody waits for.
EnableAndroid(opened) ==
  /\ lane = "android" /\ MayEnable
  /\ StartCompositor(opened)
  /\ PumpStarts
  /\ scans' = scans + 1
  /\ Enabled(TRUE)
  /\ UNCHANGED <<promises, lane, clientSide, lists, capturing, mutexes>>

ScanEnds ==
  /\ scans > 0
  /\ scans' = scans - 1
  /\ UNCHANGED <<promises, lane, clientSide, lists, service, mutexes, loop,
                 frames, owner>>

\* capture_->stop(): a service that was configured, and bound its port, has
\* an accept thread unless accept failed. The android mod starts the service
\* only beside a compositor that runs.
StopCapture == capturing' \in {FALSE, lane = "mod" \/ running}

\* Hooks are removed between frames; the pump is told to end.
Disable ==
  /\ owner.pc = "enabled"
  /\ lane = "mod" => frames.pc = "idle"
  /\ owner' = [owner EXCEPT !.pc = "stopping", !.pumping = FALSE]
  /\ frames' = IF lane = "mod" THEN [frames EXCEPT !.pc = "off"] ELSE frames
  /\ StopCapture
  /\ UNCHANGED <<promises, lane, clientSide, lists, running, active, listeners,
                 mutexes, loop, scans>>

\* Another connection wakes the accept thread and its sessions end; nothing in
\* the code makes them.
CaptureEnds ==
  /\ capturing
  /\ capturing' = FALSE
  /\ UNCHANGED <<promises, lane, clientSide, lists, running, active, listeners,
                 mutexes, threads>>

\* Wrong variant: running_ stays set.
BeginShutdownRunning ==
  /\ owner.pc = "stopping" /\ frames.pc = "off" /\ ~capturing
  /\ active' = FALSE
  /\ owner' = [owner EXCEPT !.pc = IF running THEN "joining" ELSE "disabled"]
  /\ UNCHANGED <<promises, lane, clientSide, lists, running, listeners,
                 capturing, mutexes, loop, frames, scans>>

\* The pump has been joined, and so has the accept thread of the capture
\* service by its stop(). Shutdown returns at once when nothing runs.
BeginShutdown ==
  /\ owner.pc = "stopping" /\ frames.pc = "off" /\ ~capturing
  /\ running' = FALSE /\ active' = FALSE
  /\ owner' = [owner EXCEPT !.pc = IF running THEN "joining" ELSE "disabled"]
  /\ UNCHANGED <<promises, lane, clientSide, lists, listeners, capturing,
                 mutexes, loop, frames, scans>>

\* Wrong variant: the loop is left to end by itself.
JoinLoopNever ==
  /\ owner.pc = "joining"
  /\ owner' = [owner EXCEPT !.pc = "clearing"]
  /\ UNCHANGED <<promises, lane, clientSide, lists, service, mutexes, loop,
                 frames, scans>>

JoinLoop ==
  /\ owner.pc = "joining" /\ loop.pc = "ended"
  /\ loop' = Off
  /\ owner' = [owner EXCEPT !.pc = "clearing"]
  /\ UNCHANGED <<promises, lane, clientSide, lists, service, mutexes, frames,
                 scans>>

\* The list is cleared and the listeners close, with those still knocking.
\* Requests, the seat and displays keep their pointers.
Clear ==
  /\ owner.pc = "clearing" /\ connMutex = Free
  /\ connections' = {}
  /\ listeners' = {}
  /\ knocking' = [l \in Listeners |-> {}]
  /\ owner' = [owner EXCEPT !.pc = "disabled"]
  /\ UNCHANGED <<promises, lane, outside, left, alive, requests, seatConn,
                 running, active, capturing, mutexes, loop, frames, scans>>

----------------------------------------------------------------------------
ClientStep == \E c \in Conns : Leave(c) \/ \E l \in Listeners : Connect(c, l)

\* The steps of the loop that wait for a mutex, and the others.
LoopLocks ==
  \/ CheckRunning \/ BeginDispatch \/ ReapClosed
  \/ \E c \in Conns : Accept(c) \/ TakeConnection(c)

LoopStep ==
  \/ LoopLocks \/ PollFails \/ NoMoreToAccept \/ NoneReady
  \/ ReadEnds \/ ReadGets \/ PushRequest \/ BindSeat
  \/ \E ready \in SUBSET (Listeners \cup Conns) : Poll(ready)
  \/ \E l \in Listeners : TakeListener(l)
  \/ \E error \in BOOLEAN : EndDispatch(error)

FrameBegins == DrainRequests \/ PumpTick \/ Click

FrameGoesOn ==
  \/ HandleRequest \/ HandledRequest \/ BeginSync \/ EndSync \/ PumpEnds
  \/ BeginUpdate \/ BeginPresent \/ EndUpdate \/ Inject
  \/ \E c \in Conns : Visit(c)

ShutdownGoesOn == BeginShutdown \/ JoinLoop \/ Clear

OwnerStep ==
  \/ LoadMod \/ LoadAndroid \/ Unload
  \/ \E opened \in Setups : EnableMod(opened) \/ EnableAndroid(opened)
  \/ Disable \/ ShutdownGoesOn

Next ==
  \/ ClientStep \/ LoopStep \/ FrameBegins \/ FrameGoesOn
  \/ OwnerStep \/ ScanEnds \/ CaptureEnds

(***************************************************************************)
(* Each thread goes on with what it has begun; none has to begin a frame,  *)
(* to disable or to enable, and the accept thread of the capture service   *)
(* need not end. A mutex that is free again and again is got in the end:   *)
(* the other thread holds it for a part of a frame and sleeps for the rest.*)
(***************************************************************************)
Fairness ==
  /\ WF_vars(LoopStep) /\ SF_vars(LoopLocks)
  /\ WF_vars(FrameGoesOn) /\ SF_vars(BeginSync \/ BeginUpdate \/ BeginPresent \/ Inject)
  /\ WF_vars(ShutdownGoesOn)

Spec == Init /\ [][Next]_vars /\ Fairness

----------------------------------------------------------------------------
(* Properties.                                                             *)

TypeOK ==
  /\ promises \in Worlds /\ lane \in Lanes
  /\ {running, active, capturing} \subseteq BOOLEAN
  /\ listeners \subseteq Listeners
  /\ alive \subseteq Conns /\ connections \subseteq Conns
  /\ outside \subseteq Conns /\ left \subseteq Conns
  /\ knocking \in [Listeners -> SUBSET Conns]
  /\ requests \in Seq(Conns)
  /\ seatConn \in Conns \cup {NoConn}
  /\ updateMutex \in Threads \cup {Free} /\ connMutex \in {"frames", Free}
  /\ loop \in Loop /\ frames \in Frames /\ owner \in Owner /\ scans \in Nat

(***************************************************************************)
(* A thread follows a pointer to a connection only while the connection is *)
(* listed, and so not destroyed. It holds of the event loop and of visits  *)
(* to the list whatever clients do: only the loop erases, and shutdown     *)
(* clears after both threads ended. The pointers in requests and the seat  *)
(* outlive their connection: they are followed safely by a game whose      *)
(* clients do not end just then. And a presentation meets no handler at    *)
(* work, which updateMutex_ is for (Server.h:166). Reconciling displays and*)
(* answering requests may meet one: they do not take it. The bridge a scan *)
(* uses is there for a loader that waits for the scan.                     *)
(***************************************************************************)
NoDanglingUse ==
  /\ loop.at \in Conns => loop.at \in connections
  /\ frames.at # NoConn =>
       \/ frames.at \in connections
       \/ frames.pc \in {"follow", "click"}
          /\ ~(Promised("stays") /\ Promised("once"))
  /\ ~(frames.pc = "present" /\ loop.pc = "dispatch")
  /\ Promised("scanned") /\ scans > 0 => owner.pc # "unloaded"

(***************************************************************************)
(* Once disabled nothing is left running but a scan: no thread, no listener*)
(* and no connection, no capture service, no mutex held, and the injection *)
(* calls find no compositor.                                               *)
(***************************************************************************)
OffIsOff ==
  owner.pc \in {"disabled", "unloaded"} =>
    /\ loop = Off /\ frames.pc = "off"
    /\ connections = {} /\ listeners = {}
    /\ ~running /\ ~active /\ ~capturing
    /\ updateMutex = Free /\ connMutex = Free

(***************************************************************************)
(* disable() returns where no capture service runs, or once its stop() has *)
(* returned: neither the pump nor the loop it joins is stuck, on a mutex or*)
(* otherwise, whatever it was doing, and the loop sees running_ even when  *)
(* clients keep it busy. That stop() may never return is in Capture.       *)
(***************************************************************************)
ShutdownReturns == owner.pc = "stopping" /\ ~capturing ~> owner.pc = "disabled"
=============================================================================
