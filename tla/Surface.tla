------------------------------ MODULE Surface ------------------------------
(***************************************************************************)
(* Objects, surfaces, shm buffers and frame callbacks of one client        *)
(* connection: compositor/Surface.cpp over the object table of             *)
(* compositor/Client.cpp.                                                  *)
(*                                                                         *)
(* The event-loop thread runs the request handlers, the game thread        *)
(* presents frames; both do so under updateMutex_, so a request is one     *)
(* step and is blocked while a presentation is under way (presenting # {}).*)
(* Every sendEvent of a presentation is a step of its own, because the     *)
(* event loop may flush, and the client read, between two of them.         *)
(*                                                                         *)
(* The output buffer and the socket are one FIFO queue of events, `out';   *)
(* the client side keeps what a Wayland client library keeps: the ids it   *)
(* may allocate, the buffers it lent and the callbacks it awaits.          *)
(***************************************************************************)
EXTENDS Naturals, FiniteSets, SequencesExt

CONSTANTS
  Ids,       \* object ids the client allocates from
  NoId,      \* the null id 0
  Limit,     \* bound: most objects of each kind alive at once
  MaxSize,   \* bound: shm pool sizes and buffer extents are 1..MaxSize
  Promises   \* what the client keeps to, a subset of AllPromises

Kinds == {"surface", "pool", "buffer", "callback", "subsurface", "viewport",
          "region"}

(***************************************************************************)
(* wellFormed  sends no request the handlers reject outright, and resizes  *)
(*             a pool, as the protocol has it, only to a larger one        *)
(* paced       one frame at a time: every commit carries a frame callback  *)
(*             and the next one waits for its done                         *)
(* waitsRelease  neither attaches nor destroys a buffer that is attached   *)
(*             or lent                                                     *)
(* rolesFirst  destroys subsurfaces and viewports before their surface     *)
(***************************************************************************)
AllPromises == {"wellFormed", "paced", "waitsRelease", "rolesFirst"}

ASSUME NoIdAssumption == NoId \notin Ids
ASSUME LimitAssumption == Limit \in [Kinds -> Nat]
ASSUME MaxSizeAssumption == MaxSize \in Nat \ {0}
ASSUME PromisesAssumption == Promises \subseteq AllPromises

VARIABLES
  objects,     \* objects_: id -> the kind of its object, or "none"
  userData,    \* userData_: id -> type-tagged state
  link,        \* surface captured by a subsurface or in viewportOwners_
  alive,       \* alive_
  presenting,  \* surfaces the game thread has still to visit in update()
  out,         \* events queued to or in flight to the client
  free,        \* client: ids it may allocate
  lent,        \* client: buffers committed and not yet released to it
  frameOf      \* client: callback -> the surface it was requested on

serverVars == <<objects, userData, link, alive, presenting>>
clientVars == <<free, lent, frameOf>>
vars == <<objects, userData, link, alive, presenting, out, free, lent, frameOf>>

----------------------------------------------------------------------------
(* State.                                                                  *)

IdOrNull == Ids \cup {NoId}

Nothing == [tag |-> "none"]

SurfaceState == [tag : {"SurfaceState"},
                 role : {"none", "subsurface"},
                 pendingBuffer : IdOrNull,
                 bufferCleared : BOOLEAN,
                 pendingFrames : Seq(Ids),
                 committedBuffer : IdOrNull,
                 committedFrames : Seq(Ids)]

ShmPool == [tag : {"ShmPool"}, size : 1..MaxSize]

\* pool = NoId is a single-pixel buffer.
ShmBuffer == [tag : {"ShmBuffer"}, pool : IdOrNull, extent : 1..MaxSize,
              released : BOOLEAN]

UserData == {Nothing} \cup SurfaceState \cup ShmPool \cup ShmBuffer

Done(i) == [type |-> "done", id |-> i]
DeleteId(i) == [type |-> "delete_id", id |-> i]
Release(i) == [type |-> "release", id |-> i]
Error == [type |-> "error", id |-> NoId]

Events == [type : {"done", "delete_id", "release"}, id : Ids] \cup {Error}

NewSurfaceState == [tag |-> "SurfaceState", role |-> "none",
                    pendingBuffer |-> NoId, bufferCleared |-> FALSE,
                    pendingFrames |-> <<>>, committedBuffer |-> NoId,
                    committedFrames |-> <<>>]

IsSurfaceState(i) == userData[i].tag = "SurfaceState"
IsShmBuffer(i) == i # NoId /\ userData[i].tag = "ShmBuffer"

\* makeUserData<SurfaceState>: the slot's state, replaced by a fresh one
\* when the slot is empty or holds another type.
MadeState(i) == IF IsSurfaceState(i) THEN userData[i] ELSE NewSurfaceState

\* The picture a surface shows: its committed buffer, if that resolves.
Resolves(b) ==
  /\ IsShmBuffer(b)
  /\ LET buf == userData[b] IN
       \/ buf.pool = NoId
       \/ /\ userData[buf.pool].tag = "ShmPool"
          /\ buf.extent <= userData[buf.pool].size

Shown(i) ==
  IF IsSurfaceState(i) /\ Resolves(userData[i].committedBuffer)
  THEN userData[i].committedBuffer
  ELSE NoId

Init ==
  /\ objects = [i \in Ids |-> "none"]
  /\ userData = [i \in Ids |-> Nothing]
  /\ link = [i \in Ids |-> NoId]
  /\ alive = TRUE
  /\ presenting = {}
  /\ out = <<>>
  /\ free = Ids
  /\ lent = {}
  /\ frameOf = [i \in Ids |-> NoId]

----------------------------------------------------------------------------
(* Steps of the object table.                                              *)

\* processIncoming runs handlers while the connection lives, under
\* updateMutex_.
Dispatching == alive /\ presenting = {}

Live(k) == {i \in Ids : objects[i] = k}

\* A new_id argument: the client picks an id it may allocate.
Allocate(i, k) ==
  /\ i \in free
  /\ Cardinality(Live(k)) < Limit[k]
  /\ objects' = [objects EXCEPT ![i] = k]
  /\ free' = free \ {i}

\* Wrong variant: the object goes, its user data stays.
DestroyKeepingData(i) ==
  /\ objects' = [objects EXCEPT ![i] = "none"]
  /\ out' = Append(out, DeleteId(i))
  /\ UNCHANGED userData

\* destroyObject: object and user data go, delete_id is queued.
DestroyObject(i) ==
  /\ objects' = [objects EXCEPT ![i] = "none"]
  /\ userData' = [userData EXCEPT ![i] = Nothing]
  /\ out' = Append(out, DeleteId(i))

\* sendError: the error event is queued, then the connection is dead.
SendError ==
  /\ alive' = FALSE
  /\ out' = Append(out, Error)

----------------------------------------------------------------------------
(* Requests, on the event-loop thread.                                     *)

CreateSurface(s) ==
  /\ Dispatching
  /\ Allocate(s, "surface")
  /\ userData' = [userData EXCEPT ![s] = MadeState(s)]
  /\ UNCHANGED <<link, alive, presenting, out, lent, frameOf>>

DestroySurface(s) ==
  /\ Dispatching
  /\ objects[s] = "surface"
  /\ "rolesFirst" \in Promises =>
       \A i \in Live("subsurface") \cup Live("viewport") : link[i] # s
  /\ "paced" \in Promises => \A c \in Ids : frameOf[c] # s
  /\ DestroyObject(s)
  /\ UNCHANGED <<link, alive, presenting, clientVars>>

CreatePool(p, size) ==
  /\ Dispatching
  /\ Allocate(p, "pool")
  /\ userData' = [userData EXCEPT ![p] = [tag |-> "ShmPool", size |-> size]]
  /\ UNCHANGED <<link, alive, presenting, out, lent, frameOf>>

\* resizeTo acts on the pool the handler captured; a slot that holds other
\* state keeps it. Any positive size will do, a smaller one too.
ResizePool(p, size) ==
  /\ Dispatching
  /\ objects[p] = "pool"
  /\ userData[p].tag = "ShmPool"
  /\ "wellFormed" \in Promises => size > userData[p].size
  /\ userData' = [userData EXCEPT ![p].size = size]
  /\ UNCHANGED <<objects, link, alive, presenting, out, clientVars>>

DestroyPool(p) ==
  /\ Dispatching
  /\ objects[p] = "pool"
  /\ DestroyObject(p)
  /\ UNCHANGED <<link, alive, presenting, clientVars>>

CreateBuffer(p, b, extent) ==
  /\ Dispatching
  /\ objects[p] = "pool"
  /\ "wellFormed" \in Promises =>
       userData[p].tag = "ShmPool" /\ extent <= userData[p].size
  /\ Allocate(b, "buffer")
  /\ userData' = [userData EXCEPT
       ![b] = [tag |-> "ShmBuffer", pool |-> p, extent |-> extent,
               released |-> TRUE]]
  /\ UNCHANGED <<link, alive, presenting, out, lent, frameOf>>

CreateSinglePixelBuffer(b) ==
  /\ Dispatching
  /\ Allocate(b, "buffer")
  /\ userData' = [userData EXCEPT
       ![b] = [tag |-> "ShmBuffer", pool |-> NoId, extent |-> 1,
               released |-> FALSE]]
  /\ UNCHANGED <<link, alive, presenting, out, lent, frameOf>>

AttachedSomewhere(b) ==
  \E s \in Ids : IsSurfaceState(s) /\ userData[s].pendingBuffer = b

\* A client that waits for release leaves the buffer alone until then.
ClientMayUse(b) ==
  "waitsRelease" \in Promises => b \notin lent /\ ~AttachedSomewhere(b)

DestroyBuffer(b) ==
  /\ Dispatching
  /\ objects[b] = "buffer"
  /\ ClientMayUse(b)
  /\ DestroyObject(b)
  /\ lent' = lent \ {b}
  /\ UNCHANGED <<link, alive, presenting, free, frameOf>>

Attachable(b) == b = NoId \/ (b \in Live("buffer") /\ ClientMayUse(b))

Attached(s, b) ==
  [userData EXCEPT ![s] = [MadeState(s) EXCEPT !.pendingBuffer = b,
                                               !.bufferCleared = (b = NoId)]]

Attach(s, b) ==
  /\ Dispatching
  /\ objects[s] = "surface"
  /\ Attachable(b)
  /\ userData' = Attached(s, b)
  /\ UNCHANGED <<objects, link, alive, presenting, out, clientVars>>

\* attach with a non-zero offset: stored, then refused.
AttachWithOffset(s, b) ==
  /\ Dispatching
  /\ "wellFormed" \notin Promises
  /\ objects[s] = "surface"
  /\ Attachable(b)
  /\ userData' = Attached(s, b)
  /\ SendError
  /\ UNCHANGED <<objects, link, presenting, clientVars>>

\* damage, the regions, the buffer's transform, scale and offset: the handler
\* first makes the surface's state; nothing here reads what it then stores.
StoreValue(s) ==
  /\ Dispatching
  /\ objects[s] = "surface"
  /\ userData' = [userData EXCEPT ![s] = MadeState(s)]
  /\ UNCHANGED <<objects, link, alive, presenting, out, clientVars>>

\* Regions accept every rectangle and keep none.
CreateRegion(r) ==
  /\ Dispatching
  /\ Allocate(r, "region")
  /\ UNCHANGED <<userData, link, alive, presenting, out, lent, frameOf>>

DestroyRegion(r) ==
  /\ Dispatching
  /\ objects[r] = "region"
  /\ DestroyObject(r)
  /\ UNCHANGED <<link, alive, presenting, clientVars>>

Frame(s, cb) ==
  /\ Dispatching
  /\ objects[s] = "surface"
  /\ Allocate(cb, "callback")
  /\ userData' = [userData EXCEPT
       ![s] = [MadeState(s) EXCEPT !.pendingFrames = Append(@, cb)]]
  /\ frameOf' = [frameOf EXCEPT ![cb] = s]
  /\ UNCHANGED <<link, alive, presenting, out, lent>>

\* The buffer a commit of s takes: none after attach(NULL) or no attach.
CommitBuffer(s) ==
  IF MadeState(s).bufferCleared THEN NoId ELSE MadeState(s).pendingBuffer

\* Wrong variant: the moved-from list of callbacks is not cleared.
SnapshotKeepingFrames(s) ==
  [MadeState(s) EXCEPT !.committedBuffer = CommitBuffer(s),
                       !.bufferCleared = FALSE,
                       !.pendingBuffer = NoId,
                       !.committedFrames = MadeState(s).pendingFrames]

Snapshot(s) ==
  [MadeState(s) EXCEPT !.committedBuffer = CommitBuffer(s),
                       !.bufferCleared = FALSE,
                       !.pendingBuffer = NoId,
                       !.committedFrames = MadeState(s).pendingFrames,
                       !.pendingFrames = <<>>]

Commit(s) ==
  LET b == CommitBuffer(s) IN
  /\ Dispatching
  /\ objects[s] = "surface"
  /\ "paced" \in Promises =>
       /\ MadeState(s).pendingFrames # <<>>
       /\ {c \in Ids : frameOf[c] = s} = ToSet(MadeState(s).pendingFrames)
  /\ userData' = [i \in Ids |->
       IF i = s THEN Snapshot(s)
       ELSE IF i = b /\ IsShmBuffer(b)
            THEN [userData[b] EXCEPT !.released = FALSE]
            ELSE userData[i]]
  /\ lent' = IF b # NoId /\ objects[b] = "buffer" THEN lent \cup {b} ELSE lent
  /\ UNCHANGED <<objects, link, alive, presenting, out, free, frameOf>>

GetSubsurface(ss, s) ==
  /\ Dispatching
  /\ objects[s] = "surface"
  /\ MadeState(s).role = "none"
  /\ Allocate(ss, "subsurface")
  /\ userData' = [userData EXCEPT ![s] = [MadeState(s) EXCEPT !.role = "subsurface"]]
  /\ link' = [link EXCEPT ![ss] = s]
  /\ UNCHANGED <<alive, presenting, out, lent, frameOf>>

\* A second role for a surface is a protocol error.
GetSubsurfaceTwice(s) ==
  /\ Dispatching
  /\ objects[s] = "surface"
  /\ MadeState(s).role # "none"
  /\ "wellFormed" \in Promises => \A i \in Live("subsurface") : link[i] # s
  /\ SendError
  /\ UNCHANGED <<objects, userData, link, presenting, clientVars>>

\* set_position, place_above, place_below, set_sync, set_desync: the
\* handler first makes the surface's state.
SubsurfaceRequest(ss) ==
  /\ Dispatching
  /\ objects[ss] = "subsurface"
  /\ userData' = [userData EXCEPT ![link[ss]] = MadeState(link[ss])]
  /\ UNCHANGED <<objects, link, alive, presenting, out, clientVars>>

\* Wrong variant: the surface keeps its role.
DestroySubsurfaceKeepingRole(ss) ==
  /\ Dispatching
  /\ objects[ss] = "subsurface"
  /\ DestroyObject(ss)
  /\ link' = [link EXCEPT ![ss] = NoId]
  /\ UNCHANGED <<alive, presenting, clientVars>>

DestroySubsurface(ss) ==
  /\ Dispatching
  /\ objects[ss] = "subsurface"
  /\ objects' = [objects EXCEPT ![ss] = "none"]
  /\ userData' = [userData EXCEPT
       ![link[ss]] = [MadeState(link[ss]) EXCEPT !.role = "none"],
       ![ss] = Nothing]
  /\ out' = Append(out, DeleteId(ss))
  /\ link' = [link EXCEPT ![ss] = NoId]
  /\ UNCHANGED <<alive, presenting, clientVars>>

GetViewport(vp, s) ==
  /\ Dispatching
  /\ objects[s] = "surface"
  /\ Allocate(vp, "viewport")
  /\ link' = [link EXCEPT ![vp] = s]
  /\ UNCHANGED <<userData, alive, presenting, out, lent, frameOf>>

\* handleViewport refuses every request, destroy included, once the
\* surface's state is gone.
DestroyViewport(vp) ==
  /\ Dispatching
  /\ objects[vp] = "viewport"
  /\ IF IsSurfaceState(link[vp])
     THEN DestroyObject(vp) /\ UNCHANGED alive
     ELSE SendError /\ UNCHANGED <<objects, userData>>
  /\ UNCHANGED <<link, presenting, clientVars>>

----------------------------------------------------------------------------
(* Presentation, on the game thread.                                       *)

Committed(i) == IF IsSurfaceState(i) THEN userData[i].committedFrames ELSE <<>>

\* Wrong variant: only surfaces with a buffer are visited.
BeginPresentContent ==
  /\ Dispatching
  /\ presenting' = {i \in Ids : Committed(i) # <<>> /\ Shown(i) # NoId}
  /\ UNCHANGED <<objects, userData, link, alive, out, clientVars>>

\* Wrong variant: the callback is erased without destroyObject.
PresentDoneErasing(s) ==
  LET cb == Head(Committed(s)) IN
  /\ s \in presenting
  /\ Committed(s) # <<>>
  /\ objects' = [objects EXCEPT ![cb] = "none"]
  /\ userData' = [userData EXCEPT ![s].committedFrames = Tail(@)]
  /\ out' = Append(out, Done(cb))
  /\ UNCHANGED <<link, alive, presenting, clientVars>>

\* Wrong variant: the callback is destroyed before its done is sent.
PresentDoneDestroyFirst(s) ==
  LET cb == Head(Committed(s)) IN
  /\ s \in presenting
  /\ Committed(s) # <<>>
  /\ objects' = [objects EXCEPT ![cb] = "none"]
  /\ userData' = [userData EXCEPT ![s].committedFrames = Tail(@)]
  /\ out' = Append(Append(out, DeleteId(cb)), Done(cb))
  /\ UNCHANGED <<link, alive, presenting, clientVars>>

\* Wrong variant: release is sent without looking the buffer up.
PresentReleaseBlindly(s) ==
  /\ s \in presenting
  /\ Committed(s) = <<>>
  /\ out' = Append(out, Release(userData[s].committedBuffer))
  /\ presenting' = presenting \ {s}
  /\ UNCHANGED <<objects, userData, link, alive, clientVars>>

\* Wrong variant: the buffer is released but still marked in use.
PresentReleaseUnmarked(s) ==
  LET b == userData[s].committedBuffer IN
  /\ s \in presenting
  /\ Committed(s) = <<>>
  /\ out' = IF IsShmBuffer(b) /\ ~userData[b].released
            THEN Append(out, Release(b)) ELSE out
  /\ presenting' = presenting \ {s}
  /\ UNCHANGED <<objects, userData, link, alive, clientVars>>

\* presentFrameCallbacks collects the surfaces that await a frame ...
BeginPresent ==
  /\ Dispatching
  /\ presenting' = {i \in Ids : objects[i] # "none" /\ Committed(i) # <<>>}
  /\ UNCHANGED <<objects, userData, link, alive, out, clientVars>>

\* ... sends done to each of their callbacks, which dies with it ...
PresentDone(s) ==
  LET cb == Head(Committed(s)) IN
  /\ s \in presenting
  /\ Committed(s) # <<>>
  /\ objects' = [objects EXCEPT ![cb] = "none"]
  /\ userData' = [userData EXCEPT ![s].committedFrames = Tail(@), ![cb] = Nothing]
  /\ out' = IF objects[cb] # "none"
            THEN Append(Append(out, Done(cb)), DeleteId(cb))
            ELSE Append(out, Done(cb))
  /\ UNCHANGED <<link, alive, presenting, clientVars>>

\* ... and releases the buffer the surface was committed with.
PresentRelease(s) ==
  LET b == userData[s].committedBuffer IN
  /\ s \in presenting
  /\ Committed(s) = <<>>
  /\ IF IsShmBuffer(b) /\ ~userData[b].released
     THEN /\ userData' = [userData EXCEPT ![b].released = TRUE]
          /\ out' = Append(out, Release(b))
     ELSE UNCHANGED <<userData, out>>
  /\ presenting' = presenting \ {s}
  /\ UNCHANGED <<objects, link, alive, clientVars>>

----------------------------------------------------------------------------
(* The client reads one event.                                             *)

Receive ==
  /\ alive
  /\ out # <<>>
  /\ out' = Tail(out)
  /\ LET e == Head(out) IN
       /\ free' = IF e.type = "delete_id" THEN free \cup {e.id} ELSE free
       /\ lent' = IF e.type = "release" THEN lent \ {e.id} ELSE lent
       /\ frameOf' = IF e.type = "done" THEN [frameOf EXCEPT ![e.id] = NoId]
                     ELSE frameOf
  /\ UNCHANGED serverVars

----------------------------------------------------------------------------
SurfaceRequest(s) ==
  \/ CreateSurface(s)
  \/ DestroySurface(s)
  \/ \E b \in IdOrNull : Attach(s, b)
  \/ \E b \in IdOrNull : AttachWithOffset(s, b)
  \/ \E cb \in Ids : Frame(s, cb)
  \/ StoreValue(s)
  \/ CreateRegion(s)
  \/ DestroyRegion(s)
  \/ Commit(s)

ShmRequest(p) ==
  \/ \E n \in 1..MaxSize : CreatePool(p, n)
  \/ \E n \in 1..MaxSize : ResizePool(p, n)
  \/ DestroyPool(p)
  \/ \E b \in Ids, n \in 1..MaxSize : CreateBuffer(p, b, n)
  \/ CreateSinglePixelBuffer(p)
  \/ DestroyBuffer(p)

RoleRequest(i) ==
  \/ \E s \in Ids : GetSubsurface(i, s)
  \/ GetSubsurfaceTwice(i)
  \/ SubsurfaceRequest(i)
  \/ DestroySubsurface(i)
  \/ \E s \in Ids : GetViewport(i, s)
  \/ DestroyViewport(i)

Present(s) == PresentDone(s) \/ PresentRelease(s)

Next ==
  \/ \E i \in Ids : SurfaceRequest(i)
  \/ \E i \in Ids : ShmRequest(i)
  \/ \E i \in Ids : RoleRequest(i)
  \/ BeginPresent
  \/ \E s \in Ids : Present(s)
  \/ Receive

Spec == Init /\ [][Next]_vars

\* The game calls update() on every rendered frame, the event loop flushes
\* on every poll tick, and the client reads its socket.
Fairness ==
  /\ WF_vars(BeginPresent)
  /\ WF_vars(\E s \in Ids : Present(s))
  /\ WF_vars(Receive)

FairSpec == Spec /\ Fairness

----------------------------------------------------------------------------
(* Properties.                                                             *)

\* Every variable holds a value of its type.
TypeOK ==
  /\ objects \in [Ids -> Kinds \cup {"none"}]
  /\ userData \in [Ids -> UserData]
  /\ link \in [Ids -> IdOrNull]
  /\ alive \in BOOLEAN
  /\ presenting \subseteq Ids
  /\ out \in Seq(Events)
  /\ free \subseteq Ids
  /\ lent \subseteq Ids
  /\ frameOf \in [Ids -> IdOrNull]

\* The positions in the queue of delete_id events for i.
Deletions(i) == {k \in DOMAIN out : out[k] = DeleteId(i)}

\* Every id is in exactly one place, which is what wl_display.delete_id is
\* for: it names a live object, or its one delete_id is on the way, or the
\* client may allocate it.
IdConservation ==
  \A i \in Ids :
    /\ i \in free => objects[i] = "none"
    /\ i \in free \/ objects[i] # "none" => Deletions(i) = {}
    /\ i \in free \/ objects[i] # "none" \/ Deletions(i) # {}
    /\ \A j, k \in Deletions(i) : j = k

\* No event reaches an object after the delete_id that retires its id.
NoEventAfterDelete ==
  \A j, k \in DOMAIN out :
    j < k /\ out[j].type = "delete_id" => out[k].id # out[j].id

Pending(i) == IF IsSurfaceState(i) THEN userData[i].pendingFrames ELSE <<>>

\* A callback listed for done is a live wl_callback, listed once: present
\* can neither signal it twice nor signal a recycled id.
FramesListedOnce ==
  \A s, t \in Ids :
    /\ \A k \in DOMAIN Pending(s) : objects[Pending(s)[k]] = "callback"
    /\ \A k \in DOMAIN Committed(s) : objects[Committed(s)[k]] = "callback"
    /\ ToSet(Pending(s)) \cap ToSet(Committed(t)) = {}
    /\ IsInjective(Pending(s)) /\ IsInjective(Committed(s))
    /\ s # t => /\ ToSet(Pending(s)) \cap ToSet(Pending(t)) = {}
                /\ ToSet(Committed(s)) \cap ToSet(Committed(t)) = {}

Releases(b) == {k \in DOMAIN out : out[k] = Release(b)}

\* A client that waits for release is owed exactly one release for each
\* buffer it lent: the buffer is still marked in use, or its release is on
\* the way, never both and never twice. (A single-pixel buffer starts out
\* marked in use.)
ReleaseOwedOnce ==
  \A b \in Live("buffer") :
    IsShmBuffer(b) =>
      IF b \in lent
      THEN Cardinality(Releases(b)) = IF userData[b].released THEN 1 ELSE 0
      ELSE /\ Releases(b) = {}
           /\ userData[b].pool # NoId => userData[b].released

\* User data has the type of the object it belongs to, and goes with it.
DataMatchesObject ==
  \A i \in Ids :
    /\ IsSurfaceState(i) <=> objects[i] = "surface"
    /\ (userData[i].tag = "ShmBuffer") <=> objects[i] = "buffer"
    /\ (userData[i].tag = "ShmPool") <=> objects[i] = "pool"

\* A client that sends only well-formed requests is never disconnected.
NeverKilled == alive

\* "stable until the client destroys the buffer or resizes the pool"
\* (Types.h): until then a buffer that a surface is committed with keeps its
\* picture.
ViewsAreStable ==
  [][\A s \in Ids :
       LET b == Shown(s) IN
       b # NoId => \/ Resolves(b)'
                   \/ objects'[b] # "buffer"
                   \/ \E n \in 1..MaxSize : ResizePool(userData[b].pool, n)]_vars

----------------------------------------------------------------------------
(* The frame pump implements its contract.                                 *)

PhaseOf(c) ==
  IF frameOf[c] = NoId THEN "idle"
  ELSE IF \E s \in Ids : c \in ToSet(Pending(s)) THEN "requested"
  ELSE "committed"

Contract == INSTANCE FrameContract WITH phase <- [c \in Ids |-> PhaseOf(c)]

\* The object table, the queue and the two threads together implement
\* FrameContract, its fairness included.
ImplementsContract == Contract!Spec
=============================================================================
