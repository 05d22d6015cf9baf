--------------------------- MODULE SurfaceProofs ---------------------------
(***************************************************************************)
(* Safety of the object table, of the frame pump and of buffers, for every *)
(* set of ids and every bound: first for every client (Promises is         *)
(* arbitrary), then for clients that keep the promises a theorem assumes.  *)
(***************************************************************************)
EXTENDS Surface, FiniteSetTheorems, TLAPS

----------------------------------------------------------------------------
(* The inductive invariant.                                                *)

\* Only a live wl_surface lists callbacks: state recreated for a destroyed
\* surface lists none.
FramesOnSurfaces ==
  \A s \in Ids :
    Pending(s) # <<>> \/ Committed(s) # <<>> => objects[s] = "surface"

\* While the game thread presents, the surfaces it collected stay.
PresentingSurfaces ==
  \A s \in presenting : objects[s] = "surface" /\ IsSurfaceState(s)

\* A buffer that resolves is a live object, so release can name it.
BuffersAreLive ==
  \A b \in Ids : IsShmBuffer(b) => objects[b] = "buffer"

IInv ==
  /\ TypeOK
  /\ IdConservation
  /\ NoEventAfterDelete
  /\ FramesListedOnce
  /\ FramesOnSurfaces
  /\ PresentingSurfaces
  /\ BuffersAreLive

----------------------------------------------------------------------------
(* Types.                                                                  *)

\* What a type-tagged slot holds.
LEMMA TaggedData ==
  ASSUME TypeOK, NEW i \in Ids
  PROVE  /\ userData[i] \in UserData
         /\ IsSurfaceState(i) => userData[i] \in SurfaceState
         /\ userData[i].tag = "ShmPool" => userData[i] \in ShmPool
         /\ userData[i].tag = "ShmBuffer" => userData[i] \in ShmBuffer
BY DEF TypeOK, UserData, Nothing, SurfaceState, ShmPool, ShmBuffer, IsSurfaceState

LEMMA MadeStateType ==
  ASSUME TypeOK, NEW i \in Ids
  PROVE  MadeState(i) \in SurfaceState
BY TaggedData DEF MadeState, NewSurfaceState, SurfaceState, IdOrNull

\* The updates the handlers make to a surface's state keep its type.
LEMMA SurfaceUpdates ==
  ASSUME NEW m \in SurfaceState
  PROVE  /\ \A b \in IdOrNull :
              [m EXCEPT !.pendingBuffer = b, !.bufferCleared = (b = NoId)] \in SurfaceState
         /\ \A cb \in Ids : [m EXCEPT !.pendingFrames = Append(@, cb)] \in SurfaceState
         /\ \A q \in Seq(Ids) : [m EXCEPT !.committedFrames = q] \in SurfaceState
         /\ \A r \in {"none", "subsurface"} : [m EXCEPT !.role = r] \in SurfaceState
<1>1. \A cb \in Ids : Append(m.pendingFrames, cb) \in Seq(Ids)
  BY DEF SurfaceState
<1>2. \A b \in IdOrNull :
        [m EXCEPT !.pendingBuffer = b, !.bufferCleared = (b = NoId)] \in SurfaceState
  BY DEF SurfaceState
<1>3. \A cb \in Ids : [m EXCEPT !.pendingFrames = Append(@, cb)] \in SurfaceState
  BY <1>1 DEF SurfaceState
<1>4. \A q \in Seq(Ids) : [m EXCEPT !.committedFrames = q] \in SurfaceState
  BY DEF SurfaceState
<1>5. \A r \in {"none", "subsurface"} : [m EXCEPT !.role = r] \in SurfaceState
  BY DEF SurfaceState
<1> QED BY <1>2, <1>3, <1>4, <1>5

\* Lending and releasing keep a buffer's type.
LEMMA BufferUpdates ==
  ASSUME NEW buf \in ShmBuffer
  PROVE  /\ [buf EXCEPT !.released = TRUE] \in ShmBuffer
         /\ [buf EXCEPT !.released = FALSE] \in ShmBuffer
BY DEF ShmBuffer

LEMMA SnapshotType ==
  ASSUME TypeOK, NEW s \in Ids
  PROVE  /\ CommitBuffer(s) \in IdOrNull
         /\ Snapshot(s) \in SurfaceState
<1> DEFINE m == MadeState(s)
           b == CommitBuffer(s)
<1>1. m \in SurfaceState
  BY MadeStateType
<1>2. b \in IdOrNull
  BY <1>1 DEF CommitBuffer, SurfaceState, IdOrNull
<1>3. <<>> \in Seq(Ids)
  OBVIOUS
<1>4. Snapshot(s) =
        [m EXCEPT !.committedBuffer = b, !.bufferCleared = FALSE,
                  !.pendingBuffer = NoId, !.committedFrames = m.pendingFrames,
                  !.pendingFrames = <<>>]
  BY DEF Snapshot
<1> HIDE DEF m, b
<1>5. Snapshot(s) \in SurfaceState
  BY <1>1, <1>2, <1>3, <1>4 DEF SurfaceState, IdOrNull
<1> QED BY <1>2, <1>5 DEF b

\* The callback and the buffer a presentation step deals with.
LEMMA PresentedType ==
  ASSUME TypeOK, NEW s \in Ids
  PROVE  /\ Pending(s) \in Seq(Ids)
         /\ Committed(s) \in Seq(Ids)
         /\ Committed(s) # <<>> => /\ IsSurfaceState(s)
                                   /\ Head(Committed(s)) \in Ids
                                   /\ Tail(Committed(s)) \in Seq(Ids)
BY TaggedData DEF Committed, Pending, SurfaceState

LEMMA EventTypes ==
  ASSUME NEW i \in Ids
  PROVE  /\ Done(i) \in Events
         /\ DeleteId(i) \in Events
         /\ Release(i) \in Events
         /\ Error \in Events
BY DEF Done, DeleteId, Release, Error, Events

\* Queueing an event leaves a queue of events.
LEMMA QueueTypes ==
  ASSUME TypeOK, NEW i \in Ids
  PROVE  /\ Append(out, Error) \in Seq(Events)
         /\ Append(out, DeleteId(i)) \in Seq(Events)
         /\ Append(out, Release(i)) \in Seq(Events)
         /\ Append(out, Done(i)) \in Seq(Events)
         /\ Append(Append(out, Done(i)), DeleteId(i)) \in Seq(Events)
<1>1. \A q \in Seq(Events), e \in Events : Append(q, e) \in Seq(Events)
  OBVIOUS
<1> QED BY <1>1, EventTypes DEF TypeOK

LEMMA AllocateType ==
  ASSUME TypeOK, NEW i \in Ids, NEW k \in Kinds, Allocate(i, k)
  PROVE  /\ objects' \in [Ids -> Kinds \cup {"none"}]
         /\ free' \subseteq Ids
BY DEF TypeOK, Allocate

LEMMA DestroyObjectType ==
  ASSUME TypeOK, NEW i \in Ids, DestroyObject(i)
  PROVE  /\ objects' \in [Ids -> Kinds \cup {"none"}]
         /\ userData' \in [Ids -> UserData]
         /\ out' \in Seq(Events)
BY QueueTypes DEF TypeOK, DestroyObject, UserData

LEMMA SurfaceRequestType ==
  ASSUME TypeOK, NEW s \in Ids, SurfaceRequest(s)
  PROVE  TypeOK'
<1> USE DEF TypeOK
<1> {"surface", "callback", "region"} \subseteq Kinds
  BY DEF Kinds
<1>1. CASE CreateSurface(s)
  BY <1>1, AllocateType, MadeStateType DEF CreateSurface, UserData
<1>2. CASE DestroySurface(s)
  BY <1>2, DestroyObjectType DEF DestroySurface, clientVars
<1>3. ASSUME NEW b \in IdOrNull, Attach(s, b) \/ AttachWithOffset(s, b)
      PROVE  TypeOK'
  <2>1. Attached(s, b) \in [Ids -> UserData]
    BY MadeStateType, SurfaceUpdates DEF Attached, UserData
  <2>2. CASE Attach(s, b)
    BY <2>1, <2>2 DEF Attach, clientVars
  <2>3. CASE AttachWithOffset(s, b)
    BY <2>1, <2>3, QueueTypes DEF AttachWithOffset, SendError, clientVars
  <2> QED BY <1>3, <2>2, <2>3
<1>4. ASSUME NEW cb \in Ids, Frame(s, cb)
      PROVE  TypeOK'
  <2>1. [MadeState(s) EXCEPT !.pendingFrames = Append(@, cb)] \in SurfaceState
    BY MadeStateType, SurfaceUpdates
  <2> QED BY <1>4, <2>1, AllocateType DEF Frame, UserData, IdOrNull
<1>5. CASE Commit(s)
  <2> DEFINE b == CommitBuffer(s)
  <2>1. IsShmBuffer(b) => [userData[b] EXCEPT !.released = FALSE] \in ShmBuffer
    BY SnapshotType, TaggedData DEF IsShmBuffer, ShmBuffer, IdOrNull
  <2>2. userData' \in [Ids -> UserData]
    BY <1>5, <2>1, SnapshotType DEF Commit, UserData
  <2>3. lent' \subseteq Ids
    BY <1>5, SnapshotType DEF Commit, IdOrNull
  <2> QED BY <1>5, <2>2, <2>3 DEF Commit
<1>6. CASE StoreValue(s)
  BY <1>6, MadeStateType DEF StoreValue, UserData, clientVars
<1>7. CASE CreateRegion(s)
  BY <1>7, AllocateType DEF CreateRegion
<1>8. CASE DestroyRegion(s)
  BY <1>8, DestroyObjectType DEF DestroyRegion, clientVars
<1> QED BY <1>1, <1>2, <1>3, <1>4, <1>5, <1>6, <1>7, <1>8 DEF SurfaceRequest

LEMMA ShmRequestType ==
  ASSUME TypeOK, NEW p \in Ids, ShmRequest(p)
  PROVE  TypeOK'
<1> USE DEF TypeOK
<1> "pool" \in Kinds /\ "buffer" \in Kinds
  BY DEF Kinds
<1>1. ASSUME NEW n \in 1..MaxSize, CreatePool(p, n)
      PROVE  TypeOK'
  BY <1>1, AllocateType DEF CreatePool, UserData, ShmPool
<1>2. ASSUME NEW n \in 1..MaxSize, ResizePool(p, n)
      PROVE  TypeOK'
  <2>1. [userData[p] EXCEPT !.size = n] \in ShmPool
    BY <1>2, TaggedData DEF ResizePool, ShmPool
  <2> QED BY <1>2, <2>1 DEF ResizePool, UserData, clientVars
<1>3. CASE DestroyPool(p)
  BY <1>3, DestroyObjectType DEF DestroyPool, clientVars
<1>4. ASSUME NEW b \in Ids, NEW n \in 1..MaxSize, CreateBuffer(p, b, n)
      PROVE  TypeOK'
  BY <1>4, AllocateType DEF CreateBuffer, UserData, ShmBuffer, IdOrNull
<1>5. CASE CreateSinglePixelBuffer(p)
  BY <1>5, AllocateType, MaxSizeAssumption DEF CreateSinglePixelBuffer, UserData, ShmBuffer, IdOrNull
<1>6. CASE DestroyBuffer(p)
  BY <1>6, DestroyObjectType DEF DestroyBuffer
<1> QED BY <1>1, <1>2, <1>3, <1>4, <1>5, <1>6 DEF ShmRequest

LEMMA RoleRequestType ==
  ASSUME TypeOK, NEW i \in Ids, RoleRequest(i)
  PROVE  TypeOK'
<1> USE DEF TypeOK
<1> "subsurface" \in Kinds /\ "viewport" \in Kinds
  BY DEF Kinds
<1>1. ASSUME NEW s \in Ids, GetSubsurface(i, s)
      PROVE  TypeOK'
  <2>1. [MadeState(s) EXCEPT !.role = "subsurface"] \in SurfaceState
    BY MadeStateType, SurfaceUpdates
  <2> QED BY <1>1, <2>1, AllocateType DEF GetSubsurface, UserData, IdOrNull
<1>2. CASE GetSubsurfaceTwice(i)
  BY <1>2, QueueTypes DEF GetSubsurfaceTwice, SendError, clientVars
<1>3. CASE SubsurfaceRequest(i)
  BY <1>3, MadeStateType DEF SubsurfaceRequest, UserData, clientVars, IdOrNull
<1>4. CASE DestroySubsurface(i)
  <2>1. \A s \in Ids : [MadeState(s) EXCEPT !.role = "none"] \in SurfaceState
    BY MadeStateType, SurfaceUpdates
  <2>2. userData' \in [Ids -> UserData]
    BY <1>4, <2>1 DEF DestroySubsurface, UserData, IdOrNull
  <2> QED BY <1>4, <2>2, QueueTypes DEF DestroySubsurface, clientVars, IdOrNull
<1>5. ASSUME NEW s \in Ids, GetViewport(i, s)
      PROVE  TypeOK'
  BY <1>5, AllocateType DEF GetViewport, IdOrNull
<1>6. CASE DestroyViewport(i)
  <2>1. CASE IsSurfaceState(link[i])
    BY <1>6, <2>1, DestroyObjectType DEF DestroyViewport, clientVars
  <2>2. CASE ~IsSurfaceState(link[i])
    BY <1>6, <2>2, QueueTypes DEF DestroyViewport, SendError, clientVars
  <2> QED BY <2>1, <2>2
<1> QED BY <1>1, <1>2, <1>3, <1>4, <1>5, <1>6 DEF RoleRequest

LEMMA PresentType ==
  ASSUME TypeOK, PresentingSurfaces, NEW s \in Ids, Present(s)
  PROVE  TypeOK'
<1> USE DEF TypeOK
<1>1. CASE PresentDone(s)
  <2> DEFINE cb == Head(Committed(s))
  <2>1. cb \in Ids /\ IsSurfaceState(s) /\ userData[s] \in SurfaceState
    BY <1>1, PresentedType, TaggedData DEF PresentDone
  <2>2. [userData[s] EXCEPT !.committedFrames = Tail(@)] \in SurfaceState
    BY <1>1, <2>1, PresentedType, SurfaceUpdates DEF PresentDone, Committed
  <2>3. userData' \in [Ids -> UserData]
    BY <1>1, <2>1, <2>2 DEF PresentDone, UserData
  <2>4. out' \in Seq(Events)
    BY <1>1, <2>1, QueueTypes DEF PresentDone
  <2> QED BY <1>1, <2>1, <2>3, <2>4 DEF PresentDone, clientVars
<1>2. CASE PresentRelease(s)
  <2> DEFINE b == userData[s].committedBuffer
  <2>1. b \in IdOrNull
    BY <1>2, TaggedData DEF PresentRelease, PresentingSurfaces, SurfaceState
  <2>2. IsShmBuffer(b) => /\ b \in Ids
                          /\ [userData[b] EXCEPT !.released = TRUE] \in ShmBuffer
    <3>1. IsShmBuffer(b) => b \in Ids /\ userData[b] \in ShmBuffer
      BY <2>1, TaggedData DEF IsShmBuffer, IdOrNull
    <3> QED BY <3>1, BufferUpdates
  <2>3. userData' \in [Ids -> UserData]
    <3>1. CASE IsShmBuffer(b) /\ ~userData[b].released
      <4>1. userData' = [userData EXCEPT ![b] = [userData[b] EXCEPT !.released = TRUE]]
        BY <1>2, <3>1 DEF PresentRelease
      <4> HIDE DEF b
      <4> QED BY <2>2, <3>1, <4>1 DEF UserData
    <3>2. CASE ~(IsShmBuffer(b) /\ ~userData[b].released)
      BY <1>2, <3>2 DEF PresentRelease
    <3> QED BY <3>1, <3>2
  <2>4. out' \in Seq(Events)
    BY <1>2, <2>2, QueueTypes DEF PresentRelease
  <2> QED BY <1>2, <2>3, <2>4 DEF PresentRelease, clientVars
<1> QED BY <1>1, <1>2 DEF Present

LEMMA ReceiveType ==
  ASSUME TypeOK, Receive
  PROVE  TypeOK'
<1>1. /\ Head(out) \in Events
      /\ Tail(out) \in Seq(Events)
  BY DEF TypeOK, Receive
<1>2. Head(out).type \in {"done", "delete_id", "release"} => Head(out).id \in Ids
  BY <1>1 DEF Events, Error
<1> QED BY <1>1, <1>2 DEF TypeOK, Receive, serverVars, IdOrNull

LEMMA TypeStep ==
  ASSUME TypeOK, PresentingSurfaces, [Next]_vars
  PROVE  TypeOK'
<1>1. CASE UNCHANGED vars
  BY <1>1 DEF TypeOK, vars
<1>2. CASE BeginPresent
  BY <1>2 DEF TypeOK, BeginPresent, clientVars
<1> QED
  BY <1>1, <1>2, SurfaceRequestType, ShmRequestType, RoleRequestType,
     PresentType, ReceiveType DEF Next
----------------------------------------------------------------------------
(* Ids: each is live, on its way back, or free.                            *)

\* What a request does to the ids and to the queue is one of these.
AllocatesId(i) == out' = out /\ \E k \in Kinds : Allocate(i, k)

RetiresId(i) ==
  /\ objects[i] # "none"
  /\ objects' = [objects EXCEPT ![i] = "none"]
  /\ out' = Append(out, DeleteId(i))
  /\ free' = free

QueuesError == out' = Append(out, Error) /\ UNCHANGED <<objects, free>>

KeepsIds == UNCHANGED <<objects, free, out>>

MovesIds ==
  \/ \E i \in Ids : AllocatesId(i) \/ RetiresId(i)
  \/ QueuesError
  \/ KeepsIds

LEMMA RequestsMoveIds ==
  ASSUME NEW i \in Ids, SurfaceRequest(i) \/ ShmRequest(i) \/ RoleRequest(i)
  PROVE  MovesIds
<1> USE DEF MovesIds, AllocatesId, RetiresId, QueuesError, KeepsIds,
            DestroyObject, SendError, clientVars, Kinds
<1>1. CASE SurfaceRequest(i)
  BY <1>1 DEF SurfaceRequest, CreateSurface, DestroySurface, Attach,
       AttachWithOffset, Frame, StoreValue, CreateRegion, DestroyRegion, Commit
<1>2. CASE ShmRequest(i)
  BY <1>2 DEF ShmRequest, CreatePool, ResizePool, DestroyPool, CreateBuffer,
       CreateSinglePixelBuffer, DestroyBuffer
<1>3. CASE RoleRequest(i)
  BY <1>3 DEF RoleRequest, GetSubsurface, GetSubsurfaceTwice,
       SubsurfaceRequest, DestroySubsurface, GetViewport, DestroyViewport
<1> QED BY <1>1, <1>2, <1>3

\* The delete_id events of a longer queue, and of the queue without its head.
LEMMA DeletionsAppend ==
  ASSUME TypeOK, NEW e \in Events, out' = Append(out, e)
  PROVE  \A i \in Ids :
           Deletions(i)' = Deletions(i) \cup (IF e = DeleteId(i) THEN {Len(out) + 1} ELSE {})
<1>1. /\ Len(out) \in Nat
      /\ DOMAIN out = 1..Len(out)
      /\ DOMAIN out' = 1..(Len(out) + 1)
      /\ \A k \in 1..Len(out) : out'[k] = out[k]
      /\ out'[Len(out) + 1] = e
  BY DEF TypeOK
<1> QED BY <1>1 DEF Deletions

LEMMA DeletionsTail ==
  ASSUME TypeOK, out # <<>>, out' = Tail(out)
  PROVE  \A i \in Ids : Deletions(i)' = {k - 1 : k \in Deletions(i) \ {1}}
<1>1. /\ Len(out) \in Nat \ {0}
      /\ DOMAIN out = 1..Len(out)
      /\ DOMAIN out' = 1..(Len(out) - 1)
      /\ \A k \in 1..(Len(out) - 1) : out'[k] = out[k + 1]
  BY DEF TypeOK
<1>2. \A k \in DOMAIN out' : k + 1 \in DOMAIN out \ {1}
  BY <1>1
<1>3. \A k \in DOMAIN out \ {1} : k - 1 \in DOMAIN out' /\ out'[k - 1] = out[k]
  BY <1>1
<1> QED BY <1>1, <1>2, <1>3 DEF Deletions

IdsSafe == IdConservation /\ NoEventAfterDelete

\* An event may be queued for any object whose id is in use.
LEMMA QueueEvent ==
  ASSUME TypeOK, IdsSafe, NEW e \in Events, out' = Append(out, e),
         e = Error \/ (e.id \in Ids /\ objects[e.id] # "none")
  PROVE  NoEventAfterDelete'
<1>1. /\ Len(out) \in Nat
      /\ DOMAIN out = 1..Len(out)
      /\ DOMAIN out' = 1..(Len(out) + 1)
      /\ \A k \in 1..Len(out) : out'[k] = out[k] /\ out[k] \in Events
      /\ out'[Len(out) + 1] = e
  BY DEF TypeOK
<1> SUFFICES ASSUME NEW j \in DOMAIN out', NEW k \in DOMAIN out', j < k,
                    out'[j].type = "delete_id"
             PROVE  out'[k].id # out'[j].id
  BY DEF NoEventAfterDelete
<1>2. j \in DOMAIN out /\ out'[j] = out[j]
  BY <1>1
<1>3. CASE k \in DOMAIN out
  BY <1>1, <1>2, <1>3 DEF IdsSafe, NoEventAfterDelete
<1>4. CASE k = Len(out) + 1
  <2>1. /\ out[j].id \in Ids
        /\ out[j] = DeleteId(out[j].id)
    BY <1>1, <1>2 DEF Events, Error, DeleteId
  <2>2. Deletions(out[j].id) # {}
    BY <1>2, <2>1 DEF Deletions
  <2>3. e.id # out[j].id
    BY <2>1, <2>2, NoIdAssumption DEF IdsSafe, IdConservation, Error
  <2> QED BY <1>1, <1>2, <1>4, <2>3
<1> QED BY <1>1, <1>3, <1>4

LEMMA MoveIdsSafe ==
  ASSUME TypeOK, IdsSafe, MovesIds
  PROVE  IdsSafe'
<1> USE DEF IdsSafe
<1>1. CASE KeepsIds
  BY <1>1 DEF KeepsIds, IdConservation, NoEventAfterDelete, Deletions
<1>2. CASE QueuesError
  <2>1. \A j \in Ids : Deletions(j)' = Deletions(j)
    <3>1. Error \in Events /\ \A j \in Ids : Error # DeleteId(j)
      BY DEF Events, Error, DeleteId
    <3> QED BY <1>2, <3>1, DeletionsAppend DEF QueuesError
  <2>2. NoEventAfterDelete'
    BY <1>2, EventTypes, QueueEvent DEF QueuesError, Events
  <2> QED BY <1>2, <2>1, <2>2 DEF QueuesError, IdConservation
<1>3. ASSUME NEW i \in Ids, AllocatesId(i)
      PROVE  IdsSafe'
  <2>1. \A j \in Ids : Deletions(j)' = Deletions(j)
    BY <1>3 DEF AllocatesId, Deletions
  <2>2. NoEventAfterDelete'
    BY <1>3 DEF AllocatesId, NoEventAfterDelete
  <2>3. PICK k \in Kinds : Allocate(i, k)
    BY <1>3 DEF AllocatesId
  <2>4. IdConservation'
    BY <2>1, <2>3 DEF Allocate, Kinds, IdConservation, TypeOK
  <2> QED BY <2>2, <2>4
<1>4. ASSUME NEW i \in Ids, RetiresId(i)
      PROVE  IdsSafe'
  <2>1. NoEventAfterDelete'
    BY <1>4, EventTypes, QueueEvent DEF RetiresId, DeleteId
  <2>2. Deletions(i) = {} /\ i \notin free
    BY <1>4 DEF RetiresId, IdConservation
  <2>3. /\ Deletions(i)' = {Len(out) + 1}
        /\ \A j \in Ids \ {i} : Deletions(j)' = Deletions(j)
    BY <1>4, <2>2, EventTypes, DeletionsAppend, ZenonT(40) DEF RetiresId, DeleteId
  <2>4. IdConservation'
    <3>1. objects'[i] = "none" /\ i \notin free' /\ Deletions(i)' # {}
      BY <1>4, <2>2, <2>3 DEF RetiresId, TypeOK
    <3>2. \A j, k \in Deletions(i)' : j = k
      BY <2>3
    <3>3. \A j \in Ids \ {i} :
            /\ objects'[j] = objects[j]
            /\ j \in free' <=> j \in free
            /\ Deletions(j)' = Deletions(j)
      BY <1>4, <2>3 DEF RetiresId, TypeOK
    <3> QED BY <3>1, <3>2, <3>3 DEF IdConservation
  <2> QED BY <2>1, <2>4
<1> QED BY <1>1, <1>2, <1>3, <1>4 DEF MovesIds

LEMMA ReceiveIdsSafe ==
  ASSUME TypeOK, IdsSafe, Receive
  PROVE  IdsSafe'
<1> DEFINE e == Head(out)
<1>1. /\ out # <<>>
      /\ out' = Tail(out)
      /\ objects' = objects
      /\ free' = IF e.type = "delete_id" THEN free \cup {e.id} ELSE free
  BY DEF Receive, serverVars
<1>2. /\ Len(out) \in Nat \ {0}
      /\ DOMAIN out = 1..Len(out)
      /\ DOMAIN out' = 1..(Len(out) - 1)
      /\ \A k \in 1..(Len(out) - 1) : out'[k] = out[k + 1]
      /\ e = out[1] /\ e \in Events
  BY <1>1 DEF TypeOK
<1>3. NoEventAfterDelete'
  <2> SUFFICES ASSUME NEW j \in DOMAIN out', NEW k \in DOMAIN out', j < k,
                      out'[j].type = "delete_id"
               PROVE  out'[k].id # out'[j].id
    BY DEF NoEventAfterDelete
  <2>1. /\ j + 1 \in DOMAIN out /\ k + 1 \in DOMAIN out /\ j + 1 < k + 1
        /\ out'[j] = out[j + 1] /\ out'[k] = out[k + 1]
    BY <1>2
  <2> QED BY <2>1 DEF IdsSafe, NoEventAfterDelete
<1>4. ASSUME NEW i \in Ids
      PROVE  /\ Deletions(i)' = {k - 1 : k \in Deletions(i) \ {1}}
             /\ 1 \in Deletions(i) <=> e = DeleteId(i)
             /\ \A k \in Deletions(i) : k \in Nat
  BY <1>1, <1>2, DeletionsTail DEF Deletions
<1>5. ASSUME NEW i \in Ids
      PROVE  /\ i \in free' => objects'[i] = "none"
             /\ i \in free' \/ objects'[i] # "none" => Deletions(i)' = {}
             /\ i \in free' \/ objects'[i] # "none" \/ Deletions(i)' # {}
             /\ \A j, k \in Deletions(i)' : j = k
  <2>1. CASE e = DeleteId(i)
    <3>1. i \in free'
      BY <1>1, <2>1 DEF DeleteId
    <3>2. Deletions(i) = {1}
      BY <1>4, <2>1 DEF IdsSafe, IdConservation
    <3>3. Deletions(i)' = {}
      BY <1>4, <3>2
    <3>4. objects[i] = "none"
      BY <3>2 DEF IdsSafe, IdConservation
    <3> QED BY <1>1, <3>1, <3>3, <3>4
  <2>2. CASE e # DeleteId(i)
    <3>1. i \in free' <=> i \in free
      BY <1>1, <1>2, <2>2 DEF DeleteId, Events, Error
    <3>2. Deletions(i)' = {k - 1 : k \in Deletions(i)}
      BY <1>4, <2>2
    <3>3. Deletions(i)' = {} <=> Deletions(i) = {}
      BY <3>2
    <3>4. \A j, k \in Deletions(i)' : j = k
      BY <3>2 DEF IdsSafe, IdConservation
    <3> QED BY <1>1, <3>1, <3>3, <3>4 DEF IdsSafe, IdConservation
  <2> QED BY <2>1, <2>2
<1> QED BY <1>3, <1>5 DEF IdsSafe, IdConservation

----------------------------------------------------------------------------
(* Frame callbacks: the lists of the surfaces.                             *)

\* A new value in one slot changes the lists of that slot alone.
LEMMA OneSlot ==
  ASSUME TypeOK, NEW s \in Ids, NEW d, userData' = [userData EXCEPT ![s] = d]
  PROVE  /\ \A i \in Ids \ {s} : Pending(i)' = Pending(i) /\ Committed(i)' = Committed(i)
         /\ d.tag = "SurfaceState" => /\ Pending(s)' = d.pendingFrames
                                      /\ Committed(s)' = d.committedFrames
         /\ d.tag # "SurfaceState" => Pending(s)' = <<>> /\ Committed(s)' = <<>>
BY DEF TypeOK, Pending, Committed, IsSurfaceState

LEMMA MadeStateLists ==
  ASSUME TypeOK, NEW s \in Ids
  PROVE  /\ MadeState(s).tag = "SurfaceState"
         /\ MadeState(s).pendingFrames = Pending(s)
         /\ MadeState(s).committedFrames = Committed(s)
BY DEF MadeState, Pending, Committed, IsSurfaceState, NewSurfaceState

\* Most steps leave every list alone or empty it.
ListsShrink ==
  \A s \in Ids : /\ Pending(s)' \in {Pending(s), <<>>}
                 /\ Committed(s)' \in {Committed(s), <<>>}

\* No callback goes, and a surface only with its lists.
ObjectsStay ==
  \A i \in Ids : /\ objects[i] = "callback" => objects'[i] = "callback"
                 /\ objects[i] = "surface" =>
                      \/ objects'[i] = "surface"
                      \/ Pending(i)' = <<>> /\ Committed(i)' = <<>>

FramesSafe == FramesListedOnce /\ FramesOnSurfaces

LEMMA ShrinkFramesSafe ==
  ASSUME TypeOK, FramesSafe, ListsShrink, ObjectsStay
  PROVE  FramesSafe'
<1>1. FramesOnSurfaces'
  BY DEF FramesSafe, FramesOnSurfaces, ListsShrink, ObjectsStay
<1>2. ASSUME NEW s \in Ids
      PROVE  /\ \A k \in DOMAIN Pending(s)' : objects'[Pending(s)'[k]] = "callback"
             /\ \A k \in DOMAIN Committed(s)' : objects'[Committed(s)'[k]] = "callback"
             /\ IsInjective(Pending(s)') /\ IsInjective(Committed(s)')
  BY PresentedType DEF FramesSafe, FramesListedOnce, ListsShrink, ObjectsStay, IsInjective
<1>3. ASSUME NEW s \in Ids, NEW t \in Ids
      PROVE  /\ ToSet(Pending(s)') \cap ToSet(Committed(t)') = {}
             /\ s # t => /\ ToSet(Pending(s)') \cap ToSet(Pending(t)') = {}
                         /\ ToSet(Committed(s)') \cap ToSet(Committed(t)') = {}
  <2>1. ToSet(<<>>) = {}
    BY DEF ToSet
  <2> QED BY <2>1 DEF FramesSafe, FramesListedOnce, ListsShrink
<1> QED BY <1>1, <1>2, <1>3 DEF FramesSafe, FramesListedOnce

\* What a new object, and a destroyed one, leave of the other objects.
LEMMA AllocateObjects ==
  ASSUME TypeOK, IdConservation, NEW i \in Ids, NEW k \in Kinds, Allocate(i, k)
  PROVE  /\ objects[i] = "none"
         /\ objects'[i] = k
         /\ \A j \in Ids \ {i} : objects'[j] = objects[j]
BY DEF TypeOK, IdConservation, Allocate

LEMMA DestroyObjectLists ==
  ASSUME TypeOK, BuffersAreLive, NEW i \in Ids, DestroyObject(i), objects[i] # "callback"
  PROVE  ListsShrink /\ ObjectsStay /\ BuffersAreLive'
<1>1. /\ \A j \in Ids \ {i} : Pending(j)' = Pending(j) /\ Committed(j)' = Committed(j)
      /\ Pending(i)' = <<>> /\ Committed(i)' = <<>>
  BY OneSlot DEF DestroyObject, Nothing
<1>2. ListsShrink /\ ObjectsStay
  BY <1>1 DEF TypeOK, ListsShrink, ObjectsStay, DestroyObject
<1>3. BuffersAreLive'
  BY DEF TypeOK, BuffersAreLive, IsShmBuffer, DestroyObject, Nothing
<1> QED BY <1>2, <1>3

\* A surface's state made or updated in place keeps its lists.
LEMMA SameListsSlot ==
  ASSUME TypeOK, BuffersAreLive, NEW s \in Ids, NEW d,
         userData' = [userData EXCEPT ![s] = d],
         d.tag = "SurfaceState",
         d.pendingFrames = Pending(s), d.committedFrames = Committed(s),
         objects' = objects
  PROVE  ListsShrink /\ ObjectsStay /\ BuffersAreLive'
<1>1. \A j \in Ids : Pending(j)' = Pending(j) /\ Committed(j)' = Committed(j)
  BY OneSlot
<1>2. ListsShrink /\ ObjectsStay
  BY <1>1 DEF ListsShrink, ObjectsStay
<1>3. BuffersAreLive'
  BY DEF TypeOK, BuffersAreLive, IsShmBuffer
<1> QED BY <1>2, <1>3

LEMMA SurfaceRequestLists ==
  ASSUME TypeOK, IdConservation, BuffersAreLive, NEW s \in Ids,
         \/ CreateSurface(s)
         \/ DestroySurface(s)
         \/ \E b \in IdOrNull : Attach(s, b) \/ AttachWithOffset(s, b)
         \/ StoreValue(s) \/ CreateRegion(s) \/ DestroyRegion(s)
  PROVE  ListsShrink /\ ObjectsStay /\ BuffersAreLive'
<1>1. CASE CreateSurface(s)
  <2>1. /\ objects[s] = "none" /\ objects'[s] = "surface"
        /\ \A j \in Ids \ {s} : objects'[j] = objects[j]
    BY <1>1, AllocateObjects DEF CreateSurface, Kinds
  <2>2. userData' = [userData EXCEPT ![s] = MadeState(s)]
    BY <1>1 DEF CreateSurface
  <2>3. \A j \in Ids : Pending(j)' = Pending(j) /\ Committed(j)' = Committed(j)
    BY <2>2, MadeStateLists, OneSlot
  <2>4. ListsShrink /\ ObjectsStay
    BY <2>1, <2>3 DEF ListsShrink, ObjectsStay
  <2>5. BuffersAreLive'
    BY <2>1, <2>2, MadeStateLists DEF TypeOK, BuffersAreLive, IsShmBuffer
  <2> QED BY <2>4, <2>5
<1>2. CASE DestroySurface(s)
  BY <1>2, DestroyObjectLists DEF DestroySurface
<1>3. ASSUME NEW b \in IdOrNull, Attach(s, b) \/ AttachWithOffset(s, b)
      PROVE  ListsShrink /\ ObjectsStay /\ BuffersAreLive'
  <2> DEFINE d == [MadeState(s) EXCEPT !.pendingBuffer = b, !.bufferCleared = (b = NoId)]
  <2>1. userData' = [userData EXCEPT ![s] = d] /\ objects' = objects
    BY <1>3 DEF Attach, AttachWithOffset, Attached
  <2>2. /\ d.tag = "SurfaceState" /\ d.pendingFrames = Pending(s)
        /\ d.committedFrames = Committed(s)
    BY MadeStateType, MadeStateLists DEF SurfaceState
  <2> HIDE DEF d
  <2> QED BY <2>1, <2>2, SameListsSlot
<1>4. CASE StoreValue(s)
  BY <1>4, MadeStateLists, SameListsSlot DEF StoreValue
<1>5. CASE CreateRegion(s)
  <2>1. /\ objects[s] = "none" /\ objects'[s] = "region"
        /\ \A j \in Ids \ {s} : objects'[j] = objects[j]
    BY <1>5, AllocateObjects DEF CreateRegion, Kinds
  <2>2. userData' = userData
    BY <1>5 DEF CreateRegion
  <2> QED BY <2>1, <2>2 DEF ListsShrink, ObjectsStay, BuffersAreLive,
            Pending, Committed, IsSurfaceState, IsShmBuffer
<1>6. CASE DestroyRegion(s)
  BY <1>6, DestroyObjectLists DEF DestroyRegion
<1> QED BY <1>1, <1>2, <1>3, <1>4, <1>5, <1>6

LEMMA ShmRequestLists ==
  ASSUME TypeOK, IdConservation, BuffersAreLive, NEW p \in Ids, ShmRequest(p)
  PROVE  ListsShrink /\ ObjectsStay /\ BuffersAreLive'
<1>1. ASSUME NEW i \in Ids, NEW k \in {"pool", "buffer"}, NEW d,
             Allocate(i, k), userData' = [userData EXCEPT ![i] = d],
             d.tag = "ShmPool" \/ (d.tag = "ShmBuffer" /\ k = "buffer")
      PROVE  ListsShrink /\ ObjectsStay /\ BuffersAreLive'
  <2>1. /\ objects[i] = "none" /\ objects'[i] = k
        /\ \A j \in Ids \ {i} : objects'[j] = objects[j]
    BY <1>1, AllocateObjects DEF Kinds
  <2>2. /\ \A j \in Ids \ {i} : Pending(j)' = Pending(j) /\ Committed(j)' = Committed(j)
        /\ Pending(i)' = <<>> /\ Committed(i)' = <<>>
    BY <1>1, OneSlot
  <2>3. ListsShrink /\ ObjectsStay
    BY <2>1, <2>2 DEF ListsShrink, ObjectsStay
  <2>4. BuffersAreLive'
    BY <1>1, <2>1 DEF TypeOK, BuffersAreLive, IsShmBuffer
  <2> QED BY <2>3, <2>4
<1>2. ASSUME NEW n \in 1..MaxSize, CreatePool(p, n)
      PROVE  ListsShrink /\ ObjectsStay /\ BuffersAreLive'
  BY <1>1, <1>2 DEF CreatePool
<1>3. ASSUME NEW n \in 1..MaxSize, ResizePool(p, n)
      PROVE  ListsShrink /\ ObjectsStay /\ BuffersAreLive'
  <2>1. /\ [userData[p] EXCEPT !.size = n].tag = "ShmPool"
        /\ userData' = [userData EXCEPT ![p] = [userData[p] EXCEPT !.size = n]]
        /\ objects' = objects
    BY <1>3, TaggedData DEF ResizePool, ShmPool
  <2>2. \A j \in Ids : Pending(j)' \in {Pending(j), <<>>} /\ Committed(j)' \in {Committed(j), <<>>}
    BY <2>1, OneSlot
  <2>3. ListsShrink /\ ObjectsStay
    BY <2>1, <2>2 DEF ListsShrink, ObjectsStay
  <2>4. BuffersAreLive'
    BY <2>1 DEF TypeOK, BuffersAreLive, IsShmBuffer
  <2> QED BY <2>3, <2>4
<1>4. CASE DestroyPool(p)
  BY <1>4, DestroyObjectLists DEF DestroyPool
<1>5. ASSUME NEW b \in Ids, NEW n \in 1..MaxSize, CreateBuffer(p, b, n)
      PROVE  ListsShrink /\ ObjectsStay /\ BuffersAreLive'
  BY <1>1, <1>5 DEF CreateBuffer
<1>6. CASE CreateSinglePixelBuffer(p)
  BY <1>1, <1>6 DEF CreateSinglePixelBuffer
<1>7. CASE DestroyBuffer(p)
  BY <1>7, DestroyObjectLists DEF DestroyBuffer
<1> QED BY <1>2, <1>3, <1>4, <1>5, <1>6, <1>7 DEF ShmRequest

LEMMA RoleRequestLists ==
  ASSUME TypeOK, IdConservation, BuffersAreLive, NEW i \in Ids, RoleRequest(i)
  PROVE  ListsShrink /\ ObjectsStay /\ BuffersAreLive'
<1>1. ASSUME NEW s \in Ids, GetSubsurface(i, s)
      PROVE  ListsShrink /\ ObjectsStay /\ BuffersAreLive'
  <2> DEFINE d == [MadeState(s) EXCEPT !.role = "subsurface"]
  <2>1. /\ objects[i] = "none" /\ objects'[i] = "subsurface"
        /\ \A j \in Ids \ {i} : objects'[j] = objects[j]
    BY <1>1, AllocateObjects DEF GetSubsurface, Kinds
  <2>2. /\ d.tag = "SurfaceState" /\ d.pendingFrames = Pending(s)
        /\ d.committedFrames = Committed(s)
    BY MadeStateType, MadeStateLists DEF SurfaceState
  <2>3. userData' = [userData EXCEPT ![s] = d]
    BY <1>1 DEF GetSubsurface
  <2> HIDE DEF d
  <2>4. \A j \in Ids : Pending(j)' = Pending(j) /\ Committed(j)' = Committed(j)
    BY <2>2, <2>3, OneSlot
  <2>5. ListsShrink /\ ObjectsStay
    BY <2>1, <2>4 DEF ListsShrink, ObjectsStay
  <2>6. BuffersAreLive'
    BY <2>1, <2>2, <2>3 DEF TypeOK, BuffersAreLive, IsShmBuffer
  <2> QED BY <2>5, <2>6
<1>2. CASE GetSubsurfaceTwice(i)
  BY <1>2 DEF GetSubsurfaceTwice, ListsShrink, ObjectsStay, BuffersAreLive,
       Pending, Committed, IsSurfaceState, IsShmBuffer
<1>3. CASE SubsurfaceRequest(i)
  <2>1. userData' = [userData EXCEPT ![link[i]] = MadeState(link[i])] /\ objects' = objects
    BY <1>3 DEF SubsurfaceRequest
  <2>2. CASE link[i] \in Ids
    BY <2>1, <2>2, MadeStateLists, SameListsSlot
  <2>3. CASE link[i] \notin Ids
    <3>1. userData' = userData
      BY <2>1, <2>3 DEF TypeOK
    <3> QED BY <2>1, <3>1 DEF ListsShrink, ObjectsStay, BuffersAreLive,
              Pending, Committed, IsSurfaceState, IsShmBuffer
  <2> QED BY <2>2, <2>3
<1>4. CASE DestroySubsurface(i)
  <2> DEFINE s == link[i]
             d == [MadeState(s) EXCEPT !.role = "none"]
  <2>1. s \in Ids => /\ d.tag = "SurfaceState" /\ d.pendingFrames = Pending(s)
                     /\ d.committedFrames = Committed(s)
    BY MadeStateType, MadeStateLists DEF SurfaceState
  <2>2. /\ userData' = [[userData EXCEPT ![s] = d] EXCEPT ![i] = Nothing]
        /\ objects' = [objects EXCEPT ![i] = "none"]
        /\ objects[i] = "subsurface"
    BY <1>4 DEF DestroySubsurface
  <2> HIDE DEF d
  <2>3. \A j \in Ids : userData'[j] = IF j = i THEN Nothing
                                      ELSE IF j = s THEN d ELSE userData[j]
    BY <2>2 DEF TypeOK
  <2> HIDE DEF s
  <2>4. \A j \in Ids : Pending(j)' \in {Pending(j), <<>>} /\ Committed(j)' \in {Committed(j), <<>>}
    BY <2>1, <2>3 DEF Pending, Committed, IsSurfaceState, Nothing
  <2>5. Pending(i)' = <<>> /\ Committed(i)' = <<>>
    BY <2>3 DEF Pending, Committed, IsSurfaceState, Nothing
  <2>6. ListsShrink /\ ObjectsStay
    BY <2>2, <2>4, <2>5 DEF TypeOK, ListsShrink, ObjectsStay
  <2>7. BuffersAreLive'
    BY <2>1, <2>2, <2>3 DEF TypeOK, BuffersAreLive, IsShmBuffer, Nothing
  <2> QED BY <2>6, <2>7
<1>5. ASSUME NEW s \in Ids, GetViewport(i, s)
      PROVE  ListsShrink /\ ObjectsStay /\ BuffersAreLive'
  <2>1. /\ objects[i] = "none" /\ objects'[i] = "viewport"
        /\ \A j \in Ids \ {i} : objects'[j] = objects[j]
    BY <1>5, AllocateObjects DEF GetViewport, Kinds
  <2>2. userData' = userData
    BY <1>5 DEF GetViewport
  <2> QED BY <2>1, <2>2 DEF ListsShrink, ObjectsStay, BuffersAreLive,
            Pending, Committed, IsSurfaceState, IsShmBuffer
<1>6. CASE DestroyViewport(i)
  <2>1. CASE IsSurfaceState(link[i])
    BY <1>6, <2>1, DestroyObjectLists DEF DestroyViewport
  <2>2. CASE ~IsSurfaceState(link[i])
    BY <1>6, <2>2 DEF DestroyViewport, ListsShrink, ObjectsStay, BuffersAreLive,
         Pending, Committed, IsSurfaceState, IsShmBuffer
  <2> QED BY <2>1, <2>2
<1> QED BY <1>1, <1>2, <1>3, <1>4, <1>5, <1>6 DEF RoleRequest

\* What FramesSafe says of one surface's lists, and of two.
LEMMA ListFacts ==
  ASSUME TypeOK, FramesSafe, NEW t \in Ids
  PROVE  /\ \A k \in DOMAIN Pending(t) :
              Pending(t)[k] \in Ids /\ objects[Pending(t)[k]] = "callback"
         /\ \A k \in DOMAIN Committed(t) :
              Committed(t)[k] \in Ids /\ objects[Committed(t)[k]] = "callback"
         /\ IsInjective(Pending(t)) /\ IsInjective(Committed(t))
         /\ \A u \in Ids :
              /\ ToSet(Pending(t)) \cap ToSet(Committed(u)) = {}
              /\ t # u => /\ ToSet(Pending(t)) \cap ToSet(Pending(u)) = {}
                          /\ ToSet(Committed(t)) \cap ToSet(Committed(u)) = {}
BY PresentedType DEF FramesSafe, FramesListedOnce

\* frame lists a callback whose id was free until now.
LEMMA FrameLists ==
  ASSUME TypeOK, IdConservation, FramesSafe, BuffersAreLive,
         NEW s \in Ids, NEW cb \in Ids, Frame(s, cb)
  PROVE  FramesSafe' /\ BuffersAreLive'
<1> DEFINE d == [MadeState(s) EXCEPT !.pendingFrames = Append(@, cb)]
<1>1. /\ objects[cb] = "none" /\ objects'[cb] = "callback"
      /\ \A j \in Ids \ {cb} : objects'[j] = objects[j]
  BY AllocateObjects DEF Frame, Kinds
<1>2. /\ d.tag = "SurfaceState" /\ d.pendingFrames = Append(Pending(s), cb)
      /\ d.committedFrames = Committed(s)
  BY MadeStateType, MadeStateLists DEF SurfaceState
<1>3. userData' = [userData EXCEPT ![s] = d] /\ objects[s] = "surface"
  BY DEF Frame
<1> HIDE DEF d
<1>4. /\ \A j \in Ids \ {s} : Pending(j)' = Pending(j)
      /\ \A j \in Ids : Committed(j)' = Committed(j)
      /\ Pending(s)' = Append(Pending(s), cb)
  BY <1>2, <1>3, OneSlot
<1>5. BuffersAreLive'
  BY <1>1, <1>2, <1>3 DEF TypeOK, BuffersAreLive, IsShmBuffer
<1>6. FramesOnSurfaces'
  BY <1>1, <1>3, <1>4 DEF FramesSafe, FramesOnSurfaces
<1>7. \A t \in Ids : cb \notin ToSet(Pending(t)) /\ cb \notin ToSet(Committed(t))
  BY <1>1, PresentedType DEF FramesSafe, FramesListedOnce, ToSet
<1>8. /\ Len(Pending(s)) \in Nat
      /\ DOMAIN Pending(s) = 1..Len(Pending(s))
      /\ DOMAIN Pending(s)' = 1..(Len(Pending(s)) + 1)
      /\ \A k \in 1..Len(Pending(s)) : Pending(s)'[k] = Pending(s)[k]
      /\ Pending(s)'[Len(Pending(s)) + 1] = cb
  BY <1>4, PresentedType
<1>9. ToSet(Pending(s)') = ToSet(Pending(s)) \cup {cb}
  BY <1>8 DEF ToSet
<1>10. IsInjective(Pending(s)')
  BY <1>7, <1>8 DEF FramesSafe, FramesListedOnce, IsInjective, ToSet
<1>11. ASSUME NEW t \in Ids
       PROVE  /\ \A k \in DOMAIN Pending(t)' : objects'[Pending(t)'[k]] = "callback"
              /\ \A k \in DOMAIN Committed(t)' : objects'[Committed(t)'[k]] = "callback"
              /\ IsInjective(Pending(t)') /\ IsInjective(Committed(t)')
  <2>1. \A c \in Ids : objects[c] = "callback" => objects'[c] = "callback"
    BY <1>1
  <2>2. Committed(t)' = Committed(t)
    BY <1>4
  <2>3. CASE t = s
    BY <1>1, <1>8, <1>10, <2>1, <2>2, <2>3, ListFacts
  <2>4. CASE t # s
    <3>1. Pending(t)' = Pending(t)
      BY <1>4, <2>4
    <3> QED BY <2>1, <2>2, <3>1, ListFacts
  <2> QED BY <2>3, <2>4
<1>12. ASSUME NEW t \in Ids, NEW u \in Ids
       PROVE  /\ ToSet(Pending(t)') \cap ToSet(Committed(u)') = {}
              /\ t # u => /\ ToSet(Pending(t)') \cap ToSet(Pending(u)') = {}
                          /\ ToSet(Committed(t)') \cap ToSet(Committed(u)') = {}
  <2>1. /\ Committed(t)' = Committed(t) /\ Committed(u)' = Committed(u)
        /\ t # s => Pending(t)' = Pending(t)
        /\ u # s => Pending(u)' = Pending(u)
    BY <1>4
  <2>2. /\ ToSet(Pending(t)') \in {ToSet(Pending(t)), ToSet(Pending(t)) \cup {cb}}
        /\ ToSet(Pending(u)') \in {ToSet(Pending(u)), ToSet(Pending(u)) \cup {cb}}
        /\ t # s \/ u # s => \/ ToSet(Pending(t)') = ToSet(Pending(t))
                            \/ ToSet(Pending(u)') = ToSet(Pending(u))
    BY <1>9, <2>1
  <2> QED BY <1>7, <2>1, <2>2, ListFacts
<1> QED BY <1>5, <1>6, <1>11, <1>12 DEF FramesSafe, FramesListedOnce

\* commit moves the pending list to the committed one.
LEMMA CommitLists ==
  ASSUME TypeOK, FramesSafe, BuffersAreLive, NEW s \in Ids, Commit(s)
  PROVE  FramesSafe' /\ BuffersAreLive'
<1> DEFINE b == CommitBuffer(s)
<1>1. /\ Snapshot(s) \in SurfaceState
      /\ Snapshot(s).pendingFrames = <<>>
      /\ Snapshot(s).committedFrames = Pending(s)
  BY MadeStateType, MadeStateLists, SnapshotType DEF Snapshot, SurfaceState
<1>2. /\ objects' = objects /\ objects[s] = "surface"
      /\ \A i \in Ids : userData'[i] = IF i = s THEN Snapshot(s)
                                       ELSE IF i = b /\ IsShmBuffer(b)
                                            THEN [userData[b] EXCEPT !.released = FALSE]
                                            ELSE userData[i]
  BY DEF Commit
<1>3. \A i \in Ids : i # s => /\ userData'[i].tag = userData[i].tag
                              /\ IsSurfaceState(i) => userData'[i] = userData[i]
  <2>1. \A i \in Ids : IsShmBuffer(i) =>
          /\ [userData[i] EXCEPT !.released = FALSE].tag = userData[i].tag
          /\ ~IsSurfaceState(i)
    BY TaggedData DEF IsShmBuffer, IsSurfaceState, ShmBuffer
  <2> HIDE DEF b
  <2> QED BY <1>2, <2>1
<1> HIDE DEF b
<1>4. /\ Pending(s)' = <<>> /\ Committed(s)' = Pending(s)
      /\ \A i \in Ids \ {s} : Pending(i)' = Pending(i) /\ Committed(i)' = Committed(i)
  BY <1>1, <1>2, <1>3 DEF Pending, Committed, IsSurfaceState, SurfaceState
<1>5. BuffersAreLive'
  BY <1>1, <1>2, <1>3 DEF BuffersAreLive, IsShmBuffer, SurfaceState
<1>6. FramesOnSurfaces'
  BY <1>2, <1>4 DEF FramesSafe, FramesOnSurfaces
<1>7. ToSet(<<>>) = {} /\ IsInjective(<<>>) /\ DOMAIN <<>> = {}
  BY DEF ToSet, IsInjective
<1>8. ASSUME NEW t \in Ids
      PROVE  /\ \A k \in DOMAIN Pending(t)' : objects'[Pending(t)'[k]] = "callback"
             /\ \A k \in DOMAIN Committed(t)' : objects'[Committed(t)'[k]] = "callback"
             /\ IsInjective(Pending(t)') /\ IsInjective(Committed(t)')
  BY <1>2, <1>4, <1>7, ListFacts
<1>9. ASSUME NEW t \in Ids, NEW u \in Ids
      PROVE  /\ ToSet(Pending(t)') \cap ToSet(Committed(u)') = {}
             /\ t # u => /\ ToSet(Pending(t)') \cap ToSet(Pending(u)') = {}
                         /\ ToSet(Committed(t)') \cap ToSet(Committed(u)') = {}
  BY <1>4, <1>7, ListFacts
<1> QED BY <1>5, <1>6, <1>8, <1>9 DEF FramesSafe, FramesListedOnce

\* done takes the head of one list and destroys the callback it names, so
\* no list names a destroyed one.
LEMMA PresentDoneLists ==
  ASSUME TypeOK, FramesSafe, BuffersAreLive, PresentingSurfaces,
         NEW s \in Ids, PresentDone(s)
  PROVE  FramesSafe' /\ BuffersAreLive' /\ PresentingSurfaces'
<1> DEFINE q == Committed(s)
           cb == Head(q)
<1>1. /\ q \in Seq(Ids) /\ q # <<>> /\ cb \in Ids
      /\ IsSurfaceState(s) /\ userData[s] \in SurfaceState
      /\ Tail(q) \in Seq(Ids)
  BY PresentedType, TaggedData DEF PresentDone
<1>2. /\ Len(q) \in Nat \ {0} /\ DOMAIN q = 1..Len(q)
      /\ DOMAIN Tail(q) = 1..(Len(q) - 1)
      /\ \A k \in 1..(Len(q) - 1) : Tail(q)[k] = q[k + 1]
      /\ cb = q[1]
  BY <1>1
<1>3. objects[cb] = "callback" /\ objects[s] = "surface" /\ cb # s
  BY <1>1, <1>2, ListFacts DEF FramesSafe, FramesOnSurfaces
<1>4. Pending(cb) = <<>> /\ Committed(cb) = <<>>
  BY <1>1, <1>3 DEF FramesSafe, FramesOnSurfaces
<1> DEFINE d == [userData[s] EXCEPT !.committedFrames = Tail(q)]
<1>5. /\ d.tag = "SurfaceState" /\ d.committedFrames = Tail(q)
      /\ d.pendingFrames = Pending(s)
  BY <1>1 DEF SurfaceState, Pending
<1>6. /\ \A i \in Ids : objects'[i] = IF i = cb THEN "none" ELSE objects[i]
      /\ presenting' = presenting
      /\ s \in presenting
  BY DEF PresentDone, TypeOK
<1>7. userData' = [[userData EXCEPT ![s] = d] EXCEPT ![cb] = Nothing]
  BY <1>1 DEF PresentDone, Committed
<1> HIDE DEF d
<1>8. \A i \in Ids : userData'[i] = IF i = cb THEN Nothing ELSE IF i = s THEN d ELSE userData[i]
  BY <1>1, <1>3, <1>7 DEF TypeOK
<1> HIDE DEF cb
<1>9. /\ \A i \in Ids : Pending(i)' = Pending(i)
      /\ \A i \in Ids \ {s} : Committed(i)' = Committed(i)
      /\ Committed(s)' = Tail(q)
  BY <1>1, <1>3, <1>4, <1>5, <1>8 DEF Pending, Committed, IsSurfaceState, Nothing
<1> HIDE DEF q
<1>10. BuffersAreLive'
  BY <1>5, <1>6, <1>8 DEF BuffersAreLive, IsShmBuffer, Nothing
<1>11. ASSUME NEW t \in presenting'
       PROVE  objects'[t] = "surface" /\ IsSurfaceState(t)'
  BY <1>3, <1>5, <1>6, <1>8 DEF TypeOK, PresentingSurfaces, IsSurfaceState
<1>12. FramesOnSurfaces'
  BY <1>1, <1>3, <1>4, <1>6, <1>9 DEF FramesSafe, FramesOnSurfaces
<1>13. /\ IsInjective(Tail(q))
       /\ ToSet(Tail(q)) \subseteq ToSet(q)
       /\ cb \in ToSet(q) /\ cb \notin ToSet(Tail(q))
  <2>1. IsInjective(q)
    BY ListFacts DEF q
  <2> QED BY <1>1, <1>2, <2>1 DEF IsInjective, ToSet
<1>14. \A t \in Ids : cb \notin ToSet(Pending(t)) /\ (t # s => cb \notin ToSet(Committed(t)))
  BY <1>13, ListFacts DEF q
<1>15. ASSUME NEW t \in Ids
       PROVE  /\ \A k \in DOMAIN Pending(t)' : objects'[Pending(t)'[k]] = "callback"
              /\ \A k \in DOMAIN Committed(t)' : objects'[Committed(t)'[k]] = "callback"
              /\ IsInjective(Pending(t)') /\ IsInjective(Committed(t)')
  <2>1. /\ Pending(t)' = Pending(t) /\ IsInjective(Pending(t))
        /\ \A k \in DOMAIN Pending(t) : objects'[Pending(t)[k]] = "callback"
    BY <1>6, <1>9, <1>14, ListFacts DEF ToSet
  <2>2. CASE t = s
    <3>1. \A k \in DOMAIN Tail(q) : Tail(q)[k] # cb
      BY <1>13 DEF ToSet
    <3>2. \A k \in DOMAIN q : q[k] \in Ids /\ objects[q[k]] = "callback"
      BY ListFacts DEF q
    <3>3. \A k \in DOMAIN Tail(q) : objects'[Tail(q)[k]] = "callback"
      BY <1>2, <1>6, <3>1, <3>2
    <3> QED BY <1>9, <1>13, <2>1, <2>2, <3>3
  <2>3. CASE t # s
    <3>1. /\ Committed(t)' = Committed(t) /\ IsInjective(Committed(t))
          /\ \A k \in DOMAIN Committed(t) : objects'[Committed(t)[k]] = "callback"
      BY <1>6, <1>9, <1>14, <2>3, ListFacts DEF ToSet
    <3> QED BY <2>1, <3>1
  <2> QED BY <2>2, <2>3
<1>16. ASSUME NEW t \in Ids, NEW u \in Ids
       PROVE  /\ ToSet(Pending(t)') \cap ToSet(Committed(u)') = {}
              /\ t # u => /\ ToSet(Pending(t)') \cap ToSet(Pending(u)') = {}
                          /\ ToSet(Committed(t)') \cap ToSet(Committed(u)') = {}
  <2>1. \A v \in Ids : /\ ToSet(Pending(v)') = ToSet(Pending(v))
                       /\ ToSet(Committed(v)') \subseteq ToSet(Committed(v))
    BY <1>9, <1>13 DEF q
  <2> QED BY <2>1, ListFacts
<1>17. PresentingSurfaces'
  BY <1>11 DEF PresentingSurfaces
<1> QED BY <1>10, <1>12, <1>15, <1>16, <1>17 DEF FramesSafe, FramesListedOnce

\* release marks a buffer and touches no list.
LEMMA PresentReleaseLists ==
  ASSUME TypeOK, FramesSafe, BuffersAreLive, PresentingSurfaces,
         NEW s \in Ids, PresentRelease(s)
  PROVE  FramesSafe' /\ BuffersAreLive' /\ PresentingSurfaces'
<1> DEFINE b == userData[s].committedBuffer
<1>1. /\ objects' = objects
      /\ presenting' \subseteq presenting
      /\ userData' = userData \/
           (IsShmBuffer(b) /\ userData' = [userData EXCEPT ![b] = [userData[b] EXCEPT !.released = TRUE]])
  BY DEF PresentRelease
<1>2. \A i \in Ids : IsShmBuffer(i) =>
        /\ [userData[i] EXCEPT !.released = TRUE].tag = "ShmBuffer"
        /\ ~IsSurfaceState(i)
  BY TaggedData DEF IsShmBuffer, IsSurfaceState, ShmBuffer
<1> HIDE DEF b
<1>3. \A i \in Ids : /\ IsSurfaceState(i) => userData'[i] = userData[i]
                     /\ userData'[i].tag = userData[i].tag
  BY <1>1, <1>2 DEF TypeOK, IsShmBuffer
<1>4. \A i \in Ids : Pending(i)' = Pending(i) /\ Committed(i)' = Committed(i)
  BY <1>3 DEF Pending, Committed, IsSurfaceState
<1>5. ListsShrink /\ ObjectsStay
  BY <1>1, <1>4 DEF ListsShrink, ObjectsStay
<1>6. BuffersAreLive'
  BY <1>1, <1>3 DEF BuffersAreLive, IsShmBuffer
<1>7. PresentingSurfaces'
  BY <1>1, <1>3 DEF TypeOK, PresentingSurfaces, IsSurfaceState
<1> QED BY <1>5, <1>6, <1>7, ShrinkFramesSafe

----------------------------------------------------------------------------
(* The invariant.                                                          *)

\* done and delete_id of a live callback retire its id.
LEMMA PresentDoneIds ==
  ASSUME TypeOK, IdsSafe, FramesSafe, NEW s \in Ids, PresentDone(s)
  PROVE  IdsSafe'
<1> DEFINE n == Len(out)
<1>1. PICK cb \in Ids :
        /\ objects[cb] = "callback"
        /\ objects' = [objects EXCEPT ![cb] = "none"] /\ free' = free
        /\ out' = Append(Append(out, Done(cb)), DeleteId(cb))
  <2> DEFINE c == Head(Committed(s))
  <2>1. /\ Committed(s) \in Seq(Ids) /\ Committed(s) # <<>> /\ c \in Ids
        /\ 1 \in DOMAIN Committed(s) /\ c = Committed(s)[1]
    BY PresentedType DEF PresentDone
  <2>2. objects[c] = "callback"
    BY <2>1, ListFacts
  <2> QED BY <2>1, <2>2 DEF PresentDone, clientVars
<1>2. /\ n \in Nat /\ DOMAIN out = 1..n /\ DOMAIN out' = 1..(n + 2)
      /\ \A k \in 1..n : out'[k] = out[k] /\ out[k] \in Events
      /\ out'[n + 1] = Done(cb) /\ out'[n + 2] = DeleteId(cb)
  BY <1>1, EventTypes DEF TypeOK
<1> HIDE DEF n
<1>3. Deletions(cb) = {} /\ cb \notin free
  BY <1>1 DEF IdsSafe, IdConservation
<1>4. \A k \in 1..n : out[k] # DeleteId(cb)
  BY <1>2, <1>3 DEF Deletions
<1>5. \A i \in Ids : Done(cb) # DeleteId(i) /\ (DeleteId(cb) = DeleteId(i) => i = cb)
  BY DEF Done, DeleteId
<1>6. Deletions(cb)' = {n + 2}
  <2>1. \A k \in 1..(n + 2) : out'[k] = DeleteId(cb) <=> k = n + 2
    BY <1>1, <1>2, <1>4, <1>5
  <2> QED BY <1>2, <2>1 DEF Deletions
<1>7. \A i \in Ids \ {cb} : Deletions(i)' = Deletions(i)
  BY <1>2, <1>5 DEF Deletions
<1>8. IdConservation'
  <2>1. objects'[cb] = "none" /\ cb \notin free' /\ Deletions(cb)' # {}
    BY <1>1, <1>3, <1>6 DEF TypeOK
  <2>2. \A j, k \in Deletions(cb)' : j = k
    BY <1>6
  <2>3. \A i \in Ids \ {cb} : /\ objects'[i] = objects[i]
                              /\ i \in free' <=> i \in free
                              /\ Deletions(i)' = Deletions(i)
    BY <1>1, <1>7 DEF TypeOK
  <2> QED BY <2>1, <2>2, <2>3 DEF IdsSafe, IdConservation
<1>9. NoEventAfterDelete'
  <2> SUFFICES ASSUME NEW j \in DOMAIN out', NEW k \in DOMAIN out', j < k,
                      out'[j].type = "delete_id"
               PROVE  out'[k].id # out'[j].id
    BY DEF NoEventAfterDelete
  <2>1. j \in 1..n
    BY <1>2 DEF Done
  <2>2. CASE k \in 1..n
    BY <1>2, <2>1, <2>2 DEF IdsSafe, NoEventAfterDelete
  <2>3. CASE k \notin 1..n
    <3>1. out'[k].id = cb
      BY <1>2, <2>3 DEF Done, DeleteId
    <3>2. out[j] = DeleteId(out[j].id)
      BY <1>2, <2>1 DEF Events, Error, DeleteId
    <3> QED BY <1>2, <1>4, <2>1, <3>1, <3>2
  <2> QED BY <2>2, <2>3
<1> QED BY <1>8, <1>9 DEF IdsSafe

\* release names a live buffer.
LEMMA PresentReleaseIds ==
  ASSUME TypeOK, IdsSafe, BuffersAreLive, PresentingSurfaces,
         NEW s \in Ids, PresentRelease(s)
  PROVE  IdsSafe'
<1> DEFINE b == userData[s].committedBuffer
<1>1. b \in IdOrNull
  BY TaggedData DEF PresentRelease, PresentingSurfaces, SurfaceState
<1>2. objects' = objects /\ free' = free
  BY DEF PresentRelease, clientVars
<1>3. CASE IsShmBuffer(b) /\ ~userData[b].released
  <2>1. out' = Append(out, Release(b))
    BY <1>3 DEF PresentRelease
  <2>2. b \in Ids /\ objects[b] = "buffer"
    BY <1>1, <1>3 DEF IsShmBuffer, BuffersAreLive, IdOrNull
  <2> HIDE DEF b
  <2>3. Release(b) \in Events /\ Release(b).id = b /\ \A i \in Ids : Release(b) # DeleteId(i)
    BY <2>2, EventTypes DEF Release, DeleteId
  <2>4. NoEventAfterDelete'
    BY <2>1, <2>2, <2>3, QueueEvent
  <2>5. \A i \in Ids : Deletions(i)' = Deletions(i)
    BY <2>1, <2>3, DeletionsAppend
  <2> QED BY <1>2, <2>4, <2>5 DEF IdsSafe, IdConservation
<1>4. CASE ~(IsShmBuffer(b) /\ ~userData[b].released)
  <2>1. out' = out
    BY <1>4 DEF PresentRelease
  <2> QED BY <1>2, <2>1 DEF IdsSafe, IdConservation, NoEventAfterDelete, Deletions
<1> QED BY <1>3, <1>4

\* No request runs while the game thread presents.
LEMMA RequestsWait ==
  ASSUME NEW i \in Ids, SurfaceRequest(i) \/ ShmRequest(i) \/ RoleRequest(i)
  PROVE  PresentingSurfaces'
<1>1. CASE SurfaceRequest(i)
  BY <1>1 DEF SurfaceRequest, CreateSurface, DestroySurface, Attach,
       AttachWithOffset, Frame, StoreValue, CreateRegion, DestroyRegion, Commit,
       Dispatching, PresentingSurfaces
<1>2. CASE ShmRequest(i)
  BY <1>2 DEF ShmRequest, CreatePool, ResizePool, DestroyPool, CreateBuffer,
       CreateSinglePixelBuffer, DestroyBuffer, Dispatching, PresentingSurfaces
<1>3. CASE RoleRequest(i)
  BY <1>3 DEF RoleRequest, GetSubsurface, GetSubsurfaceTwice, SubsurfaceRequest,
       DestroySubsurface, GetViewport, DestroyViewport, Dispatching, PresentingSurfaces
<1> QED BY <1>1, <1>2, <1>3

\* The initial state satisfies the invariant.
LEMMA InitIInv == Init => IInv
<1> SUFFICES ASSUME Init PROVE IInv
  OBVIOUS
<1>1. TypeOK
  BY DEF Init, TypeOK, Kinds, UserData, IdOrNull
<1>2. \A i \in Ids : Pending(i) = <<>> /\ Committed(i) = <<>>
  BY DEF Init, Pending, Committed, IsSurfaceState, Nothing
<1>3. FramesListedOnce
  <2>1. ToSet(<<>>) = {} /\ IsInjective(<<>>) /\ DOMAIN <<>> = {}
    BY DEF ToSet, IsInjective
  <2> QED BY <1>2, <2>1 DEF FramesListedOnce
<1>4. DOMAIN out = {}
  BY DEF Init
<1>5. IdConservation /\ NoEventAfterDelete
  BY <1>4 DEF Init, IdConservation, NoEventAfterDelete, Deletions
<1>6. FramesOnSurfaces /\ PresentingSurfaces /\ BuffersAreLive
  BY <1>2 DEF Init, FramesOnSurfaces, PresentingSurfaces, BuffersAreLive,
       IsShmBuffer, Nothing
<1> QED BY <1>1, <1>3, <1>5, <1>6 DEF IInv

\* Every step preserves the invariant.
LEMMA NextIInv == IInv /\ [Next]_vars => IInv'
<1> SUFFICES ASSUME IInv, [Next]_vars PROVE IInv'
  OBVIOUS
<1>1. TypeOK /\ IdsSafe /\ FramesSafe /\ BuffersAreLive /\ PresentingSurfaces /\ IdConservation
  BY DEF IInv, IdsSafe, FramesSafe
<1>2. SUFFICES IdsSafe' /\ FramesSafe' /\ BuffersAreLive' /\ PresentingSurfaces'
  <2>1. TypeOK'
    BY <1>1, TypeStep
  <2> QED BY <1>2, <2>1 DEF IInv, IdsSafe, FramesSafe
<1>10. ASSUME UNCHANGED <<objects, userData>>
       PROVE  FramesSafe' /\ BuffersAreLive'
  <2>1. ListsShrink /\ ObjectsStay /\ BuffersAreLive'
    BY <1>1, <1>10 DEF ListsShrink, ObjectsStay, BuffersAreLive, Pending,
         Committed, IsSurfaceState, IsShmBuffer
  <2> QED BY <1>1, <2>1, ShrinkFramesSafe
<1>3. ASSUME UNCHANGED <<objects, userData, free, out>>
      PROVE  IdsSafe' /\ FramesSafe' /\ BuffersAreLive'
  <2>1. MovesIds
    BY <1>3 DEF MovesIds, KeepsIds
  <2> QED BY <1>1, <1>10, <1>3, <2>1, MoveIdsSafe
<1>4. ASSUME NEW i \in Ids, SurfaceRequest(i)
      PROVE  IdsSafe' /\ FramesSafe' /\ BuffersAreLive' /\ PresentingSurfaces'
  <2>1. IdsSafe' /\ PresentingSurfaces'
    BY <1>1, <1>4, RequestsMoveIds, MoveIdsSafe, RequestsWait
  <2>2. CASE \E cb \in Ids : Frame(i, cb)
    BY <1>1, <2>1, <2>2, FrameLists
  <2>3. CASE Commit(i)
    BY <1>1, <2>1, <2>3, CommitLists
  <2>4. CASE \/ CreateSurface(i)
             \/ DestroySurface(i)
             \/ \E b \in IdOrNull : Attach(i, b) \/ AttachWithOffset(i, b)
             \/ StoreValue(i) \/ CreateRegion(i) \/ DestroyRegion(i)
    BY <1>1, <2>1, <2>4, SurfaceRequestLists, ShrinkFramesSafe
  <2> QED BY <1>4, <2>2, <2>3, <2>4 DEF SurfaceRequest
<1>5. ASSUME NEW i \in Ids, ShmRequest(i) \/ RoleRequest(i)
      PROVE  IdsSafe' /\ FramesSafe' /\ BuffersAreLive' /\ PresentingSurfaces'
  <2>1. IdsSafe' /\ PresentingSurfaces'
    BY <1>1, <1>5, RequestsMoveIds, MoveIdsSafe, RequestsWait
  <2>2. ListsShrink /\ ObjectsStay /\ BuffersAreLive'
    BY <1>1, <1>5, ShmRequestLists, RoleRequestLists
  <2> QED BY <1>1, <2>1, <2>2, ShrinkFramesSafe
<1>6. CASE BeginPresent
  <2>1. PresentingSurfaces'
    BY <1>1, <1>6 DEF BeginPresent, PresentingSurfaces, FramesSafe,
         FramesOnSurfaces, Committed, IsSurfaceState
  <2> QED BY <1>3, <1>6, <2>1 DEF BeginPresent, clientVars
<1>7. ASSUME NEW s \in Ids, Present(s)
      PROVE  IdsSafe' /\ FramesSafe' /\ BuffersAreLive' /\ PresentingSurfaces'
  BY <1>1, <1>7, PresentDoneLists, PresentDoneIds, PresentReleaseLists,
     PresentReleaseIds DEF Present
<1>8. CASE Receive
  <2>1. IdsSafe'
    BY <1>1, <1>8, ReceiveIdsSafe
  <2>2. FramesSafe' /\ BuffersAreLive' /\ PresentingSurfaces'
    BY <1>1, <1>10, <1>8 DEF Receive, serverVars, PresentingSurfaces, IsSurfaceState
  <2> QED BY <2>1, <2>2
<1>9. CASE UNCHANGED vars
  BY <1>1, <1>3, <1>9 DEF vars, PresentingSurfaces, IsSurfaceState
<1> QED BY <1>4, <1>5, <1>6, <1>7, <1>8, <1>9 DEF Next

\* The inductive invariant holds of every behaviour.
THEOREM Invariant == Spec => []IInv
BY InitIInv, NextIInv, PTL DEF Spec

\* Every variable keeps its type: no handler stores what its slot's readers
\* would not expect.
THEOREM TypeCorrect == Spec => []TypeOK
<1>1. IInv => TypeOK
  BY DEF IInv
<1> QED BY <1>1, Invariant, PTL

\* Whatever the client does, each id is live, or retired by exactly one
\* delete_id under way, or free for the client to use.
THEOREM IdsConserved == Spec => []IdConservation
<1>1. IInv => IdConservation
  BY DEF IInv
<1> QED BY <1>1, Invariant, PTL

\* Whatever the client does, no event follows the delete_id of its object.
THEOREM NothingAfterDelete == Spec => []NoEventAfterDelete
<1>1. IInv => NoEventAfterDelete
  BY DEF IInv
<1> QED BY <1>1, Invariant, PTL

\* Whatever the client does, a callback awaiting its done is live and
\* listed once.
THEOREM FramesOnce == Spec => []FramesListedOnce
<1>1. IInv => FramesListedOnce
  BY DEF IInv
<1> QED BY <1>1, Invariant, PTL

----------------------------------------------------------------------------
(* Clients that destroy roles first: user data matches its object.         *)

\* Every subsurface and every viewport belongs to a live surface.
LinksLive ==
  \A i \in Live("subsurface") \cup Live("viewport") : link[i] \in Live("surface")

DataInv == DataMatchesObject /\ LinksLive

\* The surface a role belongs to has its state.
LEMMA LinkedState ==
  ASSUME TypeOK, DataInv, NEW i \in Live("subsurface") \cup Live("viewport")
  PROVE  /\ link[i] \in Ids /\ link[i] # i
         /\ objects[link[i]] = "surface" /\ IsSurfaceState(link[i])
         /\ MadeState(link[i]) = userData[link[i]]
BY DEF DataInv, LinksLive, DataMatchesObject, Live, MadeState

\* Tags of what the handlers store.
LEMMA StoredTags ==
  ASSUME TypeOK, NEW s \in Ids
  PROVE  /\ MadeState(s).tag = "SurfaceState"
         /\ Snapshot(s).tag = "SurfaceState"
         /\ \A b, r : [MadeState(s) EXCEPT !.pendingBuffer = b, !.bufferCleared = r].tag
                        = "SurfaceState"
         /\ \A q : [MadeState(s) EXCEPT !.pendingFrames = q].tag = "SurfaceState"
         /\ \A r : [MadeState(s) EXCEPT !.role = r].tag = "SurfaceState"
<1> DEFINE m == MadeState(s)
<1>1. m \in SurfaceState
  BY MadeStateType
<1>2. Snapshot(s) \in SurfaceState
  BY SnapshotType
<1> HIDE DEF m
<1>3. /\ m.tag = "SurfaceState" /\ Snapshot(s).tag = "SurfaceState"
      /\ \A b, r : [m EXCEPT !.pendingBuffer = b, !.bufferCleared = r].tag = "SurfaceState"
      /\ \A q : [m EXCEPT !.pendingFrames = q].tag = "SurfaceState"
      /\ \A r : [m EXCEPT !.role = r].tag = "SurfaceState"
  BY <1>1, <1>2 DEF SurfaceState
<1> QED BY <1>3 DEF m

\* Slots and objects that keep their tag and their kind keep matching.
LEMMA DataStep ==
  ASSUME TypeOK, DataInv,
         \A i \in Ids :
           \/ /\ objects'[i] = objects[i]
              /\ userData'[i].tag = userData[i].tag
              /\ link'[i] = link[i]
           \/ /\ (userData'[i].tag = "SurfaceState") <=> objects'[i] = "surface"
              /\ (userData'[i].tag = "ShmBuffer") <=> objects'[i] = "buffer"
              /\ (userData'[i].tag = "ShmPool") <=> objects'[i] = "pool"
              /\ objects[i] = "surface" => objects'[i] = "surface"
              /\ objects'[i] \in {"subsurface", "viewport"} =>
                   objects'[link'[i]] = "surface" /\ link'[i] \in Ids
  PROVE  DataInv'
<1>1. DataMatchesObject'
  BY DEF DataInv, DataMatchesObject, IsSurfaceState
<1>2. LinksLive'
  BY DEF DataInv, LinksLive, Live
<1> QED BY <1>1, <1>2 DEF DataInv

\* An object that is not a surface goes, with its user data.
LEMMA DestroyData ==
  ASSUME TypeOK, DataInv, NEW i \in Ids, DestroyObject(i), objects[i] # "surface",
         link' = link
  PROVE  DataInv'
<1>1. /\ objects'[i] = "none" /\ userData'[i].tag = "none"
      /\ \A j \in Ids \ {i} : objects'[j] = objects[j] /\ userData'[j] = userData[j]
  BY DEF DestroyObject, Nothing, TypeOK
<1> QED BY <1>1, DataStep

\* A surface's state is updated in place.
LEMMA UpdateData ==
  ASSUME TypeOK, DataInv, NEW s \in Ids, objects[s] = "surface", NEW d,
         d.tag = "SurfaceState", userData' = [userData EXCEPT ![s] = d],
         UNCHANGED <<objects, link>>
  PROVE  DataInv'
<1>1. /\ userData'[s].tag = "SurfaceState"
      /\ \A j \in Ids \ {s} : userData'[j] = userData[j]
  BY DEF TypeOK
<1> QED BY <1>1, DataStep

LEMMA SurfaceRequestData ==
  ASSUME TypeOK, IdConservation, DataInv, "rolesFirst" \in Promises,
         NEW s \in Ids, SurfaceRequest(s)
  PROVE  DataInv'
<1>1. CASE CreateSurface(s)
  <2>1. /\ objects[s] = "none" /\ objects'[s] = "surface" /\ link' = link
        /\ \A j \in Ids \ {s} : objects'[j] = objects[j]
    BY <1>1, AllocateObjects DEF CreateSurface, Kinds
  <2>2. /\ userData'[s].tag = "SurfaceState"
        /\ \A j \in Ids \ {s} : userData'[j] = userData[j]
    BY <1>1, StoredTags DEF CreateSurface, TypeOK
  <2> QED BY <2>1, <2>2, DataStep
<1>2. CASE DestroySurface(s)
  <2>1. /\ objects[s] = "surface" /\ link' = link
        /\ objects'[s] = "none" /\ userData'[s].tag = "none"
        /\ \A j \in Ids \ {s} : objects'[j] = objects[j] /\ userData'[j] = userData[j]
        /\ \A i \in Live("subsurface") \cup Live("viewport") : link[i] # s
    BY <1>2 DEF DestroySurface, DestroyObject, Nothing, TypeOK
  <2>2. DataMatchesObject'
    BY <2>1 DEF DataInv, DataMatchesObject, IsSurfaceState
  <2>3. LinksLive'
    BY <2>1 DEF DataInv, LinksLive, Live
  <2> QED BY <2>2, <2>3 DEF DataInv
<1>3. ASSUME NEW b \in IdOrNull, Attach(s, b) \/ AttachWithOffset(s, b)
      PROVE  DataInv'
  <2> DEFINE d == [MadeState(s) EXCEPT !.pendingBuffer = b, !.bufferCleared = (b = NoId)]
  <2>1. /\ objects[s] = "surface" /\ userData' = [userData EXCEPT ![s] = d]
        /\ UNCHANGED <<objects, link>>
    BY <1>3 DEF Attach, AttachWithOffset, Attached
  <2>2. d.tag = "SurfaceState"
    BY StoredTags
  <2> HIDE DEF d
  <2> QED BY <2>1, <2>2, UpdateData
<1>4. ASSUME NEW cb \in Ids, Frame(s, cb)
      PROVE  DataInv'
  <2>1. /\ objects[cb] = "none" /\ objects'[cb] = "callback" /\ link' = link
        /\ objects[s] = "surface" /\ s # cb
        /\ \A j \in Ids \ {cb} : objects'[j] = objects[j]
    BY <1>4, AllocateObjects DEF Frame, Kinds
  <2>2. /\ userData'[s].tag = "SurfaceState"
        /\ \A j \in Ids \ {s} : userData'[j] = userData[j]
    BY <1>4, StoredTags DEF Frame, TypeOK
  <2>3. /\ userData[cb].tag \notin {"SurfaceState", "ShmBuffer", "ShmPool"}
    BY <2>1 DEF DataInv, DataMatchesObject, IsSurfaceState
  <2> QED BY <2>1, <2>2, <2>3, DataStep
<1>5. CASE StoreValue(s)
  BY <1>5, StoredTags, UpdateData DEF StoreValue
<1>6. CASE CreateRegion(s)
  <2>1. /\ objects[s] = "none" /\ objects'[s] = "region" /\ link' = link
        /\ \A j \in Ids \ {s} : objects'[j] = objects[j]
        /\ userData' = userData
    BY <1>6, AllocateObjects DEF CreateRegion, Kinds
  <2>2. /\ userData[s].tag \notin {"SurfaceState", "ShmBuffer", "ShmPool"}
    BY <2>1 DEF DataInv, DataMatchesObject, IsSurfaceState
  <2> QED BY <2>1, <2>2, DataStep
<1>7. CASE DestroyRegion(s)
  BY <1>7, DestroyData DEF DestroyRegion
<1>8. CASE Commit(s)
  <2> DEFINE b == CommitBuffer(s)
  <2>1. /\ objects' = objects /\ link' = link /\ objects[s] = "surface"
        /\ userData'[s].tag = "SurfaceState"
    BY <1>8, StoredTags DEF Commit
  <2>2. \A i \in Ids \ {s} : userData'[i].tag = userData[i].tag
    <3>1. IsShmBuffer(b) => [userData[b] EXCEPT !.released = FALSE].tag = userData[b].tag
      BY SnapshotType, TaggedData DEF IsShmBuffer, ShmBuffer, IdOrNull
    <3> QED BY <1>8, <3>1 DEF Commit
  <2> QED BY <2>1, <2>2, DataStep
<1> QED BY <1>1, <1>2, <1>3, <1>4, <1>5, <1>6, <1>7, <1>8 DEF SurfaceRequest

LEMMA ShmRequestData ==
  ASSUME TypeOK, IdConservation, DataInv, NEW p \in Ids, ShmRequest(p)
  PROVE  DataInv'
<1>1. ASSUME NEW i \in Ids, NEW k \in {"pool", "buffer"}, Allocate(i, k), NEW d,
             d.tag = IF k = "pool" THEN "ShmPool" ELSE "ShmBuffer",
             userData' = [userData EXCEPT ![i] = d], link' = link
      PROVE  DataInv'
  <2>1. /\ objects[i] = "none" /\ objects'[i] = k
        /\ \A j \in Ids \ {i} : objects'[j] = objects[j]
    BY <1>1, AllocateObjects DEF Kinds
  <2>2. userData'[i] = d /\ \A j \in Ids \ {i} : userData'[j] = userData[j]
    BY <1>1 DEF TypeOK
  <2> QED BY <1>1, <2>1, <2>2, DataStep
<1>2. ASSUME NEW n \in 1..MaxSize, CreatePool(p, n)
      PROVE  DataInv'
  BY <1>1, <1>2 DEF CreatePool
<1>3. ASSUME NEW n \in 1..MaxSize, ResizePool(p, n)
      PROVE  DataInv'
  <2>1. /\ objects' = objects /\ link' = link
        /\ \A i \in Ids : userData'[i].tag = userData[i].tag
    BY <1>3, TaggedData DEF ResizePool, ShmPool, TypeOK
  <2> QED BY <2>1, DataStep
<1>4. CASE DestroyPool(p)
  BY <1>4, DestroyData DEF DestroyPool
<1>5. ASSUME NEW b \in Ids, NEW n \in 1..MaxSize, CreateBuffer(p, b, n)
      PROVE  DataInv'
  BY <1>1, <1>5 DEF CreateBuffer
<1>6. CASE CreateSinglePixelBuffer(p)
  BY <1>1, <1>6 DEF CreateSinglePixelBuffer
<1>7. CASE DestroyBuffer(p)
  BY <1>7, DestroyData DEF DestroyBuffer
<1> QED BY <1>2, <1>3, <1>4, <1>5, <1>6, <1>7 DEF ShmRequest

LEMMA RoleRequestData ==
  ASSUME TypeOK, IdConservation, DataInv, NEW i \in Ids, RoleRequest(i)
  PROVE  DataInv'
<1>1. ASSUME NEW s \in Ids, GetSubsurface(i, s)
      PROVE  DataInv'
  <2>1. /\ objects[i] = "none" /\ objects'[i] = "subsurface" /\ objects[s] = "surface"
        /\ \A j \in Ids \ {i} : objects'[j] = objects[j]
        /\ link' = [link EXCEPT ![i] = s]
    BY <1>1, AllocateObjects DEF GetSubsurface, Kinds
  <2>2. /\ userData'[s].tag = "SurfaceState"
        /\ \A j \in Ids \ {s} : userData'[j] = userData[j]
    BY <1>1, StoredTags DEF GetSubsurface, TypeOK
  <2>3. link'[i] = s /\ \A j \in Ids \ {i} : link'[j] = link[j]
    BY <2>1 DEF TypeOK
  <2>4. userData[i].tag \notin {"SurfaceState", "ShmBuffer", "ShmPool"}
    BY <2>1 DEF DataInv, DataMatchesObject, IsSurfaceState
  <2> QED BY <2>1, <2>2, <2>3, <2>4, DataStep
<1>2. CASE GetSubsurfaceTwice(i)
  BY <1>2, DataStep DEF GetSubsurfaceTwice
<1>3. CASE SubsurfaceRequest(i)
  <2>1. userData' = userData
    BY <1>3, LinkedState DEF SubsurfaceRequest, Live, TypeOK
  <2> QED BY <1>3, <2>1, DataStep DEF SubsurfaceRequest
<1>4. CASE DestroySubsurface(i)
  <2> DEFINE s == link[i]
  <2>1. s \in Ids /\ s # i /\ objects[s] = "surface"
    BY <1>4, LinkedState DEF DestroySubsurface, Live
  <2>2. /\ objects[i] = "subsurface" /\ objects'[i] = "none"
        /\ \A j \in Ids \ {i} : objects'[j] = objects[j] /\ link'[j] = link[j]
    BY <1>4 DEF DestroySubsurface, TypeOK
  <2> HIDE DEF s
  <2>3. /\ userData'[i].tag = "none" /\ userData'[s].tag = "SurfaceState"
        /\ \A j \in Ids \ {i, s} : userData'[j] = userData[j]
    BY <1>4, <2>1, StoredTags DEF DestroySubsurface, TypeOK, Nothing, s
  <2> QED BY <2>1, <2>2, <2>3, DataStep
<1>5. ASSUME NEW s \in Ids, GetViewport(i, s)
      PROVE  DataInv'
  <2>1. /\ objects[i] = "none" /\ objects'[i] = "viewport" /\ objects[s] = "surface"
        /\ \A j \in Ids \ {i} : objects'[j] = objects[j]
        /\ link' = [link EXCEPT ![i] = s] /\ userData' = userData
    BY <1>5, AllocateObjects DEF GetViewport, Kinds
  <2>2. link'[i] = s /\ \A j \in Ids \ {i} : link'[j] = link[j]
    BY <2>1 DEF TypeOK
  <2>3. userData[i].tag \notin {"SurfaceState", "ShmBuffer", "ShmPool"}
    BY <2>1 DEF DataInv, DataMatchesObject, IsSurfaceState
  <2> QED BY <2>1, <2>2, <2>3, DataStep
<1>6. CASE DestroyViewport(i)
  <2>1. IsSurfaceState(link[i])
    BY <1>6, LinkedState DEF DestroyViewport, Live
  <2> QED BY <1>6, <2>1, DestroyData DEF DestroyViewport
<1> QED BY <1>1, <1>2, <1>3, <1>4, <1>5, <1>6 DEF RoleRequest

LEMMA PresentData ==
  ASSUME TypeOK, FramesSafe, PresentingSurfaces, DataInv, NEW s \in Ids, Present(s)
  PROVE  DataInv'
<1>1. CASE PresentDone(s)
  <2> DEFINE cb == Head(Committed(s))
  <2>1. /\ cb \in Ids /\ objects[cb] = "callback" /\ objects[s] = "surface"
    BY <1>1, PresentedType, ListFacts DEF PresentDone, PresentingSurfaces
  <2> HIDE DEF cb
  <2>2. objects'[cb] = "none" /\ \A j \in Ids \ {cb} : objects'[j] = objects[j]
    BY <1>1, <2>1 DEF PresentDone, TypeOK, cb
  <2>3. /\ userData' = [userData EXCEPT ![s].committedFrames = Tail(@), ![cb] = Nothing]
        /\ link' = link
    BY <1>1 DEF PresentDone, cb
  <2>4. /\ userData'[cb].tag = "none"
        /\ \A j \in Ids \ {cb} : userData'[j].tag = userData[j].tag
    BY <2>1, <2>3 DEF TypeOK, Nothing, UserData, SurfaceState, ShmPool, ShmBuffer
  <2> QED BY <2>1, <2>2, <2>3, <2>4, DataStep
<1>2. CASE PresentRelease(s)
  <2>1. objects' = objects /\ link' = link
    BY <1>2 DEF PresentRelease
  <2>2. \A j \in Ids : userData'[j].tag = userData[j].tag
    BY <1>2, TaggedData, SMTT(30) DEF PresentRelease, TypeOK, UserData, Nothing, SurfaceState, ShmPool, ShmBuffer
  <2> QED BY <2>1, <2>2, DataStep
<1> QED BY <1>1, <1>2 DEF Present

LEMMA NextData ==
  ASSUME IInv, DataInv, "rolesFirst" \in Promises, [Next]_vars
  PROVE  DataInv'
<1>1. TypeOK /\ IdConservation /\ FramesSafe /\ PresentingSurfaces
  BY DEF IInv, FramesSafe
<1>2. ASSUME UNCHANGED <<objects, userData, link>>
      PROVE  DataInv'
  BY <1>1, <1>2, DataStep
<1>3. CASE BeginPresent \/ Receive \/ UNCHANGED vars
  BY <1>2, <1>3 DEF BeginPresent, Receive, serverVars, vars
<1> QED
  BY <1>1, <1>3, SurfaceRequestData, ShmRequestData, RoleRequestData, PresentData DEF Next

LEMMA InitData == Init => DataInv
BY DEF Init, DataInv, DataMatchesObject, LinksLive, Live, IsSurfaceState, Nothing

----------------------------------------------------------------------------
(* What a surface has: its role, its attached and its committed buffer.    *)

Role(i) == IF IsSurfaceState(i) THEN userData[i].role ELSE "none"
Attachment(i) == IF IsSurfaceState(i) THEN userData[i].pendingBuffer ELSE NoId
Picture(i) == IF IsSurfaceState(i) THEN userData[i].committedBuffer ELSE NoId

LEMMA MadeStateHas ==
  ASSUME TypeOK, NEW i \in Ids
  PROVE  /\ MadeState(i).role = Role(i)
         /\ MadeState(i).pendingBuffer = Attachment(i)
         /\ MadeState(i).committedBuffer = Picture(i)
BY DEF MadeState, NewSurfaceState, Role, Attachment, Picture

\* A new value in one slot changes what that surface has alone.
LEMMA SlotHas ==
  ASSUME TypeOK, NEW s \in Ids, NEW d, userData' = [userData EXCEPT ![s] = d]
  PROVE  /\ \A i \in Ids \ {s} : /\ Role(i)' = Role(i) /\ Attachment(i)' = Attachment(i)
                                 /\ Picture(i)' = Picture(i)
         /\ d.tag = "SurfaceState" => /\ Role(s)' = d.role
                                      /\ Attachment(s)' = d.pendingBuffer
                                      /\ Picture(s)' = d.committedBuffer
         /\ d.tag # "SurfaceState" => /\ Role(s)' = "none" /\ Attachment(s)' = NoId
                                      /\ Picture(s)' = NoId
BY DEF TypeOK, Role, Attachment, Picture, IsSurfaceState

\* Most steps leave a surface what it has, or the surface goes with it.
SurfacesKeep ==
  \A i \in Ids :
    \/ Role(i)' = Role(i) /\ Attachment(i)' = Attachment(i) /\ Picture(i)' = Picture(i)
    \/ /\ objects[i] = "surface" /\ objects'[i] = "none"
       /\ Role(i)' = "none" /\ Attachment(i)' = NoId /\ Picture(i)' = NoId

\* A step that gives or takes a buffer, or a role.
Attaches(s) == \E b \in IdOrNull : Attach(s, b) \/ AttachWithOffset(s, b)
TakesRole(i) == \E s \in Ids : GetSubsurface(i, s)

LEMMA DestroyHas ==
  ASSUME TypeOK, DataInv, NEW i \in Ids, DestroyObject(i)
  PROVE  SurfacesKeep
<1>1. /\ objects'[i] = "none" /\ userData' = [userData EXCEPT ![i] = Nothing]
  BY DEF DestroyObject, TypeOK
<1>2. /\ \A j \in Ids \ {i} : /\ Role(j)' = Role(j) /\ Attachment(j)' = Attachment(j)
                              /\ Picture(j)' = Picture(j)
      /\ Role(i)' = "none" /\ Attachment(i)' = NoId /\ Picture(i)' = NoId
  BY <1>1, SlotHas DEF Nothing
<1>3. objects[i] # "surface" =>
        Role(i) = "none" /\ Attachment(i) = NoId /\ Picture(i) = NoId
  BY DEF DataInv, DataMatchesObject, Role, Attachment, Picture
<1> QED BY <1>1, <1>2, <1>3 DEF SurfacesKeep

\* A slot that holds no surface's state, before or after.
LEMMA OtherHas ==
  ASSUME TypeOK, NEW i \in Ids, ~IsSurfaceState(i), NEW d, d.tag # "SurfaceState",
         userData' = [userData EXCEPT ![i] = d]
  PROVE  SurfacesKeep
BY SlotHas DEF SurfacesKeep, Role, Attachment, Picture

\* A surface's state made, or updated in its lists alone.
LEMMA SameHas ==
  ASSUME TypeOK, NEW i \in Ids, NEW d, userData' = [userData EXCEPT ![i] = d],
         d.tag = "SurfaceState", d.role = Role(i), d.pendingBuffer = Attachment(i),
         d.committedBuffer = Picture(i)
  PROVE  SurfacesKeep
BY SlotHas DEF SurfacesKeep

LEMMA UnchangedHas ==
  ASSUME userData' = userData
  PROVE  SurfacesKeep
BY DEF SurfacesKeep, Role, Attachment, Picture, IsSurfaceState

LEMMA SurfaceRequestKeeps ==
  ASSUME TypeOK, DataInv, NEW s \in Ids, SurfaceRequest(s), ~Attaches(s), ~Commit(s)
  PROVE  SurfacesKeep
<1>1. ASSUME userData' = [userData EXCEPT ![s] = MadeState(s)]
      PROVE  SurfacesKeep
  BY <1>1, StoredTags, MadeStateHas, SameHas
<1>2. CASE DestroySurface(s) \/ DestroyRegion(s)
  BY <1>2, DestroyHas DEF DestroySurface, DestroyRegion
<1>3. ASSUME NEW cb \in Ids, Frame(s, cb)
      PROVE  SurfacesKeep
  <2> DEFINE m == MadeState(s)
             d == [m EXCEPT !.pendingFrames = Append(@, cb)]
  <2>1. userData' = [userData EXCEPT ![s] = d]
    BY <1>3 DEF Frame
  <2>2. m \in SurfaceState /\ d.tag = "SurfaceState"
    BY MadeStateType, StoredTags
  <2>3. m.role = Role(s) /\ m.pendingBuffer = Attachment(s) /\ m.committedBuffer = Picture(s)
    BY MadeStateHas
  <2> HIDE DEF m
  <2>4. d.role = m.role /\ d.pendingBuffer = m.pendingBuffer /\ d.committedBuffer = m.committedBuffer
    BY <2>2 DEF SurfaceState
  <2> HIDE DEF d
  <2> QED BY <2>1, <2>2, <2>3, <2>4, SameHas
<1> QED
  BY <1>1, <1>2, <1>3, UnchangedHas DEF SurfaceRequest, Attaches, CreateSurface,
     StoreValue, CreateRegion

LEMMA ShmRequestKeeps ==
  ASSUME TypeOK, IdConservation, DataInv, NEW p \in Ids, ShmRequest(p)
  PROVE  SurfacesKeep
<1>1. ASSUME NEW i \in Ids, NEW k \in {"pool", "buffer"}, Allocate(i, k), NEW d,
             d.tag # "SurfaceState", userData' = [userData EXCEPT ![i] = d]
      PROVE  SurfacesKeep
  <2>1. ~IsSurfaceState(i)
    BY <1>1 DEF Allocate, IdConservation, DataInv, DataMatchesObject
  <2> QED BY <1>1, <2>1, OtherHas
<1>2. ASSUME NEW n \in 1..MaxSize, CreatePool(p, n)
      PROVE  SurfacesKeep
  BY <1>1, <1>2 DEF CreatePool
<1>3. ASSUME NEW n \in 1..MaxSize, ResizePool(p, n)
      PROVE  SurfacesKeep
  <2> DEFINE d == [userData[p] EXCEPT !.size = n]
  <2>1. userData' = [userData EXCEPT ![p] = d] /\ ~IsSurfaceState(p)
    BY <1>3 DEF ResizePool, IsSurfaceState
  <2>2. d.tag = "ShmPool"
    BY <1>3, TaggedData DEF ResizePool, ShmPool
  <2> HIDE DEF d
  <2> QED BY <2>1, <2>2, OtherHas
<1>4. CASE DestroyPool(p) \/ DestroyBuffer(p)
  BY <1>4, DestroyHas DEF DestroyPool, DestroyBuffer
<1>5. ASSUME NEW b \in Ids, NEW n \in 1..MaxSize, CreateBuffer(p, b, n)
      PROVE  SurfacesKeep
  BY <1>1, <1>5 DEF CreateBuffer
<1>6. CASE CreateSinglePixelBuffer(p)
  BY <1>1, <1>6 DEF CreateSinglePixelBuffer
<1> QED BY <1>2, <1>3, <1>4, <1>5, <1>6 DEF ShmRequest

LEMMA RoleRequestKeeps ==
  ASSUME TypeOK, DataInv, NEW i \in Ids, RoleRequest(i), ~TakesRole(i), ~DestroySubsurface(i)
  PROVE  SurfacesKeep
<1>1. CASE SubsurfaceRequest(i)
  <2>1. userData' = userData
    BY <1>1, LinkedState DEF SubsurfaceRequest, Live, TypeOK
  <2> QED BY <2>1, UnchangedHas
<1>2. CASE DestroyViewport(i)
  BY <1>2, DestroyHas, UnchangedHas DEF DestroyViewport
<1> QED
  BY <1>1, <1>2, UnchangedHas DEF RoleRequest, TakesRole, GetSubsurfaceTwice, GetViewport

LEMMA PresentKeeps ==
  ASSUME TypeOK, FramesSafe, PresentingSurfaces, DataInv, NEW s \in Ids, Present(s)
  PROVE  SurfacesKeep
<1>1. CASE PresentDone(s)
  <2> DEFINE cb == Head(Committed(s))
  <2>1. /\ cb \in Ids /\ objects[cb] = "callback" /\ IsSurfaceState(s)
        /\ userData[s] \in SurfaceState
    BY <1>1, PresentedType, ListFacts, TaggedData DEF PresentDone, PresentingSurfaces
  <2>2. ~IsSurfaceState(cb)
    BY <2>1 DEF DataInv, DataMatchesObject
  <2>3. userData' = [userData EXCEPT ![s].committedFrames = Tail(@), ![cb] = Nothing]
    BY <1>1 DEF PresentDone
  <2> HIDE DEF cb
  <2>4. \A i \in Ids \ {s, cb} : userData'[i] = userData[i]
    BY <2>1, <2>3 DEF TypeOK
  <2>5. /\ userData'[cb].tag = "none" /\ s # cb
        /\ userData'[s] = [userData[s] EXCEPT !.committedFrames = Tail(@)]
    BY <2>1, <2>2, <2>3 DEF TypeOK, Nothing
  <2>6. /\ userData'[s].tag = "SurfaceState" /\ userData'[s].role = userData[s].role
        /\ userData'[s].pendingBuffer = userData[s].pendingBuffer
        /\ userData'[s].committedBuffer = userData[s].committedBuffer
    BY <2>1, <2>5 DEF SurfaceState
  <2> QED
    BY <2>1, <2>2, <2>4, <2>5, <2>6 DEF SurfacesKeep, Role, Attachment, Picture, IsSurfaceState
<1>2. CASE PresentRelease(s)
  <2> DEFINE b == userData[s].committedBuffer
             d == [userData[b] EXCEPT !.released = TRUE]
  <2>1. CASE IsShmBuffer(b) /\ ~userData[b].released
    <3>1. b \in Ids
      BY <1>2, <2>1, TaggedData DEF PresentRelease, PresentingSurfaces, SurfaceState, IsShmBuffer, IdOrNull
    <3>2. d.tag = "ShmBuffer" /\ ~IsSurfaceState(b)
      BY <2>1, <3>1, TaggedData DEF IsShmBuffer, ShmBuffer, IsSurfaceState
    <3>3. userData' = [userData EXCEPT ![b] = d]
      BY <1>2, <2>1 DEF PresentRelease
    <3> HIDE DEF b, d
    <3> QED BY <3>1, <3>2, <3>3, OtherHas
  <2>2. CASE ~(IsShmBuffer(b) /\ ~userData[b].released)
    BY <1>2, <2>2, UnchangedHas DEF PresentRelease
  <2> QED BY <2>1, <2>2
<1> QED BY <1>1, <1>2 DEF Present

\* Commit and the roles change one surface.
LEMMA CommitHas ==
  ASSUME TypeOK, NEW s \in Ids, Commit(s)
  PROVE  /\ Role(s)' = Role(s) /\ Attachment(s)' = NoId /\ Picture(s)' = CommitBuffer(s)
         /\ CommitBuffer(s) \in {NoId, Attachment(s)}
         /\ \A i \in Ids \ {s} : /\ Role(i)' = Role(i) /\ Attachment(i)' = Attachment(i)
                                 /\ Picture(i)' = Picture(i)
<1> DEFINE b == CommitBuffer(s)
           m == MadeState(s)
<1>1. m \in SurfaceState /\ m.role = Role(s) /\ m.pendingBuffer = Attachment(s)
  BY MadeStateType, MadeStateHas
<1>2. b \in {NoId, Attachment(s)}
  BY <1>1 DEF CommitBuffer
<1>3. /\ Snapshot(s).tag = "SurfaceState" /\ Snapshot(s).role = m.role
      /\ Snapshot(s).pendingBuffer = NoId /\ Snapshot(s).committedBuffer = b
  <2>1. Snapshot(s) = [m EXCEPT !.committedBuffer = b, !.bufferCleared = FALSE,
                         !.pendingBuffer = NoId, !.committedFrames = m.pendingFrames,
                         !.pendingFrames = <<>>]
    BY DEF Snapshot
  <2> HIDE DEF m, b
  <2> QED BY <1>1, <2>1 DEF SurfaceState
<1>4. /\ userData'[s] = Snapshot(s)
      /\ \A i \in Ids \ {s} :
           \/ userData'[i] = userData[i]
           \/ ~IsSurfaceState(i) /\ userData'[i].tag = "ShmBuffer"
  <2>1. IsShmBuffer(b) => /\ ~IsSurfaceState(b)
                          /\ [userData[b] EXCEPT !.released = FALSE].tag = "ShmBuffer"
    BY SnapshotType, TaggedData DEF IsShmBuffer, ShmBuffer, IdOrNull, IsSurfaceState
  <2> QED BY <2>1 DEF Commit
<1> HIDE DEF b, m
<1>5. Role(s)' = Role(s) /\ Attachment(s)' = NoId /\ Picture(s)' = b
  BY <1>1, <1>3, <1>4 DEF Role, Attachment, Picture, IsSurfaceState
<1>6. \A i \in Ids \ {s} : /\ Role(i)' = Role(i) /\ Attachment(i)' = Attachment(i)
                           /\ Picture(i)' = Picture(i)
  BY <1>4 DEF Role, Attachment, Picture, IsSurfaceState
<1> QED BY <1>2, <1>5, <1>6 DEF b

LEMMA AttachHas ==
  ASSUME TypeOK, NEW s \in Ids, NEW b \in IdOrNull, Attach(s, b) \/ AttachWithOffset(s, b)
  PROVE  /\ Role(s)' = Role(s) /\ Attachment(s)' = b /\ Picture(s)' = Picture(s)
         /\ \A i \in Ids \ {s} : /\ Role(i)' = Role(i) /\ Attachment(i)' = Attachment(i)
                                 /\ Picture(i)' = Picture(i)
<1> DEFINE m == MadeState(s)
           d == [m EXCEPT !.pendingBuffer = b, !.bufferCleared = (b = NoId)]
<1>1. userData' = [userData EXCEPT ![s] = d]
  BY DEF Attach, AttachWithOffset, Attached
<1>2. m \in SurfaceState /\ m.role = Role(s) /\ m.committedBuffer = Picture(s)
  BY MadeStateType, MadeStateHas
<1> HIDE DEF m
<1>3. /\ d.tag = "SurfaceState" /\ d.role = m.role /\ d.pendingBuffer = b
      /\ d.committedBuffer = m.committedBuffer
  BY <1>2 DEF SurfaceState
<1> HIDE DEF d
<1> QED BY <1>1, <1>2, <1>3, SlotHas

\* A subsurface takes the role of a surface and gives it back.
LEMMA RoleHas ==
  ASSUME TypeOK, NEW s \in Ids, NEW r \in {"none", "subsurface"},
         userData'[s] = [MadeState(s) EXCEPT !.role = r],
         \A i \in Ids \ {s} :
           \/ userData'[i] = userData[i]
           \/ ~IsSurfaceState(i) /\ userData'[i].tag = "none"
  PROVE  /\ Role(s)' = r /\ Attachment(s)' = Attachment(s) /\ Picture(s)' = Picture(s)
         /\ \A i \in Ids \ {s} : /\ Role(i)' = Role(i) /\ Attachment(i)' = Attachment(i)
                                 /\ Picture(i)' = Picture(i)
<1> DEFINE m == MadeState(s)
           d == [m EXCEPT !.role = r]
<1>1. m \in SurfaceState /\ m.pendingBuffer = Attachment(s) /\ m.committedBuffer = Picture(s)
  BY MadeStateType, MadeStateHas
<1>2. userData'[s] = d
  OBVIOUS
<1> HIDE DEF m
<1>3. /\ d.tag = "SurfaceState" /\ d.role = r /\ d.pendingBuffer = m.pendingBuffer
      /\ d.committedBuffer = m.committedBuffer
  BY <1>1 DEF SurfaceState
<1> HIDE DEF d
<1> QED BY <1>1, <1>2, <1>3 DEF Role, Attachment, Picture, IsSurfaceState

LEMMA GetSubsurfaceHas ==
  ASSUME TypeOK, IdConservation, NEW i \in Ids, NEW s \in Ids, GetSubsurface(i, s)
  PROVE  /\ Role(s)' = "subsurface" /\ Attachment(s)' = Attachment(s) /\ Picture(s)' = Picture(s)
         /\ \A j \in Ids \ {s} : /\ Role(j)' = Role(j) /\ Attachment(j)' = Attachment(j)
                                 /\ Picture(j)' = Picture(j)
<1>1. /\ userData'[s] = [MadeState(s) EXCEPT !.role = "subsurface"]
      /\ \A j \in Ids \ {s} : userData'[j] = userData[j]
  BY DEF GetSubsurface, TypeOK
<1> QED BY <1>1, RoleHas

LEMMA DestroySubsurfaceHas ==
  ASSUME TypeOK, DataInv, NEW i \in Ids, DestroySubsurface(i), NEW s, s = link[i]
  PROVE  /\ s \in Ids /\ s # i /\ objects[s] = "surface"
         /\ Role(s)' = "none" /\ Attachment(s)' = Attachment(s) /\ Picture(s)' = Picture(s)
         /\ \A j \in Ids \ {s} : /\ Role(j)' = Role(j) /\ Attachment(j)' = Attachment(j)
                                 /\ Picture(j)' = Picture(j)
<1>1. s \in Ids /\ s # i /\ objects[s] = "surface" /\ ~IsSurfaceState(i)
  BY LinkedState DEF DestroySubsurface, Live, DataInv, DataMatchesObject
<1> DEFINE d == [MadeState(s) EXCEPT !.role = "none"]
<1>2. userData' = [userData EXCEPT ![s] = d, ![i] = Nothing]
  BY DEF DestroySubsurface
<1> HIDE DEF d
<1>3. userData'[s] = d /\ \A j \in Ids \ {s, i} : userData'[j] = userData[j]
  BY <1>1, <1>2 DEF TypeOK
<1>4. userData'[i].tag = "none"
  BY <1>1, <1>2 DEF TypeOK, Nothing
<1>5. \A j \in Ids \ {s} : \/ userData'[j] = userData[j]
                           \/ ~IsSurfaceState(j) /\ userData'[j].tag = "none"
  BY <1>1, <1>3, <1>4
<1>6. userData'[s] = [MadeState(s) EXCEPT !.role = "none"]
  BY <1>3 DEF d
<1>7. s \in Ids
  BY <1>1
<1>8. /\ Role(s)' = "none" /\ Attachment(s)' = Attachment(s) /\ Picture(s)' = Picture(s)
      /\ \A j \in Ids \ {s} : /\ Role(j)' = Role(j) /\ Attachment(j)' = Attachment(j)
                              /\ Picture(j)' = Picture(j)
  BY <1>5, <1>6, <1>7, RoleHas
<1> QED BY <1>1, <1>8

----------------------------------------------------------------------------
(* Clients that send well-formed requests are not disconnected.            *)

\* A surface has a role while a subsurface gives it one.
RolesLinked ==
  \A s \in Ids : Role(s) # "none" => \E i \in Live("subsurface") : link[i] = s

KilledInv == NeverKilled /\ RolesLinked

SubsurfacesStay ==
  \A i \in Live("subsurface") : objects'[i] = "subsurface" /\ link'[i] = link[i]

LEMMA RolesStep ==
  ASSUME RolesLinked, SubsurfacesStay, \A s \in Ids : Role(s)' \in {Role(s), "none"}
  PROVE  RolesLinked'
BY DEF RolesLinked, SubsurfacesStay, Live

LEMMA SubsurfacesStayStep ==
  ASSUME TypeOK, IdConservation, FramesSafe, NEW i \in Ids,
         \/ SurfaceRequest(i) \/ ShmRequest(i) \/ Present(i)
         \/ RoleRequest(i) /\ ~DestroySubsurface(i)
  PROVE  SubsurfacesStay
<1>1. ASSUME NEW j \in Ids, NEW k \in Kinds, Allocate(j, k), link' = link
      PROVE  SubsurfacesStay
  BY <1>1, AllocateObjects DEF SubsurfacesStay, Live
<1>2. ASSUME NEW j \in Ids, objects[j] # "subsurface", link' = link,
             objects' = [objects EXCEPT ![j] = "none"]
      PROVE  SubsurfacesStay
  BY <1>2 DEF SubsurfacesStay, Live, TypeOK
<1>3. ASSUME UNCHANGED <<objects, link>>
      PROVE  SubsurfacesStay
  BY <1>3 DEF SubsurfacesStay, Live
<1>4. CASE SurfaceRequest(i)
  BY <1>1, <1>2, <1>3, <1>4 DEF SurfaceRequest, CreateSurface, DestroySurface, Attach,
     AttachWithOffset, Frame, StoreValue, CreateRegion, DestroyRegion, Commit,
     DestroyObject, Kinds
<1>5. CASE ShmRequest(i)
  BY <1>1, <1>2, <1>3, <1>5 DEF ShmRequest, CreatePool, ResizePool, DestroyPool,
     CreateBuffer, CreateSinglePixelBuffer, DestroyBuffer, DestroyObject, Kinds
<1>6. CASE PresentDone(i)
  <2>1. Head(Committed(i)) \in Ids /\ objects[Head(Committed(i))] = "callback"
    BY <1>6, PresentedType, ListFacts DEF PresentDone
  <2> QED BY <1>2, <1>6, <2>1 DEF PresentDone
<1>7. CASE PresentRelease(i)
  BY <1>3, <1>7 DEF PresentRelease
<1>8. CASE RoleRequest(i) /\ ~DestroySubsurface(i)
  <2>1. ASSUME NEW s \in Ids, NEW k \in {"subsurface", "viewport"}, Allocate(i, k),
               link' = [link EXCEPT ![i] = s]
        PROVE  SubsurfacesStay
    <3>1. objects[i] = "none" /\ \A j \in Ids \ {i} : objects'[j] = objects[j]
      BY <2>1, AllocateObjects DEF Kinds
    <3> QED BY <2>1, <3>1 DEF SubsurfacesStay, Live, TypeOK
  <2> QED
    BY <1>2, <1>3, <1>8, <2>1 DEF RoleRequest, GetSubsurface, GetSubsurfaceTwice,
       SubsurfaceRequest, GetViewport, DestroyViewport, DestroyObject
<1> QED BY <1>4, <1>5, <1>6, <1>7, <1>8 DEF Present

LEMMA NextRoles ==
  ASSUME IInv, DataInv, RolesLinked, [Next]_vars
  PROVE  RolesLinked'
<1>1. TypeOK /\ IdConservation /\ FramesSafe /\ PresentingSurfaces
  BY DEF IInv, FramesSafe
<1>2. ASSUME NEW i \in Ids, SurfaceRequest(i) \/ ShmRequest(i) \/ Present(i)
      PROVE  RolesLinked'
  <2>1. \A s \in Ids : Role(s)' \in {Role(s), "none"}
    BY <1>1, <1>2, SurfaceRequestKeeps, ShmRequestKeeps, PresentKeeps, CommitHas, AttachHas
       DEF SurfacesKeep, Attaches
  <2> QED BY <1>1, <1>2, <2>1, RolesStep, SubsurfacesStayStep
<1>3. ASSUME NEW i \in Ids, RoleRequest(i)
      PROVE  RolesLinked'
  <2>1. ASSUME NEW s \in Ids, GetSubsurface(i, s)
        PROVE  RolesLinked'
    <3>1. /\ \A t \in Ids \ {s} : Role(t)' = Role(t)
          /\ SubsurfacesStay
      BY <1>1, <1>3, <2>1, GetSubsurfaceHas, SubsurfacesStayStep DEF DestroySubsurface,
         GetSubsurface, Allocate, IdConservation
    <3>2. i \in Live("subsurface")' /\ link'[i] = s
      BY <1>1, <2>1 DEF GetSubsurface, Allocate, Live, TypeOK
    <3> QED BY <3>1, <3>2 DEF RolesLinked, SubsurfacesStay, Live
  <2>2. CASE DestroySubsurface(i)
    <3> PICK s : s = link[i]
      OBVIOUS
    <3>1. Role(s)' = "none" /\ \A t \in Ids \ {s} : Role(t)' = Role(t)
      BY <1>1, <2>2, DestroySubsurfaceHas
    <3>2. \A j \in Live("subsurface") \ {i} : j \in Live("subsurface")' /\ link'[j] = link[j]
      BY <1>1, <2>2 DEF DestroySubsurface, Live, TypeOK
    <3> QED BY <3>1, <3>2 DEF RolesLinked
  <2>3. CASE ~TakesRole(i) /\ ~DestroySubsurface(i)
    <3>1. SurfacesKeep /\ SubsurfacesStay
      BY <1>1, <1>3, <2>3, RoleRequestKeeps, SubsurfacesStayStep
    <3> QED BY <3>1, RolesStep DEF SurfacesKeep
  <2> QED BY <2>1, <2>2, <2>3 DEF TakesRole
<1>4. ASSUME UNCHANGED <<objects, userData, link>>
      PROVE  RolesLinked'
  BY <1>4 DEF RolesLinked, Role, IsSurfaceState, Live
<1>5. CASE BeginPresent \/ Receive \/ UNCHANGED vars
  BY <1>4, <1>5 DEF BeginPresent, Receive, serverVars, vars
<1> QED BY <1>2, <1>3, <1>5 DEF Next

\* The three requests that can disconnect a client do not come.
LEMMA NextKilled ==
  ASSUME IInv, DataInv, KilledInv, "wellFormed" \in Promises, [Next]_vars
  PROVE  KilledInv'
<1>1. TypeOK /\ RolesLinked /\ alive
  BY DEF IInv, KilledInv, NeverKilled
<1>2. ASSUME NEW i \in Ids, SurfaceRequest(i) \/ ShmRequest(i) \/ Present(i)
      PROVE  alive'
  BY <1>1, <1>2 DEF SurfaceRequest, CreateSurface, DestroySurface, Attach,
     AttachWithOffset, Frame, StoreValue, CreateRegion, DestroyRegion, Commit,
     ShmRequest, CreatePool, ResizePool, DestroyPool, CreateBuffer,
     CreateSinglePixelBuffer, DestroyBuffer, Present, PresentDone, PresentRelease
<1>3. ASSUME NEW i \in Ids, RoleRequest(i)
      PROVE  alive'
  <2>1. ~GetSubsurfaceTwice(i)
    BY <1>1, MadeStateHas DEF GetSubsurfaceTwice, RolesLinked
  <2>2. DestroyViewport(i) => alive'
    BY <1>1, LinkedState DEF DestroyViewport, Live
  <2> QED BY <1>1, <1>3, <2>1, <2>2 DEF RoleRequest, GetSubsurface, SubsurfaceRequest,
            DestroySubsurface, GetViewport
<1>4. ASSUME BeginPresent \/ Receive \/ UNCHANGED vars
      PROVE  alive'
  BY <1>1, <1>4 DEF BeginPresent, Receive, serverVars, vars
<1>5. alive'
  BY <1>2, <1>3, <1>4 DEF Next
<1> QED BY <1>1, <1>5, NextRoles DEF KilledInv, NeverKilled

LEMMA InitKilled == Init => KilledInv
BY DEF Init, KilledInv, NeverKilled, RolesLinked, Role, IsSurfaceState, Nothing

\* For every set of ids, a client that destroys roles before their surface
\* has user data of the type of its object in every slot. (makeUserData and
\* the requests of a sub-surface whose surface is gone)
THEOREM DataMatches ==
  ASSUME "rolesFirst" \in Promises
  PROVE  Spec => []DataMatchesObject
<1>1. Init => DataInv
  BY InitData
<1>2. IInv /\ DataInv /\ [Next]_vars => DataInv'
  BY NextData
<1>3. DataInv => DataMatchesObject
  BY DEF DataInv
<1> QED BY <1>1, <1>2, <1>3, Invariant, PTL DEF Spec

\* For every set of ids, a client that destroys roles before their surface and
\* asks what the protocol allows is never disconnected. (sendError)
THEOREM WellFormedStays ==
  ASSUME {"wellFormed", "rolesFirst"} \subseteq Promises
  PROVE  Spec => []NeverKilled
<1>1. Init => DataInv /\ KilledInv
  BY InitData, InitKilled
<1>2. IInv /\ DataInv /\ KilledInv /\ [Next]_vars => DataInv' /\ KilledInv'
  BY NextData, NextKilled
<1>3. KilledInv => NeverKilled
  BY DEF KilledInv
<1> QED BY <1>1, <1>2, <1>3, Invariant, PTL DEF Spec

----------------------------------------------------------------------------
(* Clients that wait for release: lent buffers.                            *)

\* The client lends live buffers only.
LentLive == lent \subseteq Live("buffer")

\* No event is on its way to an id the client may allocate.
FreeUnheard == \A k \in DOMAIN out : out[k].id \notin free

\* An attached buffer is alive, not lent, and attached once.
AttachedOnce ==
  \A s \in Ids : Attachment(s) # NoId =>
    /\ Attachment(s) \in Live("buffer") \ lent
    /\ \A t \in Ids \ {s} : Attachment(t) # Attachment(s)

Awaits(s) == (Committed(s) # <<>> \/ s \in presenting) /\ Picture(s) # NoId

\* A surface that awaits its frame holds its own buffer, marked in use.
AwaitsRelease ==
  \A s \in Ids : Awaits(s) =>
    /\ Picture(s) \in lent /\ ~userData[Picture(s)].released
    /\ \A t \in Ids \ {s} : Awaits(t) => Picture(t) # Picture(s)

OwedRelease ==
  \A b \in Live("buffer") :
    /\ b \in lent /\ userData[b].released => \E k \in Nat : Releases(b) = {k}
    /\ b \notin lent \/ ~userData[b].released => Releases(b) = {}
    /\ b \notin lent /\ userData[b].pool # NoId => userData[b].released

LendInv ==
  /\ LentLive
  /\ FreeUnheard
  /\ AttachedOnce
  /\ AwaitsRelease
  /\ OwedRelease

----------------------------------------------------------------------------
(* The frame pump implements its contract.                                 *)

\* A callback listed by a surface was requested on it.
PendingRequested ==
  \A s \in Ids : \A c \in ToSet(Pending(s)) : frameOf[c] = s

\* done comes last: its callback is gone.
DoneIsLast == \A k \in DOMAIN out : out[k].type = "done" => objects[out[k].id] = "none"

\* A callback the client awaits is alive, or its done is on the way.
AwaitedLive ==
  \A c \in Ids : frameOf[c] # NoId =>
    objects[c] = "callback" \/ \E k \in DOMAIN out : out[k] = Done(c)

FrameInv == PendingRequested /\ DoneIsLast /\ AwaitedLive
----------------------------------------------------------------------------
(* What the steps do to pools and buffers.                                 *)

\* Pools and buffers stay what they are, and no buffer is new.
ShmKeeps ==
  \A i \in Ids :
    objects[i] \in {"pool", "buffer"} \/ objects'[i] = "buffer" =>
      objects'[i] = objects[i] /\ userData'[i] = userData[i]

\* One slot of another kind changes.
LEMMA OtherSlotKeeps ==
  ASSUME TypeOK, NEW i \in Ids, objects[i] \notin {"pool", "buffer"}, objects'[i] # "buffer",
         \A j \in Ids \ {i} : objects'[j] = objects[j] /\ userData'[j] = userData[j]
  PROVE  ShmKeeps
BY DEF ShmKeeps

LEMMA AllocateKeeps ==
  ASSUME TypeOK, IdConservation, NEW i \in Ids, NEW k \in Kinds \ {"buffer"}, Allocate(i, k),
         \/ userData' = userData
         \/ \E d : userData' = [userData EXCEPT ![i] = d]
  PROVE  ShmKeeps
BY AllocateObjects, OtherSlotKeeps DEF TypeOK

LEMMA DestroyKeeps ==
  ASSUME TypeOK, NEW i \in Ids, objects[i] \notin {"pool", "buffer"}, DestroyObject(i)
  PROVE  ShmKeeps
BY OtherSlotKeeps DEF TypeOK, DestroyObject

LEMMA SameObjectsKeep ==
  ASSUME TypeOK, objects' = objects, NEW i \in Ids, objects[i] \notin {"pool", "buffer"},
         \/ userData' = userData
         \/ \E d : userData' = [userData EXCEPT ![i] = d]
  PROVE  ShmKeeps
BY OtherSlotKeeps DEF TypeOK

LEMMA SurfaceRequestShm ==
  ASSUME TypeOK, IdConservation, NEW s \in Ids, SurfaceRequest(s), ~Commit(s)
  PROVE  ShmKeeps
<1>1. CASE CreateSurface(s) \/ CreateRegion(s)
  BY <1>1, AllocateKeeps DEF CreateSurface, CreateRegion, Kinds
<1>2. CASE DestroySurface(s) \/ DestroyRegion(s)
  BY <1>2, DestroyKeeps DEF DestroySurface, DestroyRegion
<1>3. CASE Attaches(s) \/ StoreValue(s)
  BY <1>3, SameObjectsKeep DEF Attaches, Attach, AttachWithOffset, Attached, StoreValue
<1>4. ASSUME NEW cb \in Ids, Frame(s, cb)
      PROVE  ShmKeeps
  <2>1. /\ objects[cb] = "none" /\ objects'[cb] = "callback" /\ objects[s] = "surface"
        /\ \A j \in Ids \ {cb} : objects'[j] = objects[j]
    BY <1>4, AllocateObjects DEF Frame, Kinds
  <2>2. \A j \in Ids \ {s} : userData'[j] = userData[j]
    BY <1>4 DEF Frame, TypeOK
  <2> QED BY <2>1, <2>2 DEF ShmKeeps
<1> QED BY <1>1, <1>2, <1>3, <1>4 DEF SurfaceRequest, Attaches

LEMMA RoleRequestShm ==
  ASSUME TypeOK, IdConservation, DataInv, NEW i \in Ids, RoleRequest(i)
  PROVE  ShmKeeps
<1>1. ASSUME NEW s \in Ids, GetSubsurface(i, s)
      PROVE  ShmKeeps
  <2>1. /\ objects[i] = "none" /\ objects'[i] = "subsurface" /\ objects[s] = "surface"
        /\ \A j \in Ids \ {i} : objects'[j] = objects[j]
    BY <1>1, AllocateObjects DEF GetSubsurface, Kinds
  <2>2. \A j \in Ids \ {s} : userData'[j] = userData[j]
    BY <1>1 DEF GetSubsurface, TypeOK
  <2> QED BY <2>1, <2>2 DEF ShmKeeps
<1>2. CASE GetSubsurfaceTwice(i)
  BY <1>2, SameObjectsKeep DEF GetSubsurfaceTwice
<1>3. CASE SubsurfaceRequest(i)
  <2>1. userData' = userData
    BY <1>3, LinkedState DEF SubsurfaceRequest, Live, TypeOK
  <2> QED BY <1>3, <2>1 DEF SubsurfaceRequest, ShmKeeps
<1>4. CASE DestroySubsurface(i)
  <2> PICK s : s = link[i]
    OBVIOUS
  <2>1. s \in Ids /\ s # i /\ objects[s] = "surface" /\ objects[i] = "subsurface"
    BY <1>4, LinkedState DEF DestroySubsurface, Live
  <2> DEFINE d == [MadeState(s) EXCEPT !.role = "none"]
  <2>2. /\ userData' = [userData EXCEPT ![s] = d, ![i] = Nothing]
        /\ objects' = [objects EXCEPT ![i] = "none"]
    BY <1>4 DEF DestroySubsurface
  <2> HIDE DEF d
  <2>3. /\ \A j \in Ids \ {s, i} : userData'[j] = userData[j]
        /\ \A j \in Ids \ {i} : objects'[j] = objects[j]
        /\ objects'[i] = "none"
    BY <2>1, <2>2 DEF TypeOK
  <2> QED BY <2>1, <2>3 DEF ShmKeeps
<1>5. ASSUME NEW s \in Ids, GetViewport(i, s)
      PROVE  ShmKeeps
  BY <1>5, AllocateKeeps DEF GetViewport, Kinds
<1>6. CASE DestroyViewport(i)
  BY <1>6, DestroyKeeps, SameObjectsKeep DEF DestroyViewport
<1> QED BY <1>1, <1>2, <1>3, <1>4, <1>5, <1>6 DEF RoleRequest

LEMMA PresentDoneShm ==
  ASSUME TypeOK, FramesSafe, PresentingSurfaces, NEW s \in Ids, PresentDone(s)
  PROVE  ShmKeeps
<1> PICK cb : cb = Head(Committed(s))
  OBVIOUS
<1>1. /\ cb \in Ids /\ objects[cb] = "callback" /\ objects[s] = "surface"
  BY PresentedType, ListFacts DEF PresentDone, PresentingSurfaces
<1>2. objects' = [objects EXCEPT ![cb] = "none"]
  BY DEF PresentDone
<1>3. \A j \in Ids \ {s, cb} : userData'[j] = userData[j]
  BY <1>1 DEF PresentDone, TypeOK
<1> QED BY <1>1, <1>2, <1>3 DEF ShmKeeps, TypeOK

\* commit and release mark one buffer.
LEMMA CommitShm ==
  ASSUME TypeOK, DataInv, NEW s \in Ids, Commit(s), NEW b, b = CommitBuffer(s)
  PROVE  /\ objects' = objects
         /\ \A i \in Ids : objects[i] = "pool" => userData'[i] = userData[i]
         /\ \A i \in Live("buffer") \ {b} : userData'[i] = userData[i]
         /\ b \in Live("buffer") =>
              /\ userData'[b].tag = "ShmBuffer" /\ ~userData'[b].released
              /\ userData'[b].pool = userData[b].pool
              /\ userData'[b].extent = userData[b].extent
<1>1. /\ objects' = objects /\ objects[s] = "surface"
      /\ \A i \in Ids : userData'[i] = IF i = s THEN Snapshot(s)
                                       ELSE IF i = b /\ IsShmBuffer(b)
                                            THEN [userData[b] EXCEPT !.released = FALSE]
                                            ELSE userData[i]
  BY DEF Commit
<1>2. ASSUME b \in Live("buffer")
      PROVE  b \in Ids /\ IsShmBuffer(b) /\ userData[b] \in ShmBuffer /\ b # s
  BY <1>1, <1>2, NoIdAssumption, TaggedData
     DEF Live, DataInv, DataMatchesObject, IsShmBuffer
<1>3. ASSUME userData[b] \in ShmBuffer
      PROVE  /\ [userData[b] EXCEPT !.released = FALSE].tag = "ShmBuffer"
             /\ ~[userData[b] EXCEPT !.released = FALSE].released
             /\ [userData[b] EXCEPT !.released = FALSE].pool = userData[b].pool
             /\ [userData[b] EXCEPT !.released = FALSE].extent = userData[b].extent
  BY <1>3 DEF ShmBuffer
<1>4. ASSUME IsShmBuffer(b), b \in Ids
      PROVE  objects[b] = "buffer"
  BY <1>4 DEF IsShmBuffer, DataInv, DataMatchesObject
<1> QED BY <1>1, <1>2, <1>3, <1>4 DEF Live

LEMMA PresentReleaseShm ==
  ASSUME TypeOK, DataInv, PresentingSurfaces, NEW s \in Ids, PresentRelease(s),
         NEW b, b = Picture(s)
  PROVE  /\ objects' = objects
         /\ \A i \in Ids : objects[i] = "pool" => userData'[i] = userData[i]
         /\ \A i \in Live("buffer") \ {b} : userData'[i] = userData[i]
         /\ b \in Live("buffer") =>
              /\ userData'[b].tag = "ShmBuffer" /\ userData'[b].released
              /\ userData'[b].pool = userData[b].pool
              /\ userData'[b].extent = userData[b].extent
<1>1. /\ objects' = objects
      /\ userData' = IF IsShmBuffer(b) /\ ~userData[b].released
                     THEN [userData EXCEPT ![b] = [userData[b] EXCEPT !.released = TRUE]]
                     ELSE userData
  BY DEF PresentRelease, PresentingSurfaces, Picture
<1>2. ASSUME b \in Live("buffer")
      PROVE  b \in Ids /\ IsShmBuffer(b) /\ userData[b] \in ShmBuffer
  BY <1>2, NoIdAssumption, TaggedData DEF Live, DataInv, DataMatchesObject, IsShmBuffer
<1>3. ASSUME userData[b] \in ShmBuffer
      PROVE  /\ [userData[b] EXCEPT !.released = TRUE].tag = "ShmBuffer"
             /\ [userData[b] EXCEPT !.released = TRUE].released
             /\ [userData[b] EXCEPT !.released = TRUE].pool = userData[b].pool
             /\ [userData[b] EXCEPT !.released = TRUE].extent = userData[b].extent
             /\ userData[b].tag = "ShmBuffer"
  BY <1>3 DEF ShmBuffer
<1>4. ASSUME IsShmBuffer(b), b \in Ids
      PROVE  objects[b] = "buffer"
  BY <1>4 DEF IsShmBuffer, DataInv, DataMatchesObject
<1>5. \A i \in Ids \ {b} : userData'[i] = userData[i]
  BY <1>1 DEF TypeOK
<1>6. b \in Live("buffer") =>
        userData'[b] = IF ~userData[b].released
                       THEN [userData[b] EXCEPT !.released = TRUE] ELSE userData[b]
  BY <1>1, <1>2 DEF TypeOK
<1>7. b \in Ids /\ objects[b] = "pool" => userData'[b] = userData[b]
  BY <1>1, <1>4
<1> QED BY <1>1, <1>2, <1>3, <1>5, <1>6, <1>7 DEF Live

----------------------------------------------------------------------------
(* Clients that wait for release: lent buffers.                            *)

\* The queue gains no release, or one.
LEMMA ReleasesSame ==
  ASSUME TypeOK, NEW e \in Events, e.type # "release",
         out' = out \/ out' = Append(out, e)
  PROVE  \A b \in Ids : Releases(b)' = Releases(b)
<1>1. /\ Len(out) \in Nat /\ DOMAIN out = 1..Len(out)
      /\ out' = out \/
           /\ DOMAIN out' = 1..(Len(out) + 1) /\ out'[Len(out) + 1] = e
           /\ \A k \in 1..Len(out) : out'[k] = out[k]
  BY DEF TypeOK
<1>2. \A b \in Ids : e # Release(b)
  BY DEF Release
<1> QED BY <1>1, <1>2 DEF Releases

LEMMA ReleasesAppend ==
  ASSUME TypeOK, NEW b \in Ids, out' = Append(out, Release(b))
  PROVE  /\ Releases(b)' = Releases(b) \cup {Len(out) + 1}
         /\ \A i \in Ids \ {b} : Releases(i)' = Releases(i)
<1>1. /\ Len(out) \in Nat /\ DOMAIN out = 1..Len(out)
      /\ DOMAIN out' = 1..(Len(out) + 1) /\ out'[Len(out) + 1] = Release(b)
      /\ \A k \in 1..Len(out) : out'[k] = out[k]
  BY EventTypes DEF TypeOK
<1>2. \A i \in Ids \ {b} : Release(b) # Release(i)
  BY DEF Release
<1> QED BY <1>1, <1>2 DEF Releases

LEMMA ReleasesTail ==
  ASSUME TypeOK, out # <<>>, out' = Tail(out)
  PROVE  \A b \in Ids : Releases(b)' = {k - 1 : k \in Releases(b) \ {1}}
<1>1. /\ Len(out) \in Nat \ {0}
      /\ DOMAIN out = 1..Len(out)
      /\ DOMAIN out' = 1..(Len(out) - 1)
      /\ \A k \in 1..(Len(out) - 1) : out'[k] = out[k + 1]
  BY DEF TypeOK
<1>2. \A k \in DOMAIN out' : k + 1 \in DOMAIN out \ {1}
  BY <1>1
<1>3. \A k \in DOMAIN out \ {1} : k - 1 \in DOMAIN out' /\ out'[k - 1] = out[k]
  BY <1>1
<1> QED BY <1>1, <1>2, <1>3 DEF Releases

LEMMA MovesKeepReleases ==
  ASSUME TypeOK, MovesIds
  PROVE  \A b \in Ids : Releases(b)' = Releases(b)
<1>1. PICK e \in Events : e.type # "release" /\ (out' = out \/ out' = Append(out, e))
  <2>1. Error \in Events /\ Error.type # "release"
    BY DEF Error, Events
  <2>2. \A i \in Ids : DeleteId(i) \in Events /\ DeleteId(i).type # "release"
    BY DEF DeleteId, Events
  <2> QED BY <2>1, <2>2 DEF MovesIds, AllocatesId, RetiresId, QueuesError, KeepsIds
<1> QED BY <1>1, ReleasesSame

\* The callback of a done, and what its step queues.
LEMMA DoneQueues ==
  ASSUME TypeOK, FramesSafe, NEW s \in Ids, PresentDone(s)
  PROVE  \E cb \in Ids :
           /\ objects[cb] = "callback" /\ cb \in ToSet(Committed(s))
           /\ objects' = [objects EXCEPT ![cb] = "none"]
           /\ DOMAIN out = 1..Len(out) /\ DOMAIN out' = 1..(Len(out) + 2) /\ Len(out) \in Nat
           /\ \A k \in 1..Len(out) : out'[k] = out[k]
           /\ out'[Len(out) + 1] = Done(cb) /\ out'[Len(out) + 2] = DeleteId(cb)
<1> PICK cb : cb = Head(Committed(s))
  OBVIOUS
<1>1. /\ cb \in Ids /\ objects[cb] = "callback" /\ cb \in ToSet(Committed(s))
  BY PresentedType, ListFacts DEF PresentDone, ToSet
<1>2. /\ out' = Append(Append(out, Done(cb)), DeleteId(cb))
      /\ objects' = [objects EXCEPT ![cb] = "none"]
  BY <1>1 DEF PresentDone
<1>3. /\ DOMAIN out = 1..Len(out) /\ DOMAIN out' = 1..(Len(out) + 2) /\ Len(out) \in Nat
      /\ \A k \in 1..Len(out) : out'[k] = out[k]
      /\ out'[Len(out) + 1] = Done(cb) /\ out'[Len(out) + 2] = DeleteId(cb)
  BY <1>1, <1>2, EventTypes DEF TypeOK
<1> QED BY <1>1, <1>2, <1>3

\* Events are queued for ids in use; an id is free once its last is read.
LEMMA NextUnheard ==
  ASSUME IInv, FreeUnheard, [Next]_vars
  PROVE  FreeUnheard'
<1>1. TypeOK /\ IdConservation /\ NoEventAfterDelete /\ FramesSafe /\ BuffersAreLive
      /\ PresentingSurfaces
  BY DEF IInv, FramesSafe
<1>2. ASSUME NEW e, out' = Append(out, e), e.id \notin free', free' \subseteq free
      PROVE  FreeUnheard'
  <2>1. /\ Len(out) \in Nat /\ DOMAIN out = 1..Len(out)
        /\ DOMAIN out' = 1..(Len(out) + 1) /\ out'[Len(out) + 1] = e
        /\ \A k \in 1..Len(out) : out'[k] = out[k]
    BY <1>1, <1>2 DEF TypeOK
  <2> QED BY <1>2, <2>1 DEF FreeUnheard
<1>3. ASSUME out' = out, free' \subseteq free
      PROVE  FreeUnheard'
  BY <1>3 DEF FreeUnheard
<1>4. ASSUME NEW i \in Ids, SurfaceRequest(i) \/ ShmRequest(i) \/ RoleRequest(i)
      PROVE  FreeUnheard'
  <2>1. MovesIds
    BY <1>4, RequestsMoveIds
  <2>2. CASE QueuesError
    BY <1>1, <1>2, <2>2, NoIdAssumption DEF QueuesError, Error, TypeOK
  <2>3. ASSUME NEW j \in Ids, RetiresId(j)
        PROVE  FreeUnheard'
    BY <1>1, <1>2, <2>3 DEF RetiresId, DeleteId, IdConservation
  <2> QED BY <1>3, <2>1, <2>2, <2>3 DEF MovesIds, AllocatesId, KeepsIds, Allocate
<1>5. ASSUME NEW s \in Ids, PresentDone(s)
      PROVE  FreeUnheard'
  <2>1. free' = free
    BY <1>5 DEF PresentDone, clientVars
  <2>2. PICK cb \in Ids :
          /\ objects[cb] = "callback"
          /\ DOMAIN out = 1..Len(out) /\ DOMAIN out' = 1..(Len(out) + 2) /\ Len(out) \in Nat
          /\ \A k \in 1..Len(out) : out'[k] = out[k]
          /\ out'[Len(out) + 1] = Done(cb) /\ out'[Len(out) + 2] = DeleteId(cb)
    BY <1>1, <1>5, DoneQueues
  <2>3. cb \notin free /\ Done(cb).id = cb /\ DeleteId(cb).id = cb
    BY <1>1, <2>2 DEF IdConservation, Done, DeleteId
  <2> SUFFICES ASSUME NEW k \in DOMAIN out'
               PROVE  out'[k].id \notin free
    BY <2>1 DEF FreeUnheard
  <2>4. k \in 1..Len(out) \/ k = Len(out) + 1 \/ k = Len(out) + 2
    BY <2>2
  <2> QED BY <2>2, <2>3, <2>4 DEF FreeUnheard
<1>6. ASSUME NEW s \in Ids, PresentRelease(s)
      PROVE  FreeUnheard'
  <2> PICK b : b = userData[s].committedBuffer
    OBVIOUS
  <2>1. b \in Ids \cup {NoId}
    BY <1>1, <1>6, TaggedData DEF PresentRelease, PresentingSurfaces, SurfaceState, IdOrNull
  <2>2. IsShmBuffer(b) => b \notin free
    BY <1>1, <2>1 DEF IsShmBuffer, BuffersAreLive, IdConservation
  <2> QED BY <1>2, <1>3, <1>6, <2>2 DEF PresentRelease, clientVars, Release
<1>7. CASE Receive
  <2> DEFINE e == Head(out)
  <2>1. /\ Len(out) \in Nat \ {0} /\ DOMAIN out = 1..Len(out)
        /\ DOMAIN out' = 1..(Len(out) - 1)
        /\ \A k \in 1..(Len(out) - 1) : out'[k] = out[k + 1]
        /\ e = out[1]
    <3>1. out \in Seq(Events) /\ out # <<>> /\ out' = Tail(out)
      BY <1>1, <1>7 DEF TypeOK, Receive
    <3> QED BY <3>1
  <2>2. free' = IF e.type = "delete_id" THEN free \cup {e.id} ELSE free
    BY <1>7 DEF Receive
  <2> QED BY <1>1, <2>1, <2>2, SMTT(30) DEF FreeUnheard, NoEventAfterDelete
<1>8. CASE BeginPresent \/ UNCHANGED vars
  BY <1>3, <1>8 DEF BeginPresent, clientVars, vars
<1> QED BY <1>4, <1>5, <1>6, <1>7, <1>8 DEF Next, Present

LendCore == LentLive /\ AttachedOnce /\ AwaitsRelease /\ OwedRelease

\* Surfaces take no buffer and begin no wait.
HoldsLess ==
  \A s \in Ids : /\ Attachment(s)' \in {Attachment(s), NoId}
                 /\ Picture(s)' \in {Picture(s), NoId}
                 /\ Awaits(s)' => Awaits(s)

\* A buffer stays what it is, but that a new one comes unlent and a buffer
\* neither attached nor lent may go.
BuffersKeep ==
  \A b \in Ids :
    /\ objects'[b] = "buffer" =>
         \/ objects[b] = "buffer" /\ userData'[b] = userData[b]
         \/ /\ objects[b] = "none" /\ b \in free
            /\ userData'[b].pool # NoId => userData'[b].released
    /\ objects[b] = "buffer" /\ objects'[b] # "buffer" =>
         b \notin lent /\ \A s \in Ids : Attachment(s) # b

LEMMA LendKeeps ==
  ASSUME TypeOK, LendCore, FreeUnheard, HoldsLess, BuffersKeep, lent' = lent,
         \A b \in Ids : Releases(b)' = Releases(b)
  PROVE  LendCore'
<1> USE DEF LendCore
<1>1. \A b \in lent : objects[b] = "buffer" /\ objects'[b] = "buffer" /\ userData'[b] = userData[b]
  BY DEF LentLive, Live, BuffersKeep, TypeOK
<1>2. LentLive'
  BY <1>1 DEF LentLive, Live, TypeOK
<1>3. AttachedOnce'
  BY DEF AttachedOnce, HoldsLess, BuffersKeep, Live
<1>4. AwaitsRelease'
  <2> SUFFICES ASSUME NEW s \in Ids, Awaits(s)'
               PROVE  /\ Picture(s)' \in lent' /\ ~userData'[Picture(s)'].released
                      /\ \A t \in Ids \ {s} : Awaits(t)' => Picture(t)' # Picture(s)'
    BY DEF AwaitsRelease
  <2>1. \A t \in Ids : Awaits(t)' => Awaits(t) /\ Picture(t)' = Picture(t)
    BY DEF HoldsLess, Awaits
  <2> QED BY <1>1, <2>1 DEF AwaitsRelease
<1>5. OwedRelease'
  <2> SUFFICES ASSUME NEW b \in Ids, objects'[b] = "buffer"
               PROVE  /\ b \in lent /\ userData'[b].released => \E k \in Nat : Releases(b) = {k}
                      /\ b \notin lent \/ ~userData'[b].released => Releases(b) = {}
                      /\ b \notin lent /\ userData'[b].pool # NoId => userData'[b].released
    BY DEF OwedRelease, Live
  <2>1. CASE objects[b] = "buffer" /\ userData'[b] = userData[b]
    BY <2>1 DEF OwedRelease, Live
  <2>2. CASE objects[b] = "none" /\ b \in free
    <3>1. b \notin lent
      BY <2>2 DEF LentLive, Live
    <3>2. Releases(b) = {}
      BY <2>2 DEF Releases, FreeUnheard, Release
    <3> QED BY <2>2, <3>1, <3>2 DEF BuffersKeep
  <2> QED BY <2>1, <2>2 DEF BuffersKeep
<1> QED BY <1>2, <1>3, <1>4, <1>5

LEMMA ShmKeepsBuffers == ShmKeeps => BuffersKeep
BY DEF ShmKeeps, BuffersKeep

\* A request leaves the presentation alone.
LEMMA RequestsPresent ==
  ASSUME NEW i \in Ids, SurfaceRequest(i) \/ ShmRequest(i) \/ RoleRequest(i)
  PROVE  presenting' = presenting /\ presenting = {}
<1>1. CASE SurfaceRequest(i)
  BY <1>1 DEF SurfaceRequest, CreateSurface, DestroySurface, Attach,
       AttachWithOffset, Frame, StoreValue, CreateRegion, DestroyRegion, Commit,
       Dispatching
<1>2. CASE ShmRequest(i)
  BY <1>2 DEF ShmRequest, CreatePool, ResizePool, DestroyPool, CreateBuffer,
       CreateSinglePixelBuffer, DestroyBuffer, Dispatching
<1>3. CASE RoleRequest(i)
  BY <1>3 DEF RoleRequest, GetSubsurface, GetSubsurfaceTwice, SubsurfaceRequest,
       DestroySubsurface, GetViewport, DestroyViewport, Dispatching
<1> QED BY <1>1, <1>2, <1>3

\* ... and lends nothing unless it commits.
LEMMA RequestsLend ==
  ASSUME NEW i \in Ids,
         \/ SurfaceRequest(i) /\ ~Commit(i)
         \/ ShmRequest(i) /\ ~DestroyBuffer(i)
         \/ RoleRequest(i)
  PROVE  lent' = lent
<1>1. CASE SurfaceRequest(i) /\ ~Commit(i)
  BY <1>1 DEF SurfaceRequest, CreateSurface, DestroySurface, Attach,
       AttachWithOffset, Frame, StoreValue, CreateRegion, DestroyRegion, clientVars
<1>2. CASE ShmRequest(i) /\ ~DestroyBuffer(i)
  BY <1>2 DEF ShmRequest, CreatePool, ResizePool, DestroyPool, CreateBuffer,
       CreateSinglePixelBuffer, clientVars
<1>3. CASE RoleRequest(i)
  BY <1>3 DEF RoleRequest, GetSubsurface, GetSubsurfaceTwice, SubsurfaceRequest,
       DestroySubsurface, GetViewport, DestroyViewport, clientVars
<1> QED BY <1>1, <1>2, <1>3

\* frame and commit on the lists.
LEMMA FrameHasLists ==
  ASSUME TypeOK, NEW s \in Ids, NEW cb \in Ids, Frame(s, cb)
  PROVE  /\ Pending(s)' = Append(Pending(s), cb)
         /\ \A i \in Ids \ {s} : Pending(i)' = Pending(i)
         /\ \A i \in Ids : Committed(i)' = Committed(i)
<1> DEFINE d == [MadeState(s) EXCEPT !.pendingFrames = Append(@, cb)]
<1>1. /\ d.tag = "SurfaceState" /\ d.pendingFrames = Append(Pending(s), cb)
      /\ d.committedFrames = Committed(s)
  BY MadeStateType, MadeStateLists DEF SurfaceState
<1>2. userData' = [userData EXCEPT ![s] = d]
  BY DEF Frame
<1> HIDE DEF d
<1> QED BY <1>1, <1>2, OneSlot

LEMMA CommitHasLists ==
  ASSUME TypeOK, NEW s \in Ids, Commit(s)
  PROVE  /\ Pending(s)' = <<>> /\ Committed(s)' = Pending(s)
         /\ \A i \in Ids \ {s} : Pending(i)' = Pending(i) /\ Committed(i)' = Committed(i)
<1>1. /\ Snapshot(s) \in SurfaceState
      /\ Snapshot(s).pendingFrames = <<>>
      /\ Snapshot(s).committedFrames = Pending(s)
  BY MadeStateType, MadeStateLists, SnapshotType DEF Snapshot, SurfaceState
<1>2. \A i \in Ids \ {s} :
        \/ userData'[i] = userData[i]
        \/ ~IsSurfaceState(i) /\ userData'[i].tag = "ShmBuffer"
  <2> PICK b : b = CommitBuffer(s)
    OBVIOUS
  <2>1. IsShmBuffer(b) => /\ ~IsSurfaceState(b)
                          /\ [userData[b] EXCEPT !.released = FALSE].tag = "ShmBuffer"
    BY SnapshotType, TaggedData DEF IsShmBuffer, ShmBuffer, IdOrNull, IsSurfaceState
  <2> QED BY <2>1 DEF Commit
<1>3. userData'[s] = Snapshot(s)
  BY DEF Commit
<1> QED BY <1>1, <1>2, <1>3 DEF Pending, Committed, IsSurfaceState, SurfaceState

\* done takes one callback off one committed list.
LEMMA DoneHasLists ==
  ASSUME TypeOK, FramesSafe, PresentingSurfaces, DataInv, NEW s \in Ids, PresentDone(s)
  PROVE  /\ \A i \in Ids : Pending(i)' = Pending(i)
         /\ \A i \in Ids \ {s} : Committed(i)' = Committed(i)
<1> PICK cb : cb = Head(Committed(s))
  OBVIOUS
<1>1. /\ cb \in Ids /\ objects[cb] = "callback" /\ IsSurfaceState(s)
      /\ userData[s] \in SurfaceState /\ ~IsSurfaceState(cb)
  BY PresentedType, ListFacts, TaggedData
     DEF PresentDone, PresentingSurfaces, DataInv, DataMatchesObject
<1> DEFINE d == [userData[s] EXCEPT !.committedFrames = Tail(@)]
<1>2. d.tag = "SurfaceState" /\ d.pendingFrames = userData[s].pendingFrames
  BY <1>1 DEF SurfaceState
<1>3. userData' = [userData EXCEPT ![s] = d, ![cb] = Nothing]
  BY DEF PresentDone
<1> HIDE DEF d
<1>4. /\ userData'[s] = d /\ userData'[cb].tag = "none"
      /\ \A i \in Ids \ {s, cb} : userData'[i] = userData[i]
  BY <1>1, <1>3 DEF TypeOK, Nothing
<1> QED BY <1>1, <1>2, <1>4 DEF Pending, Committed, IsSurfaceState

\* release leaves every list alone.
LEMMA ReleaseHasLists ==
  ASSUME TypeOK, NEW s \in Ids, PresentRelease(s)
  PROVE  \A i \in Ids : Pending(i)' = Pending(i) /\ Committed(i)' = Committed(i)
<1> PICK b : b = userData[s].committedBuffer
  OBVIOUS
<1>1. userData' = userData \/
        (IsShmBuffer(b) /\ userData' = [userData EXCEPT ![b] = [userData[b] EXCEPT !.released = TRUE]])
  BY DEF PresentRelease
<1>2. \A i \in Ids : IsShmBuffer(i) =>
        /\ [userData[i] EXCEPT !.released = TRUE].tag = "ShmBuffer"
        /\ ~IsSurfaceState(i)
  BY TaggedData DEF IsShmBuffer, IsSurfaceState, ShmBuffer
<1>3. \A i \in Ids :
        \/ userData'[i] = userData[i]
        \/ ~IsSurfaceState(i) /\ userData'[i].tag = "ShmBuffer"
  <2>1. \A i \in Ids \ {b} : userData'[i] = userData[i]
    BY <1>1 DEF TypeOK
  <2>2. ASSUME b \in Ids, userData' # userData
        PROVE  ~IsSurfaceState(b) /\ userData'[b].tag = "ShmBuffer"
    <3>1. userData'[b] = [userData[b] EXCEPT !.released = TRUE]
      BY <1>1, <2>2 DEF TypeOK
    <3> QED BY <1>1, <1>2, <2>2, <3>1
  <2> QED BY <2>1, <2>2
<1> QED BY <1>3 DEF Pending, Committed, IsSurfaceState

LEMMA RequestLends ==
  ASSUME IInv, DataInv, LendInv, "waitsRelease" \in Promises, NEW i \in Ids,
         SurfaceRequest(i) \/ ShmRequest(i) \/ RoleRequest(i),
         ~Attaches(i), ~Commit(i)
  PROVE  LendCore'
<1>1. /\ TypeOK /\ IdConservation /\ FramesSafe /\ BuffersAreLive
      /\ LendCore /\ FreeUnheard
  BY DEF IInv, FramesSafe, LendInv, LendCore
<1>2. \A b \in Ids : Releases(b)' = Releases(b)
  BY <1>1, RequestsMoveIds, MovesKeepReleases
<1>3. presenting' = presenting
  BY RequestsPresent
<1>4. \A s \in Ids : Committed(s)' \in {Committed(s), <<>>}
  BY <1>1, SurfaceRequestLists, ShmRequestLists, RoleRequestLists, FrameHasLists
     DEF SurfaceRequest, Attaches, ListsShrink
<1>5. ASSUME \A s \in Ids : /\ Attachment(s)' \in {Attachment(s), NoId}
                            /\ Picture(s)' \in {Picture(s), NoId}
      PROVE  HoldsLess
  BY <1>3, <1>4, <1>5 DEF HoldsLess, Awaits
<1>6. SurfacesKeep => HoldsLess
  BY <1>5 DEF SurfacesKeep
<1>7. CASE SurfaceRequest(i)
  <2>1. HoldsLess
    BY <1>1, <1>6, <1>7, SurfaceRequestKeeps
  <2>2. BuffersKeep /\ lent' = lent
    BY <1>1, <1>7, SurfaceRequestShm, ShmKeepsBuffers, RequestsLend
  <2> QED BY <1>1, <1>2, <2>1, <2>2, LendKeeps
<1>8. CASE RoleRequest(i)
  <2>1. ASSUME TakesRole(i) PROVE HoldsLess
    <3>1. \A s \in Ids : Attachment(s)' = Attachment(s) /\ Picture(s)' = Picture(s)
      BY <1>1, <2>1, GetSubsurfaceHas DEF TakesRole
    <3> QED BY <1>5, <3>1
  <2>2. ASSUME DestroySubsurface(i) PROVE HoldsLess
    <3> PICK s : s = link[i]
      OBVIOUS
    <3>1. \A t \in Ids : Attachment(t)' = Attachment(t) /\ Picture(t)' = Picture(t)
      BY <1>1, <2>2, DestroySubsurfaceHas
    <3> QED BY <1>5, <3>1
  <2>3. ASSUME ~TakesRole(i), ~DestroySubsurface(i) PROVE HoldsLess
    BY <1>1, <1>6, <1>8, <2>3, RoleRequestKeeps
  <2>4. HoldsLess
    BY <2>1, <2>2, <2>3
  <2>5. BuffersKeep /\ lent' = lent
    BY <1>1, <1>8, RoleRequestShm, ShmKeepsBuffers, RequestsLend
  <2> QED BY <1>1, <1>2, <2>4, <2>5, LendKeeps
<1>9. CASE ShmRequest(i)
  <2>1. HoldsLess
    BY <1>1, <1>6, <1>9, ShmRequestKeeps
  <2>2. ASSUME NEW n \in 1..MaxSize, CreatePool(i, n) \/ ResizePool(i, n)
        PROVE  BuffersKeep
    <3>1. CASE CreatePool(i, n)
      BY <1>1, <3>1, AllocateKeeps, ShmKeepsBuffers DEF CreatePool, Kinds
    <3>2. CASE ResizePool(i, n)
      BY <1>1, <3>2 DEF ResizePool, BuffersKeep, TypeOK
    <3> QED BY <2>2, <3>1, <3>2
  <2>3. ASSUME DestroyPool(i) PROVE BuffersKeep
    BY <1>1, <2>3 DEF DestroyPool, DestroyObject, BuffersKeep, TypeOK
  <2>4. ASSUME NEW b \in Ids, Allocate(b, "buffer"), NEW d,
               d.pool # NoId => d.released, userData' = [userData EXCEPT ![b] = d]
        PROVE  BuffersKeep
    <3>1. /\ objects[b] = "none" /\ b \in free /\ userData'[b] = d /\ objects'[b] = "buffer"
          /\ \A j \in Ids \ {b} : objects'[j] = objects[j] /\ userData'[j] = userData[j]
      BY <1>1, <2>4, AllocateObjects DEF Kinds, TypeOK, Allocate
    <3> QED BY <2>4, <3>1 DEF BuffersKeep
  <2>5. ASSUME NEW b \in Ids, NEW n \in 1..MaxSize, CreateBuffer(i, b, n)
        PROVE  BuffersKeep
    BY <2>4, <2>5 DEF CreateBuffer
  <2>6. ASSUME CreateSinglePixelBuffer(i) PROVE BuffersKeep
    BY <2>4, <2>6 DEF CreateSinglePixelBuffer
  <2>7. ASSUME DestroyBuffer(i) PROVE BuffersKeep
    <3>1. /\ i \notin lent /\ ~AttachedSomewhere(i) /\ objects'[i] = "none"
          /\ \A j \in Ids \ {i} : objects'[j] = objects[j] /\ userData'[j] = userData[j]
      BY <1>1, <2>7 DEF DestroyBuffer, ClientMayUse, DestroyObject, TypeOK
    <3>2. \A s \in Ids : Attachment(s) # i
      BY <3>1, NoIdAssumption DEF AttachedSomewhere, Attachment
    <3> QED BY <3>1, <3>2 DEF BuffersKeep
  <2>8. BuffersKeep
    BY <1>9, <2>2, <2>3, <2>5, <2>6, <2>7 DEF ShmRequest
  <2>9. lent' = lent
    <3>1. CASE DestroyBuffer(i)
      BY <3>1 DEF DestroyBuffer, ClientMayUse
    <3> QED BY <1>9, <3>1, RequestsLend
  <2> QED BY <1>1, <1>2, <2>1, <2>8, <2>9, LendKeeps
<1> QED BY <1>7, <1>8, <1>9

LEMMA AttachLends ==
  ASSUME IInv, LendInv, "waitsRelease" \in Promises, NEW s \in Ids, NEW b \in IdOrNull,
         Attach(s, b) \/ AttachWithOffset(s, b)
  PROVE  LendCore'
<1>1. /\ TypeOK /\ IdConservation /\ BuffersAreLive /\ LendCore /\ FreeUnheard
  BY DEF IInv, LendInv, LendCore
<1>2. SurfaceRequest(s) /\ ~Commit(s) => BuffersKeep
  BY <1>1, SurfaceRequestShm, ShmKeepsBuffers
<1>3. /\ objects' = objects /\ objects[s] = "surface" /\ lent' = lent /\ presenting' = presenting
      /\ b # NoId => b \in Live("buffer") \ lent /\ ~AttachedSomewhere(b)
  BY DEF Attach, AttachWithOffset, Attachable, ClientMayUse, clientVars
<1>4. \A j \in Ids \ {s} : userData'[j] = userData[j]
  BY <1>1 DEF Attach, AttachWithOffset, Attached, TypeOK
<1>5. /\ Attachment(s)' = b /\ Picture(s)' = Picture(s)
      /\ \A i \in Ids \ {s} : Attachment(i)' = Attachment(i) /\ Picture(i)' = Picture(i)
  BY <1>1, AttachHas
<1>6. \A i \in Ids : Committed(i)' \in {Committed(i), <<>>}
  BY <1>1, SurfaceRequestLists DEF ListsShrink
<1>7. \A i \in Ids : Awaits(i)' => Awaits(i) /\ Picture(i)' = Picture(i)
  BY <1>3, <1>5, <1>6 DEF Awaits
<1>8. \A i \in Ids : Releases(i)' = Releases(i)
  <2>1. MovesIds
    BY RequestsMoveIds DEF SurfaceRequest
  <2> QED BY <1>1, <2>1, MovesKeepReleases
<1>9. \A i \in Live("buffer") : userData'[i] = userData[i]
  BY <1>3, <1>4 DEF Live
<1> USE DEF LendCore
<1>10. LentLive'
  BY <1>1, <1>3 DEF LentLive, Live
<1>11. AttachedOnce'
  <2>1. b # NoId => \A t \in Ids : Attachment(t) # b
    BY <1>3 DEF AttachedSomewhere, Attachment
  <2> QED BY <1>1, <1>3, <1>5, <2>1 DEF AttachedOnce, Live
<1>12. AwaitsRelease'
  BY <1>1, <1>3, <1>7, <1>9 DEF AwaitsRelease, LentLive
<1>13. OwedRelease'
  BY <1>1, <1>3, <1>8, <1>9 DEF OwedRelease, Live
<1> QED BY <1>10, <1>11, <1>12, <1>13

LEMMA CommitLends ==
  ASSUME IInv, DataInv, LendInv, NEW s \in Ids, Commit(s)
  PROVE  LendCore'
<1>1. TypeOK /\ LendCore
  BY DEF IInv, LendInv, LendCore
<1> USE DEF LendCore
<1> PICK b : b = CommitBuffer(s)
  OBVIOUS
<1>2. /\ Attachment(s)' = NoId /\ Picture(s)' = b /\ b \in {NoId, Attachment(s)}
      /\ \A i \in Ids \ {s} : Attachment(i)' = Attachment(i) /\ Picture(i)' = Picture(i)
  BY <1>1, CommitHas
<1>3. /\ objects' = objects
      /\ \A i \in Live("buffer") \ {b} : userData'[i] = userData[i]
      /\ b \in Live("buffer") => /\ ~userData'[b].released
                                 /\ userData'[b].pool = userData[b].pool
  BY <1>1, CommitShm
<1>4. b # NoId => /\ b \in Live("buffer") \ lent
                  /\ \A t \in Ids \ {s} : Attachment(t) # b
  BY <1>1, <1>2 DEF AttachedOnce
<1>5. /\ lent' = IF b # NoId THEN lent \cup {b} ELSE lent
      /\ presenting' = presenting /\ presenting = {} /\ out' = out
  BY <1>4 DEF Commit, Live, Dispatching
<1>6. \A i \in Ids \ {s} : Awaits(i)' => Awaits(i) /\ Picture(i)' = Picture(i)
  BY <1>1, <1>2, <1>5, CommitHasLists DEF Awaits
<1>7. \A i \in Ids : Releases(i)' = Releases(i)
  BY <1>5 DEF Releases
<1>8. LentLive'
  BY <1>1, <1>3, <1>4, <1>5 DEF LentLive, Live
<1>9. AttachedOnce'
  BY <1>1, <1>2, <1>3, <1>4, <1>5 DEF AttachedOnce, Live
<1>10. AwaitsRelease'
  <2>1. ASSUME NEW t \in Ids \ {s}, Awaits(t)'
        PROVE  /\ Picture(t)' \in lent' /\ ~userData'[Picture(t)'].released
               /\ Picture(t)' # b
               /\ \A u \in Ids \ {s, t} : Awaits(u)' => Picture(u)' # Picture(t)'
    <3>1. Awaits(t) /\ Picture(t)' = Picture(t)
      BY <1>6, <2>1
    <3>2. Picture(t) \in lent /\ ~userData[Picture(t)].released /\ Picture(t) # NoId
      BY <1>1, <3>1 DEF AwaitsRelease, Awaits
    <3>3. Picture(t) # b /\ Picture(t) \in Live("buffer")
      BY <1>1, <1>4, <3>2 DEF LentLive
    <3> QED BY <1>1, <1>3, <1>5, <1>6, <3>1, <3>2, <3>3 DEF AwaitsRelease
  <2>2. Awaits(s)' => b \in lent' /\ ~userData'[b].released
    BY <1>2, <1>3, <1>4, <1>5 DEF Awaits
  <2> QED BY <1>2, <2>1, <2>2 DEF AwaitsRelease
<1>11. OwedRelease'
  <2>1. ASSUME NEW i \in Live("buffer"), i # b
        PROVE  /\ userData'[i] = userData[i] /\ Releases(i)' = Releases(i)
               /\ i \in lent' <=> i \in lent
    BY <1>3, <1>5, <1>7, <2>1 DEF Live
  <2>2. b # NoId => /\ Releases(b)' = {} /\ b \in lent' /\ ~userData'[b].released
    BY <1>1, <1>3, <1>4, <1>5, <1>7 DEF OwedRelease, Live
  <2>3. Live("buffer")' = Live("buffer") /\ NoId \notin Live("buffer")
    BY <1>3, NoIdAssumption DEF Live
  <2> QED BY <1>1, <2>1, <2>2, <2>3 DEF OwedRelease
<1> QED BY <1>8, <1>9, <1>10, <1>11

LEMMA PresentLends ==
  ASSUME IInv, DataInv, LendInv, NEW s \in Ids, Present(s)
  PROVE  LendCore'
<1>1. /\ TypeOK /\ IdConservation /\ FramesSafe /\ PresentingSurfaces
      /\ LendCore /\ FreeUnheard
  BY DEF IInv, FramesSafe, LendInv, LendCore
<1>2. SurfacesKeep /\ lent' = lent
  BY <1>1, PresentKeeps DEF Present, PresentDone, PresentRelease, clientVars
<1>3. CASE PresentDone(s)
  <2>1. presenting' = presenting /\ s \in presenting
    BY <1>3 DEF PresentDone
  <2>2. HoldsLess
    BY <1>1, <1>2, <1>3, <2>1, DoneHasLists DEF HoldsLess, SurfacesKeep, Awaits
  <2>3. BuffersKeep
    BY <1>1, <1>3, PresentDoneShm, ShmKeepsBuffers
  <2>4. \A b \in Ids : Releases(b)' = Releases(b)
    <3>1. PICK cb \in Ids :
            /\ DOMAIN out = 1..Len(out) /\ DOMAIN out' = 1..(Len(out) + 2) /\ Len(out) \in Nat
            /\ \A k \in 1..Len(out) : out'[k] = out[k]
            /\ out'[Len(out) + 1] = Done(cb) /\ out'[Len(out) + 2] = DeleteId(cb)
      BY <1>1, <1>3, DoneQueues
    <3>2. \A b \in Ids : Done(cb) # Release(b) /\ DeleteId(cb) # Release(b)
      BY DEF Done, DeleteId, Release
    <3> QED BY <3>1, <3>2 DEF Releases
  <2> QED BY <1>1, <1>2, <2>2, <2>3, <2>4, LendKeeps
<1>4. CASE PresentRelease(s)
  <2> PICK b : b = Picture(s)
    OBVIOUS
  <2>1. /\ s \in presenting /\ presenting' = presenting \ {s} /\ Committed(s) = <<>>
        /\ b = userData[s].committedBuffer
    BY <1>1, <1>4 DEF PresentRelease, PresentingSurfaces, Picture
  <2>2. /\ objects' = objects
        /\ \A i \in Live("buffer") \ {b} : userData'[i] = userData[i]
        /\ b \in Live("buffer") => /\ userData'[b].released
                                   /\ userData'[b].pool = userData[b].pool
    BY <1>1, <1>4, PresentReleaseShm
  <2>3. \A i \in Ids : Committed(i)' = Committed(i)
    BY <1>1, <1>4, ReleaseHasLists
  <2>4. \A t \in Ids : Awaits(t)' => t # s /\ Awaits(t)
    BY <1>2, <2>1, <2>3 DEF Awaits, SurfacesKeep
  <2>5. HoldsLess
    BY <1>2, <2>4 DEF HoldsLess, SurfacesKeep
  <2>6. CASE b = NoId
    <3>1. BuffersKeep /\ out' = out
      BY <1>4, <2>1, <2>6 DEF PresentRelease, IsShmBuffer, BuffersKeep
    <3>2. \A i \in Ids : Releases(i)' = Releases(i)
      BY <3>1 DEF Releases
    <3> QED BY <1>1, <1>2, <2>5, <3>1, <3>2, LendKeeps
  <2>7. CASE b # NoId
    <3>1. /\ b \in lent /\ b \in Ids /\ objects[b] = "buffer" /\ ~userData[b].released
          /\ \A t \in Ids \ {s} : Awaits(t) => Picture(t) # b
      <4>1. Awaits(s)
        BY <2>1, <2>7 DEF Awaits
      <4> QED BY <1>1, <2>1, <4>1 DEF LendCore, AwaitsRelease, LentLive, Live
    <3>2. IsShmBuffer(b)
      BY <2>7, <3>1 DEF DataInv, DataMatchesObject, IsShmBuffer
    <3>3. out' = Append(out, Release(b))
      BY <1>4, <2>1, <3>1, <3>2 DEF PresentRelease
    <3>4. /\ Releases(b)' = {Len(out) + 1} /\ Len(out) + 1 \in Nat
          /\ \A i \in Ids \ {b} : Releases(i)' = Releases(i)
      <4>1. Releases(b) = {}
        BY <1>1, <3>1 DEF LendCore, OwedRelease, Live
      <4>2. Len(out) \in Nat
        BY <1>1 DEF TypeOK
      <4> QED BY <1>1, <3>1, <3>3, <4>1, <4>2, ReleasesAppend
    <3> USE DEF LendCore
    <3>5. LentLive'
      BY <1>1, <1>2, <2>2 DEF LentLive, Live
    <3>6. AttachedOnce'
      BY <1>1, <1>2, <2>2 DEF AttachedOnce, SurfacesKeep, Live
    <3>7. AwaitsRelease'
      <4>1. ASSUME NEW t \in Ids, Awaits(t)'
            PROVE  /\ Awaits(t) /\ t # s /\ Picture(t)' = Picture(t)
                   /\ Picture(t) \in lent /\ ~userData'[Picture(t)].released
        <5>1. Awaits(t) /\ t # s /\ Picture(t)' = Picture(t)
          BY <1>2, <2>4, <4>1 DEF SurfacesKeep, Awaits
        <5>2. Picture(t) \in lent /\ ~userData[Picture(t)].released /\ Picture(t) # b
          BY <1>1, <3>1, <5>1 DEF AwaitsRelease
        <5> QED BY <1>1, <2>2, <5>1, <5>2 DEF LentLive
      <4> QED BY <1>1, <1>2, <4>1 DEF AwaitsRelease
    <3>8. OwedRelease'
      <4>1. \A i \in Live("buffer") \ {b} :
              userData'[i] = userData[i] /\ Releases(i)' = Releases(i)
        BY <2>2, <3>4 DEF Live
      <4>2. Live("buffer")' = Live("buffer")
        BY <2>2 DEF Live
      <4>3. userData'[b].released /\ b \in lent'
        BY <1>2, <2>2, <3>1 DEF Live
      <4> QED BY <1>1, <1>2, <3>4, <4>1, <4>2, <4>3 DEF OwedRelease
    <3> QED BY <3>5, <3>6, <3>7, <3>8
  <2> QED BY <2>6, <2>7
<1> QED BY <1>3, <1>4 DEF Present

LEMMA ReceiveLends ==
  ASSUME IInv, LendInv, Receive
  PROVE  LendCore'
<1> PICK e : e = Head(out)
  OBVIOUS
<1>1. /\ TypeOK /\ LendCore /\ FreeUnheard
  BY DEF IInv, LendInv, LendCore
<1>2. /\ UNCHANGED <<objects, userData, presenting>>
      /\ lent' = IF e.type = "release" THEN lent \ {e.id} ELSE lent
      /\ out # <<>> /\ out' = Tail(out)
  BY DEF Receive, serverVars
<1>3. /\ e \in Events
      /\ \A b \in Ids : /\ Releases(b)' = {k - 1 : k \in Releases(b) \ {1}}
                        /\ 1 \in Releases(b) <=> e = Release(b)
                        /\ Releases(b) \subseteq Nat \ {0}
  <2>1. /\ Len(out) \in Nat \ {0} /\ DOMAIN out = 1..Len(out) /\ e = out[1] /\ e \in Events
    BY <1>1, <1>2 DEF TypeOK
  <2>2. \A b \in Ids : /\ 1 \in Releases(b) <=> e = Release(b)
                       /\ Releases(b) \subseteq Nat \ {0}
    BY <2>1 DEF Releases
  <2> QED BY <1>1, <1>2, <2>1, <2>2, ReleasesTail
<1>4. \A b \in Ids : b \in lent' <=> b \in lent /\ e # Release(b)
  BY <1>2, <1>3 DEF Release, Events, Error
<1>5. \A s \in Ids : /\ Attachment(s)' = Attachment(s) /\ Picture(s)' = Picture(s)
                     /\ Awaits(s)' = Awaits(s)
  BY <1>2 DEF Attachment, Picture, Awaits, Committed, IsSurfaceState
<1>6. lent' \subseteq lent
  BY <1>2
<1>7. Live("buffer")' = Live("buffer")
  BY <1>2 DEF Live
<1> USE DEF LendCore
<1>8. LentLive'
  BY <1>1, <1>6, <1>7 DEF LentLive
<1>9. AttachedOnce'
  BY <1>1, <1>5, <1>6, <1>7 DEF AttachedOnce
<1>10. AwaitsRelease'
  <2>1. ASSUME NEW s \in Ids, Awaits(s)
        PROVE  Picture(s) \in lent'
    <3>1. Picture(s) \in lent /\ ~userData[Picture(s)].released
      BY <1>1, <2>1 DEF AwaitsRelease
    <3>2. Picture(s) \in Ids /\ Releases(Picture(s)) = {}
      BY <1>1, <3>1 DEF LentLive, OwedRelease, Live
    <3> QED BY <1>3, <1>4, <3>1, <3>2
  <2> QED BY <1>1, <1>2, <1>5, <2>1 DEF AwaitsRelease
<1>11. OwedRelease'
  <2> SUFFICES ASSUME NEW b \in Live("buffer")
               PROVE  /\ b \in lent' /\ userData[b].released => \E k \in Nat : Releases(b)' = {k}
                      /\ b \notin lent' \/ ~userData[b].released => Releases(b)' = {}
                      /\ b \notin lent' /\ userData[b].pool # NoId => userData[b].released
    BY <1>2, <1>7 DEF OwedRelease
  <2>1. b \in Ids
    BY DEF Live
  <2>2. CASE e = Release(b)
    <3>1. Releases(b) # {} /\ 1 \in Releases(b)
      BY <1>3, <2>1, <2>2
    <3>2. b \in lent /\ userData[b].released /\ Releases(b) = {1}
      BY <1>1, <3>1 DEF OwedRelease
    <3>3. Releases(b)' = {} /\ b \notin lent'
      BY <1>3, <1>4, <2>1, <2>2, <3>2
    <3> QED BY <3>2, <3>3
  <2>3. CASE e # Release(b)
    <3>1. Releases(b)' = {k - 1 : k \in Releases(b)} /\ (b \in lent' <=> b \in lent)
      BY <1>3, <1>4, <2>1, <2>3
    <3>2. ASSUME NEW k \in Nat, Releases(b) = {k}
          PROVE  \E j \in Nat : Releases(b)' = {j}
      <4>1. k - 1 \in Nat /\ Releases(b)' = {k - 1}
        BY <1>3, <2>1, <3>1, <3>2
      <4> QED BY <4>1
    <3>3. Releases(b) = {} => Releases(b)' = {}
      BY <3>1
    <3> QED BY <1>1, <3>1, <3>2, <3>3 DEF OwedRelease
  <2> QED BY <2>2, <2>3
<1> QED BY <1>8, <1>9, <1>10, <1>11

LEMMA NextLends ==
  ASSUME IInv, DataInv, LendInv, "waitsRelease" \in Promises, [Next]_vars
  PROVE  LendInv'
<1>1. /\ TypeOK /\ LendCore /\ FreeUnheard
  BY DEF IInv, LendInv, LendCore
<1>2. ASSUME NEW i \in Ids, SurfaceRequest(i) \/ ShmRequest(i) \/ RoleRequest(i)
      PROVE  LendCore'
  BY <1>2, RequestLends, AttachLends, CommitLends DEF Attaches
<1>3. ASSUME NEW i \in Ids, Present(i)
      PROVE  LendCore'
  BY <1>3, PresentLends
<1>5. ASSUME BeginPresent \/ UNCHANGED vars
      PROVE  LendCore'
  <2>1. UNCHANGED <<objects, userData, out, lent>>
    BY <1>5 DEF BeginPresent, clientVars, vars
  <2>2. \A s \in Ids : s \in presenting' => s \in presenting \/ Committed(s) # <<>>
    BY <1>5 DEF BeginPresent, vars
  <2>3. HoldsLess
    BY <2>1, <2>2 DEF HoldsLess, Attachment, Picture, Awaits, Committed, IsSurfaceState
  <2>4. BuffersKeep /\ \A b \in Ids : Releases(b)' = Releases(b)
    BY <2>1 DEF BuffersKeep, Releases
  <2> QED BY <1>1, <2>1, <2>3, <2>4, LendKeeps
<1>6. FreeUnheard'
  BY <1>1, NextUnheard
<1>7. LendCore'
  BY <1>2, <1>3, <1>5, ReceiveLends DEF Next
<1> QED BY <1>6, <1>7 DEF LendInv, LendCore

LEMMA InitLends == Init => LendInv
BY DEF Init, LendInv, LentLive, FreeUnheard, AttachedOnce, AwaitsRelease, Awaits,
   OwedRelease, Live, Attachment, Picture, IsSurfaceState, Nothing

\* What OwedRelease says of the events under way, it says of their number.
LEMMA OwedIsOnce == LendInv => ReleaseOwedOnce
<1> SUFFICES ASSUME LendInv, NEW b \in Live("buffer")
             PROVE  IF b \in lent
                    THEN Cardinality(Releases(b)) = IF userData[b].released THEN 1 ELSE 0
                    ELSE /\ Releases(b) = {}
                         /\ userData[b].pool # NoId => userData[b].released
  BY DEF ReleaseOwedOnce
<1>1. /\ b \in lent /\ userData[b].released => \E k \in Nat : Releases(b) = {k}
      /\ b \notin lent \/ ~userData[b].released => Releases(b) = {}
      /\ b \notin lent /\ userData[b].pool # NoId => userData[b].released
  BY DEF LendInv, OwedRelease
<1>2. Cardinality({}) = 0 /\ \A k : Cardinality({k}) = 1
  BY FS_EmptySet, FS_Singleton
<1> QED BY <1>1, <1>2

\* For every set of ids, a client that waits for release before it touches a
\* buffer again gets one release for each buffer it lent. (the commit handler
\* of wl_surface and presentFrameCallbacks)
THEOREM ReleasesOwed ==
  ASSUME {"waitsRelease", "rolesFirst"} \subseteq Promises
  PROVE  Spec => []ReleaseOwedOnce
<1>1. Init => DataInv /\ LendInv
  BY InitData, InitLends
<1>2. IInv /\ DataInv /\ LendInv /\ [Next]_vars => DataInv' /\ LendInv'
  BY NextData, NextLends
<1> QED BY <1>1, <1>2, OwedIsOnce, Invariant, PTL DEF Spec

----------------------------------------------------------------------------
(* The frame pump implements its contract.                                 *)

\* Requests destroy no callback.
LEMMA RequestsKeepCallbacks ==
  ASSUME TypeOK, IdConservation, FramesSafe, BuffersAreLive, NEW i \in Ids,
         SurfaceRequest(i) \/ ShmRequest(i) \/ RoleRequest(i)
  PROVE  \A c \in Ids : objects[c] = "callback" => objects'[c] = "callback"
<1>1. ASSUME NEW cb \in Ids, Frame(i, cb)
      PROVE  \A c \in Ids : objects[c] = "callback" => objects'[c] = "callback"
  BY <1>1, AllocateObjects DEF Frame, Kinds
<1>2. Commit(i) => \A c \in Ids : objects[c] = "callback" => objects'[c] = "callback"
  BY DEF Commit
<1> QED BY <1>1, <1>2, SurfaceRequestLists, ShmRequestLists, RoleRequestLists
        DEF SurfaceRequest, ObjectsStay

\* Requests other than frame shorten lists only, and await nothing.
LEMMA RequestsShorten ==
  ASSUME TypeOK, IdConservation, FramesSafe, BuffersAreLive, NEW i \in Ids,
         SurfaceRequest(i) \/ ShmRequest(i) \/ RoleRequest(i),
         \A cb \in Ids : ~Frame(i, cb)
  PROVE  /\ \A s \in Ids : Pending(s)' \in {Pending(s), <<>>}
         /\ frameOf' = frameOf
<1>1. \A s \in Ids : Pending(s)' \in {Pending(s), <<>>}
  BY SurfaceRequestLists, ShmRequestLists, RoleRequestLists, CommitHasLists
     DEF SurfaceRequest, ListsShrink
<1>2. CASE SurfaceRequest(i)
  BY <1>1, <1>2 DEF SurfaceRequest, CreateSurface, DestroySurface, Attach,
       AttachWithOffset, StoreValue, CreateRegion, DestroyRegion, Commit, clientVars
<1>3. CASE ShmRequest(i)
  BY <1>1, <1>3 DEF ShmRequest, CreatePool, ResizePool, DestroyPool, CreateBuffer,
       CreateSinglePixelBuffer, DestroyBuffer, clientVars
<1>4. CASE RoleRequest(i)
  BY <1>1, <1>4 DEF RoleRequest, GetSubsurface, GetSubsurfaceTwice, SubsurfaceRequest,
       DestroySubsurface, GetViewport, DestroyViewport, clientVars
<1> QED BY <1>2, <1>3, <1>4

LEMMA EmptyToSet == ToSet(<<>>) = {}
BY DEF ToSet

\* What frame does to the lists and to the client's callbacks.
LEMMA FrameAwaits ==
  ASSUME TypeOK, IdConservation, FramesSafe, NEW s \in Ids, NEW cb \in Ids, Frame(s, cb)
  PROVE  /\ objects[cb] = "none" /\ objects'[cb] = "callback" /\ cb \in free
         /\ \A j \in Ids \ {cb} : objects'[j] = objects[j]
         /\ frameOf'[cb] = s /\ \A j \in Ids \ {cb} : frameOf'[j] = frameOf[j]
         /\ ToSet(Pending(s)') = ToSet(Pending(s)) \cup {cb}
         /\ \A t \in Ids \ {s} : Pending(t)' = Pending(t)
         /\ \A t \in Ids : cb \notin ToSet(Pending(t))
         /\ out' = out /\ lent' = lent
<1>1. /\ objects[cb] = "none" /\ objects'[cb] = "callback" /\ cb \in free
      /\ \A j \in Ids \ {cb} : objects'[j] = objects[j]
  BY AllocateObjects DEF Frame, Kinds, Allocate
<1>2. /\ frameOf'[cb] = s /\ \A j \in Ids \ {cb} : frameOf'[j] = frameOf[j]
      /\ out' = out /\ lent' = lent
  BY DEF Frame, TypeOK
<1>3. /\ Pending(s)' = Append(Pending(s), cb)
      /\ \A t \in Ids \ {s} : Pending(t)' = Pending(t)
  BY FrameHasLists
<1>4. ToSet(Append(Pending(s), cb)) = ToSet(Pending(s)) \cup {cb}
  <2> PICK q \in Seq(Ids) : q = Pending(s)
    BY PresentedType
  <2>1. /\ DOMAIN q = 1..Len(q) /\ Len(q) \in Nat
        /\ DOMAIN Append(q, cb) = 1..(Len(q) + 1)
        /\ \A k \in 1..Len(q) : Append(q, cb)[k] = q[k]
        /\ Append(q, cb)[Len(q) + 1] = cb
    OBVIOUS
  <2>2. ToSet(Append(q, cb)) = ToSet(q) \cup {cb}
    BY <2>1 DEF ToSet
  <2> QED BY <2>2
<1>5. \A t \in Ids : cb \notin ToSet(Pending(t))
  BY <1>1, ListFacts DEF ToSet
<1> QED BY <1>1, <1>2, <1>3, <1>4, <1>5

LEMMA NextPendingRequested ==
  ASSUME IInv, DataInv, FrameInv, [Next]_vars
  PROVE  PendingRequested'
<1>1. /\ TypeOK /\ IdConservation /\ FramesSafe /\ BuffersAreLive /\ PresentingSurfaces
      /\ PendingRequested /\ DoneIsLast
  BY DEF IInv, FramesSafe, FrameInv
<1>2. ASSUME \A s \in Ids : Pending(s)' \in {Pending(s), <<>>}, frameOf' = frameOf
      PROVE  PendingRequested'
  BY <1>1, <1>2, EmptyToSet DEF PendingRequested
<1>3. ASSUME NEW s \in Ids, NEW cb \in Ids, Frame(s, cb)
      PROVE  PendingRequested'
  <2>1. \A t \in Ids : ToSet(Pending(t)) \subseteq Ids
    BY <1>1, ListFacts DEF ToSet
  <2> QED BY <1>1, <1>3, <2>1, FrameAwaits DEF PendingRequested
<1>4. ASSUME NEW i \in Ids, SurfaceRequest(i) \/ ShmRequest(i) \/ RoleRequest(i)
      PROVE  PendingRequested'
  BY <1>1, <1>2, <1>3, <1>4, RequestsShorten
<1>5. ASSUME NEW s \in Ids, Present(s)
      PROVE  PendingRequested'
  <2>1. frameOf' = frameOf
    BY <1>5 DEF Present, PresentDone, PresentRelease, clientVars
  <2>2. CASE PresentDone(s)
    BY <1>1, <1>2, <2>1, <2>2, DoneHasLists
  <2>3. CASE PresentRelease(s)
    BY <1>1, <1>2, <2>1, <2>3, ReleaseHasLists
  <2> QED BY <1>5, <2>2, <2>3 DEF Present
<1>6. CASE Receive
  <2> PICK e : e = Head(out)
    OBVIOUS
  <2>1. /\ e = out[1] /\ 1 \in DOMAIN out /\ userData' = userData
        /\ frameOf' = IF e.type = "done" THEN [frameOf EXCEPT ![e.id] = NoId] ELSE frameOf
    BY <1>1, <1>6 DEF Receive, serverVars, TypeOK
  <2>2. \A s \in Ids : Pending(s)' = Pending(s)
    BY <2>1 DEF Pending, IsSurfaceState
  <2>3. \A s \in Ids : \A c \in ToSet(Pending(s)) : c \in Ids /\ objects[c] = "callback"
    BY <1>1, ListFacts DEF ToSet
  <2>4. e.type = "done" => objects[e.id] = "none"
    BY <1>1, <2>1 DEF DoneIsLast
  <2> QED BY <1>1, <2>1, <2>2, <2>3, <2>4 DEF PendingRequested, TypeOK
<1>7. CASE BeginPresent \/ UNCHANGED vars
  <2>1. UNCHANGED <<userData, frameOf>>
    BY <1>7 DEF BeginPresent, clientVars, vars
  <2> QED BY <1>2, <2>1 DEF Pending, IsSurfaceState
<1> QED BY <1>4, <1>5, <1>6, <1>7 DEF Next

LEMMA NextDoneIsLast ==
  ASSUME IInv, FreeUnheard, DoneIsLast, [Next]_vars
  PROVE  DoneIsLast'
<1>1. TypeOK /\ IdConservation /\ FramesSafe
  BY DEF IInv, FramesSafe
<1>2. \A k \in DOMAIN out : out[k].type = "done" => out[k].id \in Ids /\ out[k].id \notin free
  BY <1>1 DEF TypeOK, Events, Error, FreeUnheard
<1>3. ASSUME NEW e, e.type # "done", out' = out \/ out' = Append(out, e),
             \A i \in Ids \ free : objects'[i] \in {objects[i], "none"}
      PROVE  DoneIsLast'
  <2>1. /\ Len(out) \in Nat /\ DOMAIN out = 1..Len(out)
        /\ out' = out \/
             /\ DOMAIN out' = 1..(Len(out) + 1) /\ out'[Len(out) + 1] = e
             /\ \A k \in 1..Len(out) : out'[k] = out[k]
    BY <1>1, <1>3 DEF TypeOK
  <2>2. \A k \in DOMAIN out' : out'[k].type = "done" => k \in DOMAIN out /\ out'[k] = out[k]
    BY <1>3, <2>1
  <2> QED BY <1>2, <1>3, <2>2 DEF DoneIsLast
<1>4. ASSUME NEW i \in Ids, SurfaceRequest(i) \/ ShmRequest(i) \/ RoleRequest(i)
      PROVE  DoneIsLast'
  <2>1. MovesIds
    BY <1>4, RequestsMoveIds
  <2>2. ASSUME NEW j \in Ids, AllocatesId(j)
        PROVE  DoneIsLast'
    <3>1. \A n \in Ids \ free : objects'[n] = objects[n]
      BY <1>1, <2>2 DEF AllocatesId, Allocate, TypeOK
    <3>2. Error.type # "done"
      BY DEF Error
    <3> PICK e : e = Error
      OBVIOUS
    <3> QED BY <1>3, <2>2, <3>1, <3>2 DEF AllocatesId
  <2>3. ASSUME NEW j \in Ids, RetiresId(j)
        PROVE  DoneIsLast'
    BY <1>1, <1>3, <2>3 DEF RetiresId, DeleteId, TypeOK
  <2>4. CASE QueuesError \/ KeepsIds
    BY <1>1, <1>3, <2>4 DEF QueuesError, KeepsIds, Error
  <2> QED BY <2>1, <2>2, <2>3, <2>4 DEF MovesIds
<1>5. ASSUME NEW s \in Ids, PresentDone(s)
      PROVE  DoneIsLast'
  <2>1. PICK cb \in Ids :
          /\ objects' = [objects EXCEPT ![cb] = "none"]
          /\ DOMAIN out = 1..Len(out) /\ DOMAIN out' = 1..(Len(out) + 2) /\ Len(out) \in Nat
          /\ \A k \in 1..Len(out) : out'[k] = out[k]
          /\ out'[Len(out) + 1] = Done(cb) /\ out'[Len(out) + 2] = DeleteId(cb)
    BY <1>1, <1>5, DoneQueues
  <2>2. Done(cb).id = cb /\ DeleteId(cb).type = "delete_id" /\ objects'[cb] = "none"
    BY <1>1, <2>1 DEF Done, DeleteId, TypeOK
  <2> SUFFICES ASSUME NEW k \in DOMAIN out', out'[k].type = "done"
               PROVE  objects'[out'[k].id] = "none"
    BY DEF DoneIsLast
  <2>3. k \in 1..Len(out) \/ k = Len(out) + 1 \/ k = Len(out) + 2
    BY <2>1
  <2>4. \A i \in Ids : objects[i] = "none" => objects'[i] = "none"
    BY <1>1, <2>1 DEF TypeOK
  <2> QED BY <1>2, <2>1, <2>2, <2>3, <2>4 DEF DoneIsLast
<1>6. ASSUME NEW s \in Ids, PresentRelease(s)
      PROVE  DoneIsLast'
  BY <1>3, <1>6 DEF PresentRelease, Release
<1>7. CASE Receive
  <2>1. /\ Len(out) \in Nat \ {0} /\ DOMAIN out = 1..Len(out)
        /\ DOMAIN out' = 1..(Len(out) - 1)
        /\ \A k \in 1..(Len(out) - 1) : out'[k] = out[k + 1]
        /\ objects' = objects
    BY <1>1, <1>7 DEF TypeOK, Receive, serverVars
  <2> QED BY <2>1 DEF DoneIsLast
<1>8. CASE BeginPresent \/ UNCHANGED vars
  BY <1>8 DEF BeginPresent, clientVars, vars, DoneIsLast
<1> QED BY <1>4, <1>5, <1>6, <1>7, <1>8 DEF Next, Present

LEMMA NextAwaitedLive ==
  ASSUME IInv, AwaitedLive, [Next]_vars
  PROVE  AwaitedLive'
<1>1. /\ TypeOK /\ IdConservation /\ FramesSafe /\ BuffersAreLive
  BY DEF IInv, FramesSafe
<1>2. ASSUME NEW n \in Nat, DOMAIN out = 1..Len(out), DOMAIN out' = 1..(Len(out) + n), Len(out) \in Nat,
             \A k \in 1..Len(out) : out'[k] = out[k],
             \A c \in Ids : frameOf'[c] # NoId =>
               \/ objects'[c] = "callback"
               \/ \E k \in DOMAIN out' : out'[k] = Done(c)
               \/ frameOf[c] # NoId /\ objects[c] # "callback"
      PROVE  AwaitedLive'
  <2>1. \A k \in DOMAIN out : k \in DOMAIN out' /\ out'[k] = out[k]
    BY <1>2
  <2> QED BY <1>2, <2>1 DEF AwaitedLive
<1>3. ASSUME NEW i \in Ids, SurfaceRequest(i) \/ ShmRequest(i) \/ RoleRequest(i)
      PROVE  AwaitedLive'
  <2>1. PICK n \in Nat : /\ DOMAIN out = 1..Len(out) /\ DOMAIN out' = 1..(Len(out) + n)
                         /\ Len(out) \in Nat
                         /\ \A k \in 1..Len(out) : out'[k] = out[k]
    <3>1. PICK e : out' = out \/ out' = Append(out, e)
      BY <1>3, RequestsMoveIds DEF MovesIds, AllocatesId, RetiresId, QueuesError, KeepsIds
    <3>2. DOMAIN out = 1..Len(out) /\ Len(out) \in Nat
      BY <1>1 DEF TypeOK
    <3>3. CASE out' = out
      <4>1. DOMAIN out' = 1..(Len(out) + 0) /\ \A k \in 1..Len(out) : out'[k] = out[k]
        BY <3>2, <3>3
      <4> QED BY <3>2, <4>1
    <3>4. CASE out' = Append(out, e)
      <4>1. DOMAIN out' = 1..(Len(out) + 1) /\ \A k \in 1..Len(out) : out'[k] = out[k]
        BY <1>1, <3>4 DEF TypeOK
      <4> QED BY <3>2, <4>1
    <3> QED BY <3>1, <3>3, <3>4
  <2>2. \A c \in Ids : objects[c] = "callback" => objects'[c] = "callback"
    BY <1>1, <1>3, RequestsKeepCallbacks
  <2>3. \A c \in Ids : frameOf'[c] # NoId => objects'[c] = "callback" \/ frameOf[c] # NoId
    BY <1>1, <1>3, RequestsShorten, FrameAwaits
  <2> QED BY <1>2, <2>1, <2>2, <2>3
<1>4. ASSUME NEW s \in Ids, PresentDone(s)
      PROVE  AwaitedLive'
  <2>1. PICK cb \in Ids :
          /\ objects' = [objects EXCEPT ![cb] = "none"]
          /\ DOMAIN out = 1..Len(out) /\ DOMAIN out' = 1..(Len(out) + 2) /\ Len(out) \in Nat
          /\ \A k \in 1..Len(out) : out'[k] = out[k]
          /\ out'[Len(out) + 1] = Done(cb)
    BY <1>1, <1>4, DoneQueues
  <2>2. frameOf' = frameOf /\ \A c \in Ids \ {cb} : objects'[c] = objects[c]
    BY <1>1, <1>4, <2>1 DEF PresentDone, clientVars, TypeOK
  <2>3. \E k \in DOMAIN out' : out'[k] = Done(cb)
    BY <2>1
  <2> QED BY <1>2, <2>1, <2>2, <2>3
<1>5. ASSUME NEW s \in Ids, PresentRelease(s)
      PROVE  AwaitedLive'
  <2>1. PICK e : out' = out \/ out' = Append(out, e)
    BY <1>5 DEF PresentRelease
  <2>2. /\ Len(out) \in Nat /\ DOMAIN out = 1..Len(out) /\ DOMAIN out \subseteq DOMAIN out'
        /\ \A k \in 1..Len(out) : out'[k] = out[k]
    BY <1>1, <2>1 DEF TypeOK
  <2> QED BY <1>5, <2>2 DEF PresentRelease, clientVars, AwaitedLive
<1>6. CASE Receive
  <2> PICK e : e = Head(out)
    OBVIOUS
  <2>1. /\ Len(out) \in Nat \ {0} /\ DOMAIN out = 1..Len(out)
        /\ DOMAIN out' = 1..(Len(out) - 1)
        /\ \A k \in 1..(Len(out) - 1) : out'[k] = out[k + 1]
        /\ objects' = objects /\ e = out[1]
        /\ frameOf' = IF e.type = "done" THEN [frameOf EXCEPT ![e.id] = NoId] ELSE frameOf
    BY <1>1, <1>6 DEF TypeOK, Receive, serverVars
  <2>2. \A k \in DOMAIN out \ {1} : k - 1 \in DOMAIN out' /\ out'[k - 1] = out[k]
    BY <2>1
  <2>3. \A c \in Ids : frameOf'[c] # NoId => frameOf[c] # NoId /\ e # Done(c)
    BY <1>1, <2>1 DEF Done, TypeOK
  <2> QED BY <2>1, <2>2, <2>3 DEF AwaitedLive
<1>7. CASE BeginPresent \/ UNCHANGED vars
  BY <1>7 DEF BeginPresent, clientVars, vars, AwaitedLive
<1> QED BY <1>3, <1>4, <1>5, <1>6, <1>7 DEF Next, Present

LEMMA NextFrames ==
  ASSUME IInv, DataInv, LendInv, FrameInv, [Next]_vars
  PROVE  FrameInv'
BY NextPendingRequested, NextDoneIsLast, NextAwaitedLive DEF FrameInv, LendInv

LEMMA InitFrames == Init => FrameInv
BY EmptyToSet DEF Init, FrameInv, PendingRequested, DoneIsLast, AwaitedLive, Pending,
   IsSurfaceState, Nothing

Phase == [c \in Ids |-> PhaseOf(c)]

Requested(c) == \E s \in Ids : c \in ToSet(Pending(s))

\* Where a callback is for the client.
LEMMA PhaseCases ==
  ASSUME NEW c \in Ids
  PROVE  /\ Phase[c] = PhaseOf(c)
         /\ PhaseOf(c) = "idle" <=> frameOf[c] = NoId
         /\ PhaseOf(c) = "requested" <=> frameOf[c] # NoId /\ Requested(c)
         /\ PhaseOf(c) = "committed" <=> frameOf[c] # NoId /\ ~Requested(c)
BY DEF PhaseOf, Phase, Requested

\* The contract's steps, told by what changes.
LEMMA ContractSteps ==
  /\ UNCHANGED <<Phase, lent>> => [Contract!Next]_<<Phase, lent>>
  /\ \A c \in Ids : Phase[c] = "idle" /\ Phase' = [Phase EXCEPT ![c] = "requested"]
                    /\ lent' = lent => [Contract!Next]_<<Phase, lent>>
  /\ \A c \in Ids : Phase[c] = "committed" /\ Phase' = [Phase EXCEPT ![c] = "idle"]
                    /\ lent' = lent => [Contract!Next]_<<Phase, lent>>
  /\ \A b \in lent : lent' = lent \ {b} /\ Phase' = Phase /\ b \in Ids
                     => [Contract!Next]_<<Phase, lent>>
BY DEF Contract!Next, Contract!Request, Contract!Answer, Contract!GiveBack, Phase

\* Callbacks that leave the pending lists are handed over.
LEMMA HandOver ==
  ASSUME TypeOK, PendingRequested, frameOf' = frameOf,
         \A s \in Ids : Pending(s)' \in {Pending(s), <<>>},
         \/ lent' = lent
         \/ /\ \E b \in Ids \ lent : lent' = lent \cup {b}
            /\ \E c \in Ids : Requested(c) /\ ~Requested(c)'
  PROVE  [Contract!Next]_<<Phase, lent>>
<1> DEFINE C == {c \in Ids : Requested(c) /\ ~Requested(c)'}
<1>1. \A c \in Ids : Requested(c)' => Requested(c)
  BY EmptyToSet DEF Requested
<1>2. \A c \in Ids : Requested(c) => frameOf[c] # NoId
  BY NoIdAssumption DEF Requested, PendingRequested
<1>3. /\ DOMAIN Phase = Ids /\ DOMAIN Phase' = Ids
      /\ Phase = [c \in Ids |-> Phase[c]] /\ Phase' = [c \in Ids |-> Phase'[c]]
  BY DEF Phase
<1>4. ASSUME NEW c \in Ids
      PROVE  /\ Phase'[c] = IF c \in C THEN "committed" ELSE Phase[c]
             /\ c \in C => Phase[c] = "requested"
  <2>1. Phase[c] = PhaseOf(c) /\ Phase'[c] = PhaseOf(c)'
    BY DEF Phase
  <2>2. /\ PhaseOf(c) = IF frameOf[c] = NoId THEN "idle"
                        ELSE IF Requested(c) THEN "requested" ELSE "committed"
        /\ PhaseOf(c)' = IF frameOf[c] = NoId THEN "idle"
                         ELSE IF Requested(c)' THEN "requested" ELSE "committed"
    BY DEF PhaseOf, Requested
  <2> QED BY <1>1, <1>2, <2>1, <2>2
<1>5. Phase' = [c \in Ids |-> IF c \in C THEN "committed" ELSE Phase[c]]
  BY <1>3, <1>4
<1>6. \A c \in C : Phase[c] = "requested"
  BY <1>4
<1>7. C \in SUBSET Ids
  OBVIOUS
<1> HIDE DEF C
<1>8. ASSUME NEW B \in {{}} \cup {{b} : b \in Ids}, B \cap lent = {}, lent' = lent \cup B,
             C # {}
      PROVE  Contract!Next
  <2>1. Contract!Commit(C, B)
    BY <1>5, <1>6, <1>8 DEF Contract!Commit, Phase
  <2> QED BY <1>7, <2>1 DEF Contract!Next
<1>9. CASE lent' = lent /\ C = {}
  <2>1. Phase' = Phase
    BY <1>3, <1>5, <1>9
  <2> QED BY <1>9, <2>1
<1>10. CASE lent' = lent /\ C # {}
  <2>1. lent' = lent \cup {} /\ {} \cap lent = {}
    BY <1>10
  <2> QED BY <1>8, <1>10, <2>1
<1>11. CASE lent' # lent
  <2>1. PICK b \in Ids \ lent : lent' = lent \cup {b}
    BY <1>11
  <2>2. C # {}
    BY <1>11 DEF C
  <2>3. {b} \cap lent = {} /\ {b} \in {{a} : a \in Ids}
    BY <2>1
  <2> QED BY <1>8, <2>1, <2>2, <2>3
<1> QED BY <1>9, <1>10, <1>11

LEMMA NextContract ==
  ASSUME IInv, DataInv, LendInv, FrameInv,
         {"paced", "waitsRelease"} \subseteq Promises, [Next]_vars
  PROVE  [Contract!Next]_<<Phase, lent>>
<1>1. /\ TypeOK /\ IdConservation /\ FramesSafe /\ BuffersAreLive /\ PresentingSurfaces
      /\ PendingRequested /\ DoneIsLast /\ AwaitedLive /\ FreeUnheard /\ AttachedOnce
      /\ LentLive
  BY DEF IInv, FramesSafe, FrameInv, LendInv
<1>2. ASSUME NEW s \in Ids, NEW cb \in Ids, Frame(s, cb)
      PROVE  [Contract!Next]_<<Phase, lent>>
  <2>1. /\ objects[cb] = "none" /\ cb \in free
        /\ frameOf'[cb] = s /\ \A j \in Ids \ {cb} : frameOf'[j] = frameOf[j]
        /\ ToSet(Pending(s)') = ToSet(Pending(s)) \cup {cb}
        /\ \A t \in Ids \ {s} : Pending(t)' = Pending(t)
        /\ lent' = lent
    BY <1>1, <1>2, FrameAwaits
  <2>2. frameOf[cb] = NoId
    BY <1>1, <2>1 DEF AwaitedLive, FreeUnheard, Done
  <2>3. Requested(cb)' /\ \A c \in Ids \ {cb} : Requested(c)' <=> Requested(c)
    BY <2>1 DEF Requested
  <2>4. ASSUME NEW c \in Ids
        PROVE  Phase'[c] = IF c = cb THEN "requested" ELSE Phase[c]
    <3>1. Phase[c] = PhaseOf(c) /\ Phase'[c] = PhaseOf(c)'
      BY DEF Phase
    <3>2. /\ PhaseOf(c) = IF frameOf[c] = NoId THEN "idle"
                          ELSE IF Requested(c) THEN "requested" ELSE "committed"
          /\ PhaseOf(c)' = IF frameOf'[c] = NoId THEN "idle"
                           ELSE IF Requested(c)' THEN "requested" ELSE "committed"
      BY DEF PhaseOf, Requested
    <3> QED BY <2>1, <2>3, <3>1, <3>2, NoIdAssumption
  <2>5. Phase[cb] = "idle"
    BY <2>2, PhaseCases
  <2>6. Phase' = [Phase EXCEPT ![cb] = "requested"]
    <3>1. /\ Phase = [c \in Ids |-> Phase[c]] /\ Phase' = [c \in Ids |-> Phase'[c]]
      BY DEF Phase
    <3> QED BY <2>4, <3>1
  <2> QED BY <2>1, <2>5, <2>6, ContractSteps
<1>3. ASSUME NEW i \in Ids, SurfaceRequest(i) \/ ShmRequest(i) \/ RoleRequest(i),
             \A cb \in Ids : ~Frame(i, cb)
      PROVE  [Contract!Next]_<<Phase, lent>>
  <2>1. /\ \A s \in Ids : Pending(s)' \in {Pending(s), <<>>}
        /\ frameOf' = frameOf
    BY <1>1, <1>3, RequestsShorten
  <2>2. CASE Commit(i)
    <3> PICK b : b = CommitBuffer(i)
      OBVIOUS
    <3>1. \/ lent' = lent
          \/ b \in Ids \ lent /\ lent' = lent \cup {b}
      <4>1. b \in {NoId, Attachment(i)}
        BY <1>1, <2>2, CommitHas
      <4>2. b # NoId => b \in Ids \ lent
        BY <1>1, <4>1 DEF AttachedOnce, Live
      <4> QED BY <2>2, <4>2 DEF Commit
    <3>2. \E c \in Ids : Requested(c) /\ ~Requested(c)'
      <4>1. Pending(i) # <<>> /\ Pending(i) \in Seq(Ids)
        BY <1>1, <2>2, MadeStateLists, PresentedType DEF Commit
      <4> DEFINE c == Pending(i)[1]
      <4>2. c \in Ids /\ c \in ToSet(Pending(i))
        BY <4>1 DEF ToSet
      <4>3. \A t \in Ids \ {i} : c \notin ToSet(Pending(t)) /\ Pending(t)' = Pending(t)
        BY <1>1, <2>2, <4>2, ListFacts, CommitHasLists
      <4>4. Pending(i)' = <<>>
        BY <1>1, <2>2, CommitHasLists
      <4> HIDE DEF c
      <4> QED BY <4>2, <4>3, <4>4, EmptyToSet DEF Requested
    <3> QED BY <1>1, <2>1, <3>1, <3>2, HandOver
  <2>3. CASE ~Commit(i)
    <3>1. lent' = lent
      <4>1. CASE DestroyBuffer(i)
        BY <4>1 DEF DestroyBuffer, ClientMayUse
      <4> QED BY <1>3, <2>3, <4>1, RequestsLend
    <3> QED BY <1>1, <2>1, <3>1, HandOver
  <2> QED BY <2>2, <2>3
<1>4. ASSUME NEW s \in Ids, Present(s)
      PROVE  [Contract!Next]_<<Phase, lent>>
  <2>1. frameOf' = frameOf /\ lent' = lent
    BY <1>4 DEF Present, PresentDone, PresentRelease, clientVars
  <2>2. \A i \in Ids : Pending(i)' = Pending(i)
    BY <1>1, <1>4, DoneHasLists, ReleaseHasLists DEF Present
  <2> QED BY <1>1, <2>1, <2>2, HandOver
<1>5. CASE Receive
  <2> PICK e : e = Head(out)
    OBVIOUS
  <2>1. /\ e = out[1] /\ 1 \in DOMAIN out /\ e \in Events /\ userData' = userData
        /\ frameOf' = IF e.type = "done" THEN [frameOf EXCEPT ![e.id] = NoId] ELSE frameOf
        /\ lent' = IF e.type = "release" THEN lent \ {e.id} ELSE lent
    BY <1>1, <1>5 DEF Receive, serverVars, TypeOK
  <2>2. \A s \in Ids : Pending(s)' = Pending(s)
    BY <2>1 DEF Pending, IsSurfaceState
  <2>3. CASE e.type # "done"
    <3>1. Phase' = Phase
      BY <2>1, <2>2, <2>3 DEF Phase, PhaseOf
    <3>2. e.type = "release" => e.id \in Ids
      BY <2>1 DEF Events, Error
    <3>3. CASE lent' = lent
      BY <3>1, <3>3, ContractSteps
    <3>4. CASE lent' # lent
      <4>1. e.id \in lent /\ e.id \in Ids /\ lent' = lent \ {e.id}
        BY <2>1, <3>2, <3>4
      <4> QED BY <3>1, <4>1, ContractSteps
    <3> QED BY <3>3, <3>4
  <2>4. CASE e.type = "done"
    <3> PICK c : c = e.id
      OBVIOUS
    <3>1. /\ c \in Ids /\ objects[c] = "none" /\ lent' = lent
          /\ frameOf' = [frameOf EXCEPT ![c] = NoId]
      BY <1>1, <2>1, <2>4 DEF Events, Error, DoneIsLast
    <3>2. ~Requested(c)
      BY <1>1, <3>1, ListFacts DEF Requested, ToSet
    <3>3. ASSUME NEW d \in Ids
          PROVE  Phase'[d] = IF d = c THEN "idle" ELSE Phase[d]
      BY <1>1, <2>2, <3>1, <3>3 DEF Phase, PhaseOf, TypeOK
    <3>4. Phase' = [Phase EXCEPT ![c] = "idle"]
      <4>1. /\ Phase = [d \in Ids |-> Phase[d]] /\ Phase' = [d \in Ids |-> Phase'[d]]
        BY DEF Phase
      <4> QED BY <3>3, <4>1
    <3>5. Phase[c] \in {"idle", "committed"}
      BY <3>1, <3>2, PhaseCases DEF PhaseOf, Requested
    <3>6. CASE Phase[c] = "committed"
      BY <3>1, <3>4, <3>6, ContractSteps
    <3>7. CASE Phase[c] = "idle"
      <4>1. Phase' = Phase
        BY <3>4, <3>7 DEF Phase
      <4> QED BY <3>1, <4>1, ContractSteps
    <3> QED BY <3>5, <3>6, <3>7
  <2> QED BY <2>3, <2>4
<1>6. CASE BeginPresent \/ UNCHANGED vars
  <2>1. UNCHANGED <<userData, frameOf, lent>>
    BY <1>6 DEF BeginPresent, clientVars, vars
  <2>2. \A i \in Ids : Pending(i)' = Pending(i)
    BY <2>1 DEF Pending, IsSurfaceState
  <2> QED BY <1>1, <2>1, <2>2, HandOver
<1> QED BY <1>2, <1>3, <1>4, <1>5, <1>6 DEF Next

LEMMA InitContract == Init => Contract!Init
BY DEF Init, Contract!Init, PhaseOf

\* For every set of ids, every step of the object table, the queue and the two
\* threads is a step of the frame contract, for a client that paces its frames
\* and waits for release. (docs/PORT_NOTES.md, "Frame pump choreography")
THEOREM PumpKeepsContract ==
  ASSUME {"paced", "waitsRelease", "rolesFirst"} \subseteq Promises
  PROVE  Spec => Contract!Init /\ [][Contract!Next]_<<Phase, lent>>
<1>1. Init => DataInv /\ LendInv /\ FrameInv /\ Contract!Init
  BY InitData, InitLends, InitFrames, InitContract
<1>2. IInv /\ DataInv /\ LendInv /\ FrameInv /\ [Next]_vars => DataInv' /\ LendInv' /\ FrameInv'
  BY NextData, NextLends, NextFrames
<1>3. IInv /\ DataInv /\ LendInv /\ FrameInv /\ [Next]_vars => [Contract!Next]_<<Phase, lent>>
  BY NextContract
<1> QED BY <1>1, <1>2, <1>3, Invariant, PTL DEF Spec
=============================================================================
