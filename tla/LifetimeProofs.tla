--------------------------- MODULE LifetimeProofs ---------------------------
(***************************************************************************)
(* Proofs about Lifetime, for every set of connections and listeners and   *)
(* every bound.                                                            *)
(*                                                                         *)
(* NoDanglingUse and OffIsOff are not inductive: that the event loop works *)
(* on a listed connection rests on what it polled, that a visit does on    *)
(* the mutexes, and that nothing runs once disabled on where shutdown is.  *)
(* Inv adds these, in parts.                                               *)
(***************************************************************************)
EXTENDS Lifetime, TLAPS

\* What the event loop works on: a connection only it can kill, or a listener.
LoopAt ==
  /\ loop.pc \in {"read", "lock", "dispatch"} => loop.at \in connections \cap alive
  /\ loop.pc = "accept" => loop.at \in Listeners
  /\ loop.pc \notin {"read", "lock", "dispatch", "accept"} => loop.at = NoConn

LoopReady ==
  /\ loop.ready \cap Conns \subseteq alive
  /\ loop.at \notin loop.ready

\* Visits go to listed connections.
FramesAt ==
  /\ frames.pc \notin {"follow", "click", "sync", "present"} => frames.at = NoConn
  /\ frames.pc \in {"sync", "present"} =>
       frames.at \in connections \cup {NoConn} /\ frames.todo \subseteq connections

\* Each mutex is held exactly where the code holds it.
MutexesHeld ==
  /\ updateMutex = "loop" <=> loop.pc = "dispatch"
  /\ updateMutex = "frames" <=> frames.pc \in {"lists", "present"}
  /\ connMutex = "frames" <=> frames.pc \in {"sync", "present"}

\* What shutdown has done so far, and what a start that failed has not.
Stopped ==
  /\ owner.pc \in {"unloaded", "disabled", "joining", "clearing"} =>
       frames.pc = "off" /\ ~running /\ ~active
  /\ owner.pc # "stopping" => ~capturing
  /\ owner.pc \in {"unloaded", "disabled", "clearing"} => loop = Off
  /\ owner.pc \in {"unloaded", "disabled"} => connections = {} /\ listeners = {}
  /\ owner.pc \in {"enabled", "stopping"} /\ ~running =>
       loop = Off /\ connections = {} /\ listeners = {} /\ ~active
  /\ owner.pc \notin {"unloaded", "disabled"} => owner.enables > 0

\* Pointers kept outside the list.
Held(c) ==
  \/ c = seatConn
  \/ c \in ToSet(requests)
  \/ c \in ToSet(frames.drained)
  \/ frames.pc \in {"follow", "click"} /\ c = frames.at

\* While clients with such pointers stay, they are listed until the end.
PointersStay ==
  Promised("stays") /\ Promised("once") =>
    \A c \in Conns : Held(c) =>
      /\ c \in alive /\ c \notin left
      /\ c \in connections
           \/ (owner.pc \in {"unloaded", "disabled"} /\ owner.enables > 0)

\* A scan has a bridge where the loader waits for it.
ScansLoaded == Promised("scanned") /\ scans > 0 => owner.pc # "unloaded"

Places == LoopAt /\ LoopReady /\ FramesAt /\ MutexesHeld /\ Stopped /\ ScansLoaded
Inv == TypeOK /\ Places /\ PointersStay

----------------------------------------------------------------------------
(* Sequences of connections.                                               *)

LEMMA ConnsIn == \A s \in Seq(Conns) : ToSet(s) \subseteq Conns
  BY DEF ToSet

LEMMA ConnsEmpty == <<>> \in Seq(Conns) /\ ToSet(<<>>) = {}
  BY DEF ToSet

LEMMA ConnsAppend ==
  ASSUME NEW s \in Seq(Conns), NEW c \in Conns
  PROVE  Append(s, c) \in Seq(Conns) /\ ToSet(Append(s, c)) = ToSet(s) \cup {c}
<1>1. Append(s, c) \in Seq(Conns)
  OBVIOUS
<1>2. ToSet(Append(s, c)) \subseteq ToSet(s) \cup {c}
  BY DEF ToSet
<1>3. ToSet(s) \subseteq ToSet(Append(s, c))
  BY DEF ToSet
<1>4. c \in ToSet(Append(s, c))
  <2>1. Len(s) + 1 \in DOMAIN Append(s, c) /\ Append(s, c)[Len(s) + 1] = c
    OBVIOUS
  <2> QED BY <2>1 DEF ToSet
<1> QED
  BY <1>1, <1>2, <1>3, <1>4

LEMMA ConnsHead ==
  ASSUME NEW s \in Seq(Conns), s # <<>>
  PROVE  /\ Head(s) \in ToSet(s) /\ Head(s) \in Conns
         /\ Tail(s) \in Seq(Conns) /\ ToSet(Tail(s)) \subseteq ToSet(s)
<1>1. Head(s) \in Conns /\ Tail(s) \in Seq(Conns)
  OBVIOUS
<1>2. 1 \in DOMAIN s /\ Head(s) = s[1]
  OBVIOUS
<1>3. Head(s) \in ToSet(s)
  BY <1>2 DEF ToSet
<1>4. ToSet(Tail(s)) \subseteq ToSet(s)
  BY DEF ToSet
<1> QED
  BY <1>1, <1>3, <1>4

LEMMA ConnsBoth ==
  ASSUME NEW s \in Seq(Conns), NEW t \in Seq(Conns)
  PROVE  ToSet(s \o t) = ToSet(s) \cup ToSet(t)
<1>1. ToSet(s \o t) \subseteq ToSet(s) \cup ToSet(t)
  BY DEF ToSet
<1>2. ToSet(s) \subseteq ToSet(s \o t)
  BY DEF ToSet
<1>3. ToSet(t) \subseteq ToSet(s \o t)
  <2> SUFFICES ASSUME NEW i \in DOMAIN t PROVE t[i] \in ToSet(s \o t)
    BY DEF ToSet
  <2>1. Len(s) + i \in DOMAIN (s \o t) /\ (s \o t)[Len(s) + i] = t[i]
    OBVIOUS
  <2> QED BY <2>1 DEF ToSet
<1> QED
  BY <1>1, <1>2, <1>3

----------------------------------------------------------------------------
(* Types.                                                                  *)

LEMMA TypeInit == Init => TypeOK
<1> SUFFICES ASSUME Init PROVE TypeOK
  OBVIOUS
<1>1. loop \in Loop
  BY DEF Init, Loop, Off, LoopPlaces
<1>2. frames \in Frames
  BY ConnsEmpty DEF Init, Frames, Rest, FramePlaces
<1>3. owner \in Owner
  BY DEF Init, Owner, OwnerPlaces
<1>4. requests \in Seq(Conns)
  BY ConnsEmpty DEF Init
<1>5. /\ promises \in Worlds /\ lane \in Lanes
      /\ {running, active, capturing} \subseteq BOOLEAN
      /\ listeners \subseteq Listeners
      /\ alive \subseteq Conns /\ connections \subseteq Conns
      /\ outside \subseteq Conns /\ left \subseteq Conns
      /\ seatConn \in Conns \cup {NoConn} /\ scans \in Nat
  BY DEF Init
<1>6. knocking \in [Listeners -> SUBSET Conns]
  BY DEF Init
<1>7. updateMutex \in Threads \cup {Free} /\ connMutex \in {"frames", Free}
  BY DEF Init, Threads, Free
<1> QED
  BY <1>1, <1>2, <1>3, <1>4, <1>5, <1>6, <1>7 DEF TypeOK

LEMMA TypeClient ==
  ASSUME TypeOK, LoopAt, ClientStep PROVE TypeOK'
<1> USE DEF TypeOK, lists, clientSide, service, mutexes, threads,
           ownerSide
<1>1. ASSUME NEW c \in Conns, Leave(c) PROVE TypeOK'
  BY <1>1 DEF Leave
<1>2. ASSUME NEW c \in Conns, NEW l \in Listeners, Connect(c, l) PROVE TypeOK'
  BY <1>2 DEF Connect
<1> QED
  BY <1>1, <1>2 DEF ClientStep

LEMMA TypeLoop ==
  ASSUME TypeOK, LoopAt, LoopStep PROVE TypeOK'
<1> USE DEF TypeOK, lists, clientSide, service, mutexes, threads,
           ownerSide, Loop, LoopPlaces
<1>1. CASE CheckRunning
  <2>1. CASE ~running
    BY <1>1, <2>1 DEF CheckRunning
  <2>2. CASE running
    <3>1. loop' = [loop EXCEPT !.pc = "poll",
                               !.ready = listeners \cup (connections \cap alive)]
      BY <1>1, <2>2 DEF CheckRunning
    <3>2. listeners \cup (connections \cap alive) \in SUBSET (Listeners \cup Conns)
      OBVIOUS
    <3>3. loop' \in Loop
      BY <3>1, <3>2
    <3> QED BY <1>1, <3>3 DEF CheckRunning
  <2> QED BY <2>1, <2>2
<1>2. CASE BeginDispatch
  BY <1>2 DEF BeginDispatch, Threads
<1>3. CASE ReapClosed
  BY <1>3 DEF ReapClosed
<1>4. ASSUME NEW c \in Conns, Accept(c) PROVE TypeOK'
  BY <1>4 DEF Accept
<1>5. ASSUME NEW c \in Conns, TakeConnection(c) PROVE TypeOK'
  BY <1>5 DEF TakeConnection
<1>6. CASE PollFails
  BY <1>6 DEF PollFails
<1>7. CASE NoMoreToAccept
  BY <1>7 DEF NoMoreToAccept
<1>8. CASE NoneReady
  BY <1>8 DEF NoneReady
<1>9. CASE ReadEnds
  BY <1>9 DEF ReadEnds, Kill, LoopAt
<1>10. CASE ReadGets
  BY <1>10 DEF ReadGets
<1>11. CASE PushRequest
  BY <1>11, ConnsAppend DEF PushRequest, LoopAt
<1>12. CASE BindSeat
  BY <1>12 DEF BindSeat, LoopAt
<1>13. ASSUME NEW ready \in SUBSET (Listeners \cup Conns), Poll(ready) PROVE TypeOK'
  BY <1>13 DEF Poll
<1>14. ASSUME NEW l \in Listeners, TakeListener(l) PROVE TypeOK'
  BY <1>14 DEF TakeListener
<1>15. ASSUME NEW error \in BOOLEAN, EndDispatch(error) PROVE TypeOK'
  BY <1>15 DEF EndDispatch, Kill, Free
<1> QED
  BY <1>1, <1>2, <1>3, <1>4, <1>5, <1>6, <1>7, <1>8, <1>9, <1>10, <1>11,
     <1>12, <1>13, <1>14, <1>15 DEF LoopStep, LoopLocks

LEMMA TypeFrames ==
  ASSUME TypeOK, LoopAt, FrameBegins \/ FrameGoesOn PROVE TypeOK'
<1> USE DEF TypeOK, lists, clientSide, service, mutexes, threads,
           ownerSide, Frames, FramePlaces
<1>1. CASE DrainRequests
  BY <1>1, ConnsEmpty DEF DrainRequests, Rest
<1>2. CASE PumpTick
  BY <1>2 DEF PumpTick
<1>3. CASE Click
  BY <1>3 DEF Click
<1>4. CASE HandleRequest
  BY <1>4, ConnsHead DEF HandleRequest
<1>5. CASE HandledRequest
  BY <1>5 DEF HandledRequest
<1>6. CASE BeginSync
  BY <1>6 DEF BeginSync, Threads
<1>7. CASE EndSync
  BY <1>7 DEF EndSync, Free
<1>8. CASE PumpEnds
  BY <1>8 DEF PumpEnds
<1>9. CASE BeginUpdate
  BY <1>9 DEF BeginUpdate, Threads
<1>10. CASE BeginPresent
  BY <1>10 DEF BeginPresent, Threads
<1>11. CASE EndUpdate
  BY <1>11, ConnsEmpty DEF EndUpdate, Free, Threads, Rest
<1>12. CASE Inject
  BY <1>12, ConnsEmpty DEF Inject, Rest
<1>13. ASSUME NEW c \in Conns, Visit(c) PROVE TypeOK'
  BY <1>13 DEF Visit
<1> QED
  BY <1>1, <1>2, <1>3, <1>4, <1>5, <1>6, <1>7, <1>8, <1>9, <1>10, <1>11,
     <1>12, <1>13 DEF FrameBegins, FrameGoesOn

LEMMA TypeOwner ==
  ASSUME TypeOK, LoopAt, OwnerStep \/ ScanEnds \/ CaptureEnds PROVE TypeOK'
<1> USE DEF TypeOK, lists, clientSide, service, mutexes, threads,
           ownerSide, Owner, OwnerPlaces
<1>1. CASE BeginShutdown
  BY <1>1 DEF BeginShutdown
<1>2. CASE JoinLoop
  BY <1>2 DEF JoinLoop, Off, Loop, LoopPlaces
<1>3. CASE Clear
  BY <1>3 DEF Clear
<1>4. CASE Disable
  BY <1>4 DEF Disable, StopCapture, Frames, FramePlaces
<1>5. ASSUME NEW opened \in Setups, StartCompositor(opened), MayEnable
      PROVE  /\ running' \in BOOLEAN /\ active' \in BOOLEAN
             /\ listeners' \subseteq Listeners /\ loop' \in Loop
  BY <1>5 DEF StartCompositor, Setups, Off, Loop, LoopPlaces
<1>6. ASSUME NEW pumping \in BOOLEAN, Enabled(pumping) PROVE owner' \in Owner
  BY <1>6 DEF Enabled
<1>7. Rest \in Frames
  BY ConnsEmpty DEF Rest, Frames, FramePlaces
<1>8. ASSUME NEW opened \in Setups, EnableMod(opened) PROVE TypeOK'
  BY <1>5, <1>6, <1>7, <1>8 DEF EnableMod
<1>9. ASSUME NEW opened \in Setups, EnableAndroid(opened) PROVE TypeOK'
  <2>1. scans + 1 \in Nat
    OBVIOUS
  <2>2. owner' \in Owner
    BY <1>6, <1>9 DEF EnableAndroid
  <2> QED BY <1>5, <1>7, <1>9, <2>1, <2>2 DEF EnableAndroid, PumpStarts
<1>10. CASE LoadMod
  BY <1>10, ConnsEmpty DEF LoadMod
<1>11. CASE LoadAndroid
  BY <1>11 DEF LoadAndroid
<1>12. CASE Unload
  BY <1>12 DEF Unload
<1>13. CASE ScanEnds
  BY <1>13 DEF ScanEnds
<1>14. CASE CaptureEnds
  BY <1>14 DEF CaptureEnds
<1> QED
  BY <1>1, <1>2, <1>3, <1>4, <1>8, <1>9, <1>10, <1>11, <1>12, <1>13, <1>14
     DEF OwnerStep, ShutdownGoesOn

----------------------------------------------------------------------------
(* Where the threads are and what they hold.                                *)

LEMMA PlacesInit == Init => Places
  BY LifetimeAssumption DEF Init, Places, LoopAt, LoopReady, FramesAt, MutexesHeld,
     Stopped, ScansLoaded, Off, Rest, Free

LEMMA PlacesClient ==
  ASSUME TypeOK, Places, ClientStep PROVE Places'
<1> USE DEF TypeOK, lists, clientSide, service, mutexes, threads,
           ownerSide,
           Loop, Frames, Owner, Places, LoopAt, LoopReady, FramesAt, MutexesHeld, Stopped,
           ScansLoaded, Promised
<1>1. ASSUME NEW c \in Conns, Leave(c) PROVE Places'
  BY <1>1 DEF Leave
<1>2. ASSUME NEW c \in Conns, NEW l \in Listeners, Connect(c, l) PROVE Places'
  BY <1>2 DEF Connect
<1> QED
  BY <1>1, <1>2 DEF ClientStep

LEMMA PlacesLoop ==
  ASSUME TypeOK, Places, LoopStep PROVE Places'
<1> USE DEF TypeOK, lists, clientSide, service, mutexes, threads,
           ownerSide,
           Loop, Frames, Owner, Places, LoopAt, LoopReady, FramesAt, MutexesHeld, Stopped,
           ScansLoaded, Promised
<1>1. CASE CheckRunning
  <2>1. CASE ~running
    BY <1>1, <2>1 DEF CheckRunning, Off
  <2>2. CASE running
    <3>1. /\ loop.pc = "check" /\ loop.at = NoConn
          /\ loop' = [loop EXCEPT !.pc = "poll",
                                  !.ready = listeners \cup (connections \cap alive)]
      BY <1>1, <2>2 DEF CheckRunning
    <3>2. loop'.pc = "poll" /\ loop'.at = NoConn
          /\ loop'.ready = listeners \cup (connections \cap alive)
      BY <3>1
    <3> QED BY <1>1, <2>2, <3>1, <3>2, LifetimeAssumption DEF CheckRunning, Off
  <2> QED BY <2>1, <2>2
<1>2. CASE BeginDispatch
  BY <1>2 DEF BeginDispatch, Free, Off
<1>3. CASE ReapClosed
  BY <1>3, LifetimeAssumption DEF ReapClosed, Free, Off
<1>4. ASSUME NEW c \in Conns, Accept(c) PROVE Places'
  BY <1>4, LifetimeAssumption DEF Accept, Free, Off
<1>5. ASSUME NEW c \in Conns, TakeConnection(c) PROVE Places'
  BY <1>5, LifetimeAssumption DEF TakeConnection, Off
<1>6. CASE PollFails
  BY <1>6, LifetimeAssumption DEF PollFails, Off
<1>7. CASE NoMoreToAccept
  BY <1>7, LifetimeAssumption DEF NoMoreToAccept, Off
<1>8. CASE NoneReady
  BY <1>8, LifetimeAssumption DEF NoneReady, Off
<1>9. CASE ReadEnds
  BY <1>9, LifetimeAssumption DEF ReadEnds, Kill, Off
<1>10. CASE ReadGets
  BY <1>10 DEF ReadGets, Off
<1>11. CASE PushRequest
  BY <1>11 DEF PushRequest, Off
<1>12. CASE BindSeat
  BY <1>12 DEF BindSeat, Off
<1>13. ASSUME NEW ready \in SUBSET (Listeners \cup Conns), Poll(ready) PROVE Places'
  BY <1>13, LifetimeAssumption DEF Poll, Off
<1>14. ASSUME NEW l \in Listeners, TakeListener(l) PROVE Places'
  BY <1>14, LifetimeAssumption DEF TakeListener, Off
<1>15. ASSUME NEW error \in BOOLEAN, EndDispatch(error) PROVE Places'
  BY <1>15, LifetimeAssumption DEF EndDispatch, Kill, Free, Off
<1> QED
  BY <1>1, <1>2, <1>3, <1>4, <1>5, <1>6, <1>7, <1>8, <1>9, <1>10, <1>11,
     <1>12, <1>13, <1>14, <1>15 DEF LoopStep, LoopLocks

LEMMA PlacesFrames ==
  ASSUME TypeOK, Places, FrameBegins \/ FrameGoesOn PROVE Places'
<1> USE DEF TypeOK, lists, clientSide, service, mutexes, threads,
           ownerSide,
           Loop, Frames, Owner, Places, LoopAt, LoopReady, FramesAt, MutexesHeld, Stopped,
           ScansLoaded, Promised
<1>1. CASE DrainRequests
  BY <1>1 DEF DrainRequests, Rest, FrameMayBegin
<1>2. CASE PumpTick
  BY <1>2 DEF PumpTick, FrameMayBegin
<1>3. CASE Click
  BY <1>3, LifetimeAssumption DEF Click, FrameMayBegin
<1>4. CASE HandleRequest
  BY <1>4, ConnsHead DEF HandleRequest
<1>5. CASE HandledRequest
  BY <1>5 DEF HandledRequest
<1>6. CASE BeginSync
  BY <1>6, LifetimeAssumption DEF BeginSync, Free
<1>7. CASE EndSync
  BY <1>7 DEF EndSync, Free
<1>8. CASE PumpEnds
  BY <1>8 DEF PumpEnds
<1>9. CASE BeginUpdate
  BY <1>9 DEF BeginUpdate, Free
<1>10. CASE BeginPresent
  BY <1>10, LifetimeAssumption DEF BeginPresent, Free
<1>11. CASE EndUpdate
  BY <1>11 DEF EndUpdate, Rest, Free
<1>12. CASE Inject
  BY <1>12 DEF Inject, Rest, Free
<1>13. ASSUME NEW c \in Conns, Visit(c) PROVE Places'
  BY <1>13 DEF Visit
<1> QED
  BY <1>1, <1>2, <1>3, <1>4, <1>5, <1>6, <1>7, <1>8, <1>9, <1>10, <1>11,
     <1>12, <1>13 DEF FrameBegins, FrameGoesOn

LEMMA PlacesOwner ==
  ASSUME TypeOK, Places, OwnerStep \/ ScanEnds \/ CaptureEnds PROVE Places'
<1> USE DEF TypeOK, lists, clientSide, service, mutexes, threads,
           ownerSide,
           Loop, Frames, Owner, Places, LoopAt, LoopReady, FramesAt, MutexesHeld, Stopped,
           ScansLoaded, Promised
<1>1. CASE BeginShutdown
  BY <1>1 DEF BeginShutdown, Off
<1>2. CASE JoinLoop
  BY <1>2 DEF JoinLoop, Off
<1>3. CASE Clear
  BY <1>3 DEF Clear, Free, Off
<1>4. CASE Disable
  BY <1>4 DEF Disable
<1>5. ASSUME NEW opened \in Setups, StartCompositor(opened), MayEnable,
             NEW pumping \in BOOLEAN, Enabled(pumping), frames' = Rest,
             UNCHANGED <<connections, alive, capturing, updateMutex, connMutex>>
      PROVE  Places'
  <2>1. /\ owner.pc = "disabled" /\ owner'.pc = "enabled" /\ owner'.enables > 0
        /\ loop = Off /\ connections = {} /\ frames.pc = "off" /\ loop.at = NoConn
    BY <1>5 DEF MayEnable, Enabled, Off
  <2>2. CASE opened = {}
    BY <1>5, <2>1, <2>2 DEF StartCompositor, Rest, Off
  <2>3. CASE opened # {}
    <3>1. loop' = [pc |-> "check", ready |-> {}, at |-> NoConn]
      BY <1>5, <2>3 DEF StartCompositor, Off
    <3>2. /\ loop'.pc = "check" /\ loop'.ready = {} /\ loop'.at = NoConn
          /\ frames'.pc = "idle" /\ frames'.at = NoConn /\ frames'.todo = {}
          /\ listeners' = opened
      BY <1>5, <2>3, <3>1 DEF StartCompositor, Rest
    <3>3. running' /\ active'
      BY <1>5, <2>3, Zenon DEF StartCompositor
    <3>4. LoopAt' /\ LoopReady' /\ Stopped' /\ ScansLoaded'
      BY <1>5, <2>1, <3>2, <3>3, LifetimeAssumption
    <3>5. FramesAt' /\ MutexesHeld'
      BY <1>5, <2>1, <3>2
    <3> QED BY <3>4, <3>5
  <2> QED BY <2>2, <2>3
<1>6. ASSUME NEW opened \in Setups, EnableMod(opened) PROVE Places'
  BY <1>5, <1>6 DEF EnableMod
<1>7. ASSUME NEW opened \in Setups, EnableAndroid(opened) PROVE Places'
  BY <1>5, <1>7 DEF EnableAndroid, PumpStarts
<1>8. CASE LoadMod
  BY <1>8 DEF LoadMod
<1>9. CASE LoadAndroid
  BY <1>9 DEF LoadAndroid
<1>10. CASE Unload
  BY <1>10 DEF Unload
<1>11. CASE ScanEnds
  BY <1>11 DEF ScanEnds
<1>12. CASE CaptureEnds
  BY <1>12 DEF CaptureEnds
<1> QED
  BY <1>1, <1>2, <1>3, <1>4, <1>6, <1>7, <1>8, <1>9, <1>10, <1>11, <1>12
     DEF OwnerStep, ShutdownGoesOn

----------------------------------------------------------------------------
(* Pointers that are kept.                                                 *)

LEMMA StayInit == TypeOK /\ Init => PointersStay
<1> SUFFICES ASSUME TypeOK, Init, NEW c \in Conns, Held(c) PROVE FALSE
  BY DEF PointersStay
<1> QED
  BY LifetimeAssumption, ConnsEmpty DEF Init, Held, Rest, Off

\* A client that may end by its promise is not held.
LEMMA NotHeld ==
  ASSUME TypeOK, NEW c \in Conns, MayEnd(c), Promised("stays") PROVE ~Held(c)
<1>1. frames.drained \in Seq(Conns) /\ requests \in Seq(Conns)
  BY DEF TypeOK, Frames
<1>2. ToSet(requests \o frames.drained) = ToSet(requests) \cup ToSet(frames.drained)
  BY <1>1, ConnsBoth
<1> QED
  BY <1>2 DEF MayEnd, PointedAt, Held

LEMMA StayClient ==
  ASSUME TypeOK, LoopAt, Stopped, PointersStay, ClientStep PROVE PointersStay'
<1> USE DEF PointersStay, Held, Promised, lists, clientSide, service, mutexes, threads,
           ownerSide,
           TypeOK, Loop, Frames, Owner
<1>1. ASSUME NEW c \in Conns, Leave(c) PROVE PointersStay'
  BY <1>1, NotHeld DEF Leave
<1>2. ASSUME NEW c \in Conns, NEW l \in Listeners, Connect(c, l) PROVE PointersStay'
  BY <1>2 DEF Connect
<1> QED
  BY <1>1, <1>2 DEF ClientStep

LEMMA StayLoop ==
  ASSUME TypeOK, LoopAt, Stopped, PointersStay, LoopStep PROVE PointersStay'
<1> USE DEF PointersStay, Held, Promised, lists, clientSide, service, mutexes, threads,
           ownerSide,
           TypeOK, Loop, Frames, Owner
<1>1. CASE CheckRunning
  BY <1>1 DEF CheckRunning
<1>2. CASE BeginDispatch
  BY <1>2 DEF BeginDispatch
<1>3. CASE ReapClosed
  BY <1>3 DEF ReapClosed
<1>4. ASSUME NEW c \in Conns, Accept(c) PROVE PointersStay'
  BY <1>4 DEF Accept
<1>5. ASSUME NEW c \in Conns, TakeConnection(c) PROVE PointersStay'
  BY <1>5 DEF TakeConnection
<1>6. CASE PollFails
  BY <1>6 DEF PollFails
<1>7. CASE NoMoreToAccept
  BY <1>7 DEF NoMoreToAccept
<1>8. CASE NoneReady
  BY <1>8 DEF NoneReady
<1>9. CASE ReadEnds
  BY <1>9, NotHeld DEF ReadEnds, Kill, LoopAt
<1>10. CASE ReadGets
  BY <1>10 DEF ReadGets
<1>11. CASE PushRequest
  BY <1>11, ConnsAppend DEF PushRequest, LoopAt, Off, Stopped
<1>12. CASE BindSeat
  BY <1>12 DEF BindSeat, LoopAt
<1>13. ASSUME NEW ready \in SUBSET (Listeners \cup Conns), Poll(ready) PROVE PointersStay'
  BY <1>13 DEF Poll
<1>14. ASSUME NEW l \in Listeners, TakeListener(l) PROVE PointersStay'
  BY <1>14 DEF TakeListener
<1>15. ASSUME NEW error \in BOOLEAN, EndDispatch(error) PROVE PointersStay'
  BY <1>15, NotHeld DEF EndDispatch, Kill, LoopAt
<1> QED
  BY <1>1, <1>2, <1>3, <1>4, <1>5, <1>6, <1>7, <1>8, <1>9, <1>10, <1>11,
     <1>12, <1>13, <1>14, <1>15 DEF LoopStep, LoopLocks

LEMMA StayFrames ==
  ASSUME TypeOK, LoopAt, Stopped, PointersStay, FrameBegins \/ FrameGoesOn
  PROVE  PointersStay'
<1> USE DEF PointersStay, Held, Promised, lists, clientSide, service, mutexes, threads,
           ownerSide,
           TypeOK, Loop, Frames, Owner
<1>1. CASE DrainRequests
  BY <1>1, ConnsEmpty DEF DrainRequests, Rest
<1>2. CASE PumpTick
  BY <1>2 DEF PumpTick
<1>3. CASE Click
  BY <1>3 DEF Click
<1>4. CASE HandleRequest
  BY <1>4, ConnsHead DEF HandleRequest
<1>5. CASE HandledRequest
  BY <1>5 DEF HandledRequest
<1>6. CASE BeginSync
  BY <1>6 DEF BeginSync
<1>7. CASE EndSync
  BY <1>7 DEF EndSync
<1>8. CASE PumpEnds
  BY <1>8 DEF PumpEnds
<1>9. CASE BeginUpdate
  BY <1>9 DEF BeginUpdate
<1>10. CASE BeginPresent
  BY <1>10 DEF BeginPresent
<1>11. CASE EndUpdate
  BY <1>11, ConnsEmpty DEF EndUpdate, Rest
<1>12. CASE Inject
  BY <1>12, ConnsEmpty DEF Inject, Rest
<1>13. ASSUME NEW c \in Conns, Visit(c) PROVE PointersStay'
  BY <1>13 DEF Visit
<1> QED
  BY <1>1, <1>2, <1>3, <1>4, <1>5, <1>6, <1>7, <1>8, <1>9, <1>10, <1>11,
     <1>12, <1>13 DEF FrameBegins, FrameGoesOn

LEMMA StayOwner ==
  ASSUME TypeOK, LoopAt, Stopped, PointersStay, OwnerStep \/ ScanEnds \/ CaptureEnds
  PROVE  PointersStay'
<1> USE DEF PointersStay, Held, Promised, lists, clientSide, service, mutexes, threads,
           ownerSide,
           TypeOK, Loop, Frames, Owner
<1>1. CASE BeginShutdown
  BY <1>1 DEF BeginShutdown, Stopped
<1>2. CASE JoinLoop
  BY <1>2 DEF JoinLoop
<1>3. CASE Clear
  BY <1>3 DEF Clear, Stopped
<1>4. CASE Disable
  BY <1>4 DEF Disable
<1>5. ASSUME NEW opened \in Setups, EnableMod(opened) PROVE PointersStay'
  BY <1>5, ConnsEmpty DEF EnableMod, MayEnable, Enabled, Rest, Stopped
<1>6. ASSUME NEW opened \in Setups, EnableAndroid(opened) PROVE PointersStay'
  BY <1>6, ConnsEmpty DEF EnableAndroid, PumpStarts, MayEnable, Enabled, Rest, Stopped
<1>7. CASE LoadMod
  BY <1>7, LifetimeAssumption, ConnsEmpty DEF LoadMod, Stopped
<1>8. CASE LoadAndroid
  BY <1>8 DEF LoadAndroid
<1>9. CASE Unload
  BY <1>9 DEF Unload
<1>10. CASE ScanEnds
  BY <1>10 DEF ScanEnds
<1>11. CASE CaptureEnds
  BY <1>11 DEF CaptureEnds
<1> QED
  BY <1>1, <1>2, <1>3, <1>4, <1>5, <1>6, <1>7, <1>8, <1>9, <1>10, <1>11
     DEF OwnerStep, ShutdownGoesOn

----------------------------------------------------------------------------
(* The theorems.                                                           *)

LEMMA InvInit == Init => Inv
  BY TypeInit, PlacesInit, StayInit DEF Inv

LEMMA InvStep == Inv /\ [Next]_vars => Inv'
<1> SUFFICES ASSUME Inv, [Next]_vars PROVE Inv'
  OBVIOUS
<1>1. CASE ClientStep
  BY <1>1, TypeClient, PlacesClient, StayClient DEF Inv, Places
<1>2. CASE LoopStep
  BY <1>2, TypeLoop, PlacesLoop, StayLoop DEF Inv, Places
<1>3. CASE FrameBegins \/ FrameGoesOn
  BY <1>3, TypeFrames, PlacesFrames, StayFrames DEF Inv, Places
<1>4. CASE OwnerStep \/ ScanEnds \/ CaptureEnds
  BY <1>4, TypeOwner, PlacesOwner, StayOwner DEF Inv, Places
<1>5. CASE UNCHANGED vars
  <2> USE <1>5 DEF vars, lists, clientSide, service, mutexes, threads,
           ownerSide
  <2>1. TypeOK'
    BY DEF Inv, TypeOK
  <2>2. Places'
    BY DEF Inv, Places, LoopAt, LoopReady, FramesAt, MutexesHeld, Stopped,
           ScansLoaded, Promised
  <2>3. PointersStay'
    BY DEF Inv, PointersStay, Held, Promised
  <2> QED BY <2>1, <2>2, <2>3 DEF Inv
<1> QED
  BY <1>1, <1>2, <1>3, <1>4, <1>5 DEF Next

THEOREM Invariance == Spec => []Inv
  BY InvInit, InvStep, PTL DEF Spec

(***************************************************************************)
(* Every variable keeps its type, whichever threads run and clients come.  *)
(***************************************************************************)
THEOREM TypeCorrect == Spec => []TypeOK
<1>1. Inv => TypeOK
  BY DEF Inv
<1> QED
  BY <1>1, Invariance, PTL

(***************************************************************************)
(* No thread follows the pointer of a connection the loop has reaped or    *)
(* shutdown has cleared, but for those in requests and the seat, for which *)
(* clients have to stay; and no presentation meets a handler. (eventLoop,  *)
(* reapClosed, forEachConnection, shutdown)                                *)
(***************************************************************************)
THEOREM NothingDangles == Spec => []NoDanglingUse
<1>1. Inv => NoDanglingUse
  <2> SUFFICES ASSUME Inv PROVE NoDanglingUse
    OBVIOUS
  <2>1. loop.at \in Conns => loop.at \in connections
    BY LifetimeAssumption DEF Inv, Places, LoopAt
  <2>2. ASSUME frames.at # NoConn
        PROVE  \/ frames.at \in connections
               \/ frames.pc \in {"follow", "click"}
                  /\ ~(Promised("stays") /\ Promised("once"))
    <3>1. CASE frames.pc \in {"sync", "present"}
      BY <2>2, <3>1 DEF Inv, Places, FramesAt
    <3>2. CASE frames.pc \in {"follow", "click"}
      <4>1. /\ frames.at \in Conns /\ Held(frames.at)
            /\ owner.pc \notin {"unloaded", "disabled"}
        BY <2>2, <3>2 DEF Inv, Places, TypeOK, Frames, Held, Stopped
      <4> QED BY <3>2, <4>1 DEF Inv, PointersStay
    <3> QED BY <2>2, <3>1, <3>2 DEF Inv, Places, FramesAt
  <2>3. ~(frames.pc = "present" /\ loop.pc = "dispatch")
    BY DEF Inv, Places, MutexesHeld
  <2>4. Promised("scanned") /\ scans > 0 => owner.pc # "unloaded"
    BY DEF Inv, Places, ScansLoaded
  <2> QED BY <2>1, <2>2, <2>3, <2>4 DEF NoDanglingUse
<1> QED
  BY <1>1, Invariance, PTL

(***************************************************************************)
(* Once disabled, by whichever way, neither thread runs, nothing listens,  *)
(* no connection is left, no mutex is held and the capture service has     *)
(* stopped. (shutdown, start, disable)                                     *)
(***************************************************************************)
THEOREM DisabledIsOff == Spec => []OffIsOff
<1>1. Inv => OffIsOff
  <2> SUFFICES ASSUME Inv, owner.pc \in {"unloaded", "disabled"} PROVE OffIsOff
    BY DEF OffIsOff
  <2>1. /\ loop = Off /\ frames.pc = "off" /\ connections = {} /\ listeners = {}
        /\ ~running /\ ~active /\ ~capturing
    BY DEF Inv, Places, Stopped
  <2>2. loop.pc = "off"
    BY <2>1 DEF Off
  <2>3. updateMutex = Free /\ connMutex = Free
    BY <2>1, <2>2 DEF Inv, Places, MutexesHeld, TypeOK, Threads
  <2> QED BY <2>1, <2>3 DEF OffIsOff
<1> QED
  BY <1>1, Invariance, PTL
=============================================================================
