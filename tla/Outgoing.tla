------------------------------ MODULE Outgoing ------------------------------
(***************************************************************************)
(* The way out of one connection: Connection::sendEvent fills a buffer of  *)
(* bytes and a queue of descriptors, Compositor::flushClient hands both to *)
(* the socket, the client takes them apart again.                          *)
(*                                                                         *)
(* Both threads send, the event loop flushes; sendEvent and flushClient    *)
(* hold ioMutex_ and are one step each. A byte is a unit of some event;    *)
(* the socket takes a prefix of the buffer, or nothing when it is full.    *)
(***************************************************************************)
EXTENDS Naturals, FiniteSets, SequencesExt

CONSTANTS
  MaxEvents,   \* bound: events sent on the connection
  MaxUnits,    \* bound: units of an event
  Capacity,    \* units the socket holds
  MaxFds       \* descriptors one sendmsg carries: 16 in the code

ASSUME BoundsAssumption ==
  /\ MaxEvents \in Nat
  /\ MaxUnits \in Nat \ {0}
  /\ Capacity \in Nat \ {0}
  /\ MaxFds \in Nat \ {0}

VARIABLES
  environment,    \* what holds of the whole run, a subset of Environments
  sent,           \* the events marshalled so far
  out,            \* out_: units not yet given to the socket
  outFds,         \* outFds_: descriptors of queued events
  pendingOutFds,  \* pendingOutFds_: descriptors of the next send
  alive,          \* alive_
  listed,         \* the connection is in connections_
  open,           \* descriptors of the connection open in this process
  wire,           \* the socket: units, and the descriptors riding on them
  peerOpen,       \* the client has not closed its end
  partial,        \* client: units of the event it is reading
  fdQueue,        \* client: descriptors it read and no event took
  received        \* client: the events it decoded

(***************************************************************************)
(* roomy   the client reads in time: the socket has room at every flush    *)
(* fewFds  no more than MaxFds descriptors ever wait for a flush           *)
(***************************************************************************)
Environments == {"roomy", "fewFds"}

queues == <<out, outFds, pendingOutFds>>
client == <<partial, fdQueue, received>>
vars == <<environment, sent, queues, alive, listed, open, wire, peerOpen, client>>

----------------------------------------------------------------------------
(* A descriptor is named by the event it belongs to; the socket itself is  *)
(* Socket, an event that took no descriptor took NoFd.                     *)

Socket == 0
NoFd == 0

Numbers == 1..MaxEvents
Unit == [event : Numbers, part : 1..MaxUnits]
Event == [size : 1..MaxUnits, fd : BOOLEAN]
Carried == [unit : Unit, fds : Seq(Numbers)]

UnitsOf(n, size) == [k \in 1..size |-> [event |-> n, part |-> k]]

Init ==
  /\ environment \in SUBSET Environments
  /\ sent = <<>>
  /\ out = <<>>
  /\ outFds = <<>>
  /\ pendingOutFds = <<>>
  /\ alive = TRUE
  /\ listed = TRUE
  /\ open = {Socket}
  /\ wire = <<>>
  /\ peerOpen = TRUE
  /\ partial = <<>>
  /\ fdQueue = <<>>
  /\ received = <<>>

----------------------------------------------------------------------------
(* Both threads: sendEvent.                                                *)

Waiting == Len(outFds) + Len(pendingOutFds)

\* The header, the body and the descriptor of one event.
Marshal(size, fd) ==
  LET n == Len(sent) + 1 IN
  /\ n <= MaxEvents
  /\ sent' = Append(sent, [size |-> size, fd |-> fd])
  /\ out' = out \o UnitsOf(n, size)
  /\ outFds' = IF fd THEN Append(outFds, n) ELSE outFds
  /\ open' = IF fd THEN open \cup {n} ELSE open

SendEvent(size, fd) ==
  /\ alive
  /\ fd /\ "fewFds" \in environment => Waiting < MaxFds
  /\ Marshal(size, fd)
  /\ UNCHANGED <<environment, pendingOutFds, alive, listed, wire, peerOpen, client>>

\* sendError: one last event, then kill.
SendError ==
  /\ alive
  /\ Marshal(1, FALSE)
  /\ alive' = FALSE
  /\ UNCHANGED <<environment, pendingOutFds, listed, wire, peerOpen, client>>

----------------------------------------------------------------------------
(* The event loop: flushClient, kill on a closed peer, reapClosed.         *)

Room == Capacity - Len(wire)

\* The descriptors a flush attaches: those of a send that was refused,
\* otherwise all that wait.
Attached == IF pendingOutFds = <<>> THEN outFds ELSE pendingOutFds
NotAttached == IF pendingOutFds = <<>> THEN <<>> ELSE outFds

\* Wrong variant: every slot of the control message is sent, used or not.
TransmitAllSlots(n, fds) ==
  wire \o [k \in 1..n |->
             [unit |-> out[k],
              fds |-> IF k = 1
                      THEN [i \in 1..MaxFds |-> IF i <= Len(fds) THEN fds[i] ELSE NoFd]
                      ELSE <<>>]]

\* sendmsg takes n units, the descriptors riding on the first.
Transmit(n, fds) ==
  wire \o [k \in 1..n |->
             [unit |-> out[k],
              fds |-> IF k = 1 THEN SubSeq(fds, 1, Min({MaxFds, Len(fds)}))
                      ELSE <<>>]]

Flushing == alive /\ out # <<>>

\* Wrong variant: the bytes that were not sent are dropped.
FlushSentWholly ==
  /\ Flushing
  /\ peerOpen
  /\ \E n \in 1..Min({Room, Len(out)}) :
       /\ wire' = Transmit(n, Attached)
       /\ out' = <<>>
  /\ pendingOutFds' = <<>>
  /\ outFds' = NotAttached
  /\ open' = open \ ToSet(Attached)
  /\ UNCHANGED <<environment, sent, alive, listed, peerOpen, client>>

\* Wrong variant: sent descriptors stay pending and go out again.
FlushSentKeepingFds ==
  /\ Flushing
  /\ peerOpen
  /\ \E n \in 1..Min({Room, Len(out)}) :
       /\ wire' = Transmit(n, Attached)
       /\ out' = SubSeq(out, n + 1, Len(out))
  /\ pendingOutFds' = Attached
  /\ outFds' = NotAttached
  /\ open' = open \ ToSet(Attached)
  /\ UNCHANGED <<environment, sent, alive, listed, peerOpen, client>>

FlushSent ==
  /\ Flushing
  /\ peerOpen
  /\ \E n \in 1..Min({Room, Len(out)}) :
       /\ wire' = Transmit(n, Attached)
       /\ out' = SubSeq(out, n + 1, Len(out))
  /\ pendingOutFds' = <<>>
  /\ outFds' = NotAttached
  /\ open' = open \ ToSet(Attached)
  /\ UNCHANGED <<environment, sent, alive, listed, peerOpen, client>>

\* Wrong variant: a send that failed is taken for one that succeeded.
FlushRefusedClosing ==
  /\ Flushing
  /\ \/ Room = 0 /\ "roomy" \notin environment
     \/ ~peerOpen
  /\ pendingOutFds' = <<>>
  /\ outFds' = NotAttached
  /\ open' = open \ ToSet(Attached)
  /\ UNCHANGED <<environment, sent, out, alive, listed, wire, peerOpen, client>>

\* sendmsg fails: the socket is full, or the client has gone.
FlushRefused ==
  /\ Flushing
  /\ \/ Room = 0 /\ "roomy" \notin environment
     \/ ~peerOpen
  /\ pendingOutFds' = Attached
  /\ outFds' = NotAttached
  /\ UNCHANGED <<environment, sent, out, alive, listed, open, wire, peerOpen, client>>

\* recvAll finds the stream ended.
HangUp ==
  /\ alive
  /\ ~peerOpen
  /\ alive' = FALSE
  /\ UNCHANGED <<environment, sent, queues, listed, open, wire, peerOpen, client>>

\* Wrong variant: the destructor forgets the descriptors of a refused send.
ReapQueuedOnly ==
  /\ listed
  /\ ~alive
  /\ listed' = FALSE
  /\ open' = open \ ToSet(outFds)
  /\ out' = <<>> /\ outFds' = <<>> /\ pendingOutFds' = <<>>
  /\ UNCHANGED <<environment, sent, alive, wire, peerOpen, client>>

\* reapClosed drops a killed connection; its destructor closes what waits
\* to be sent.
Reap ==
  /\ listed
  /\ ~alive
  /\ listed' = FALSE
  /\ open' = open \ (ToSet(outFds) \cup ToSet(pendingOutFds))
  /\ out' = <<>> /\ outFds' = <<>> /\ pendingOutFds' = <<>>
  /\ UNCHANGED <<environment, sent, alive, wire, peerOpen, client>>

----------------------------------------------------------------------------
(* The client.                                                             *)

\* It reads one unit and the descriptors on it; an event is decoded with
\* its last unit and takes the oldest descriptor if it has one.
Read ==
  LET u == Head(wire)
      units == Append(partial, u.unit)
      fds == fdQueue \o u.fds
      event == sent[units[1].event]
      whole == Len(units) = event.size
  IN
  /\ peerOpen
  /\ wire # <<>>
  /\ wire' = Tail(wire)
  /\ IF whole
     THEN /\ partial' = <<>>
          /\ received' = Append(received,
               [units |-> units,
                fd |-> IF event.fd /\ fds # <<>> THEN Head(fds) ELSE NoFd])
          /\ fdQueue' = IF event.fd /\ fds # <<>> THEN Tail(fds) ELSE fds
     ELSE /\ partial' = units
          /\ fdQueue' = fds
          /\ UNCHANGED received
  /\ UNCHANGED <<environment, sent, queues, alive, listed, open, peerOpen>>

CloseClient ==
  /\ peerOpen
  /\ peerOpen' = FALSE
  /\ UNCHANGED <<environment, sent, queues, alive, listed, open, wire, client>>

----------------------------------------------------------------------------
Next ==
  \/ \E size \in 1..MaxUnits, fd \in BOOLEAN : SendEvent(size, fd)
  \/ SendError
  \/ FlushSent
  \/ FlushRefused
  \/ HangUp
  \/ Reap
  \/ Read
  \/ CloseClient

Spec == Init /\ [][Next]_vars

\* The loop flushes and reaps on every poll tick, 16 ms at most; the client
\* reads its socket.
Fairness ==
  /\ WF_vars(FlushSent \/ FlushRefused)
  /\ WF_vars(HangUp)
  /\ WF_vars(Reap)
  /\ WF_vars(Read)

FairSpec == Spec /\ Fairness

----------------------------------------------------------------------------
(* Properties.                                                             *)

\* Every variable holds a value of its type.
TypeOK ==
  /\ environment \subseteq Environments
  /\ sent \in Seq(Event)
  /\ out \in Seq(Unit)
  /\ outFds \in Seq(Numbers)
  /\ pendingOutFds \in Seq(Numbers)
  /\ alive \in BOOLEAN
  /\ listed \in BOOLEAN
  /\ open \subseteq Numbers \cup {Socket}
  /\ wire \in Seq(Carried)
  /\ peerOpen \in BOOLEAN
  /\ partial \in Seq(Unit)
  /\ fdQueue \in Seq(Numbers)
  /\ received \in Seq([units : Seq(Unit), fd : Numbers \cup {NoFd}])

\* The descriptors that wait are the open ones, each queued once: none is
\* sent or closed twice, none is forgotten when the connection goes.
FdsHeldOnce ==
  /\ open \ {Socket} = ToSet(outFds) \cup ToSet(pendingOutFds)
  /\ IsInjective(pendingOutFds \o outFds)

OnWire(n) == \E k \in DOMAIN wire : n \in ToSet(wire[k].fds)
Taken(n) == n \in ToSet(fdQueue) \/ \E k \in DOMAIN received : received[k].fd = n

\* A descriptor is closed only once the socket has it, while the
\* connection lives.
ClosedOnlyWhenSent ==
  alive /\ "fewFds" \in environment => \A n \in DOMAIN sent :
             sent[n].fd /\ n \notin open => OnWire(n) \/ Taken(n)

----------------------------------------------------------------------------
(* Both implement Channel: the bytes always, the events with their         *)
(* descriptors when nothing is refused and few descriptors wait; of other  *)
(* runs the second says nothing.                                           *)

Bytes == INSTANCE Channel WITH
  Messages <- {UnitsOf(n, size) : n \in Numbers, size \in 1..MaxUnits},
  open <- alive,
  sent <- [n \in DOMAIN sent |-> UnitsOf(n, sent[n].size)],
  delivered <- [k \in DOMAIN received |-> received[k].units]

EasyRun == environment = Environments

WithFds == INSTANCE Channel WITH
  Messages <- [units : {UnitsOf(n, size) : n \in Numbers, size \in 1..MaxUnits},
               fd : Numbers \cup {NoFd}],
  open <- EasyRun => alive,
  sent <- IF EasyRun
          THEN [n \in DOMAIN sent |->
                  [units |-> UnitsOf(n, sent[n].size),
                   fd |-> IF sent[n].fd THEN n ELSE NoFd]]
          ELSE <<>>,
  delivered <- IF EasyRun THEN received ELSE <<>>

\* Events arrive whole, in order, and eventually, whatever the socket does.
DeliversBytes == Bytes!Spec

\* Each brings its own descriptor.
DeliversWithFds == WithFds!Spec
=============================================================================
