------------------------------ MODULE Incoming ------------------------------
(***************************************************************************)
(* The way in of one connection: the client's library sends its requests   *)
(* in chunks, recvAll takes bytes and descriptors off the socket,          *)
(* processIncoming dispatches each request once its bytes are complete and *)
(* handlers take descriptors in the order they came.                       *)
(*                                                                         *)
(* All of it is the event loop's; the client sends between any two of its  *)
(* steps. A byte is a unit of some request.                                *)
(***************************************************************************)
EXTENDS Naturals, FiniteSets, SequencesExt

CONSTANTS
  MaxRequests,   \* bound: requests sent on the connection
  MaxUnits,      \* bound: units of a request
  BufferSize,    \* units one recvmsg takes: 16384 in the code
  MaxIncoming,   \* units a client may have waiting: 4 MiB in the code
  MaxFds,        \* descriptors one recvmsg takes: 16 in the code
  ClientFds      \* descriptors the client's library sends at once: 28

ASSUME BoundsAssumption ==
  /\ MaxRequests \in Nat
  /\ {MaxUnits, BufferSize, MaxIncoming, MaxFds, ClientFds} \subseteq Nat \ {0}

VARIABLES
  environment,  \* what holds of the whole run, a subset of Environments
  requests,     \* the requests made so far
  clientOut,    \* client: units not yet sent
  clientFds,    \* client: descriptors not yet sent
  peerOpen,     \* client: it has not closed its end
  wire,         \* the socket: units in chunks, and the descriptors riding on them
  pc,           \* what the event loop does with this connection
  in,           \* in_: units not yet dispatched
  inFds,        \* inFds_: descriptors received by this recvAll
  msgFds,       \* msgFds_: descriptors no handler took yet
  alive,        \* alive_
  listed,       \* the connection is in connections_
  open,         \* received descriptors open in this process
  handled       \* the requests their handlers accepted

(***************************************************************************)
(* shortReads  less than a buffer is ever in the socket                    *)
(* fewFds      the client sends no more than MaxFds descriptors at once    *)
(***************************************************************************)
Environments == {"shortReads", "fewFds"}

clientSide == <<clientOut, clientFds, peerOpen>>
received == <<in, inFds, msgFds>>
vars == <<environment, requests, clientSide, wire, pc, received, alive, listed,
          open, handled>>

----------------------------------------------------------------------------
(* A descriptor is named by the request it belongs to.                     *)

NoFd == 0

Numbers == 1..MaxRequests
Unit == [request : Numbers, part : 1..MaxUnits]
Carried == [unit : Unit, fds : Seq(Numbers), end : BOOLEAN]

\* fd: the request carries a descriptor; ok: its object and handler accept it.
Request == [size : 1..MaxUnits, fd : BOOLEAN, ok : BOOLEAN]

UnitsOf(n, size) == [k \in 1..size |-> [request |-> n, part |-> k]]

\* A chunk's descriptors ride on its first unit; its last unit ends it.
ChunkOf(units, fds) ==
  [k \in DOMAIN units |-> [unit |-> units[k],
                           fds |-> IF k = 1 THEN fds ELSE <<>>,
                           end |-> k = Len(units)]]

Init ==
  /\ environment \in SUBSET Environments
  /\ requests = <<>>
  /\ clientOut = <<>> /\ clientFds = <<>> /\ peerOpen = TRUE
  /\ wire = <<>>
  /\ pc = "poll"
  /\ in = <<>> /\ inFds = <<>> /\ msgFds = <<>>
  /\ alive = TRUE
  /\ listed = TRUE
  /\ open = {}
  /\ handled = <<>>

----------------------------------------------------------------------------
(* The client. What it sends to a connection already killed nobody reads.  *)

\* Inputs: a request that will be refused is of one unit.
Asked == {r \in Request : ~r.ok => r.size = 1}

MakeRequest(r) ==
  LET n == Len(requests) + 1 IN
  /\ alive /\ peerOpen
  /\ n <= MaxRequests
  /\ r.fd => Len(clientFds) < ClientFds
  /\ r.fd /\ "fewFds" \in environment => Len(clientFds) < MaxFds
  /\ requests' = Append(requests, r)
  /\ clientOut' = clientOut \o UnitsOf(n, r.size)
  /\ clientFds' = IF r.fd THEN Append(clientFds, n) ELSE clientFds
  /\ UNCHANGED <<environment, peerOpen, wire, pc, received, alive, listed,
                 open, handled>>

\* Some of its bytes leave, and with them all its descriptors.
SendChunk(n) ==
  /\ alive /\ peerOpen
  /\ n \in 1..Len(clientOut)
  /\ "shortReads" \in environment => Len(wire) + n < BufferSize
  /\ wire' = wire \o ChunkOf(SubSeq(clientOut, 1, n), clientFds)
  /\ clientOut' = SubSeq(clientOut, n + 1, Len(clientOut))
  /\ clientFds' = <<>>
  /\ UNCHANGED <<environment, requests, peerOpen, pc, received, alive, listed,
                 open, handled>>

CloseClient ==
  /\ alive /\ peerOpen
  /\ peerOpen' = FALSE
  /\ UNCHANGED <<environment, requests, clientOut, clientFds, wire, pc, received, alive,
                 listed, open, handled>>

----------------------------------------------------------------------------
(* recvmsg takes units until the buffer is full, the socket is empty or a  *)
(* chunk ends that came with descriptors.                                  *)

Stops == {k \in DOMAIN wire :
            wire[k].end /\ \E j \in 1..k : wire[j].fds # <<>>}

Taken == Min({BufferSize, Len(wire)} \cup Stops)
TakenUnits == [k \in 1..Taken |-> wire[k].unit]
LeftWire == SubSeq(wire, Taken + 1, Len(wire))

\* The descriptors that ride on what it takes: one unit at most has any.
Riding == LET on == {j \in 1..Taken : wire[j].fds # <<>>}
          IN  IF on = {} THEN <<>> ELSE wire[Min(on)].fds

\* Wrong variant: the control buffer is read to its end.
TakenAllSlots ==
  [k \in 1..MaxFds |-> IF k <= Len(Riding) THEN Riding[k] ELSE NoFd]

\* Those that do not fit the control buffer are closed by the kernel.
TakenFds == SubSeq(Riding, 1, Min({MaxFds, Len(Riding)}))

----------------------------------------------------------------------------
(* The event loop: handleClientIo.                                         *)

Reading == alive /\ pc \in {"poll", "reading"}

\* recvAll, one recvmsg that brings bytes.
Receive ==
  LET full == Taken = BufferSize
      tooMany == Len(in') > MaxIncoming
  IN
  /\ Reading
  /\ wire # <<>>
  /\ in' = in \o TakenUnits
  /\ inFds' = inFds \o TakenFds
  /\ open' = open \cup ToSet(TakenFds)
  /\ wire' = LeftWire
  /\ alive' = ~tooMany
  /\ pc' = IF tooMany THEN "poll" ELSE IF full THEN "reading" ELSE "dispatching"
  /\ UNCHANGED <<environment, requests, clientSide, msgFds, listed, handled>>

\* recvAll after a full buffer, the socket empty.
ReceiveNothing ==
  /\ Reading
  /\ pc = "reading"
  /\ wire = <<>>
  /\ peerOpen
  /\ pc' = "dispatching"
  /\ UNCHANGED <<environment, requests, clientSide, wire, received, alive,
                 listed, open, handled>>

\* recvAll finds the stream ended: killed, whatever was read before.
ReceiveEnd ==
  /\ Reading
  /\ wire = <<>>
  /\ ~peerOpen
  /\ alive' = FALSE
  /\ pc' = "poll"
  /\ UNCHANGED <<environment, requests, clientSide, wire, received, listed,
                 open, handled>>

\* Wrong variant: new descriptors go before those left over.
QueuedSwapped == inFds \o msgFds

\* Wrong variant: descriptors left from earlier reads are dropped.
QueuedAfresh == IF inFds = <<>> THEN msgFds ELSE inFds

\* processIncoming works on the descriptors of this recvAll behind those
\* left from earlier ones.
Queued == msgFds \o inFds

First == requests[in[1].request]
Complete == in # <<>> /\ Len(in) >= First.size

\* takeFd.
FrontFd == IF Queued = <<>> THEN NoFd ELSE Head(Queued)
BehindFront == IF Queued = <<>> THEN <<>> ELSE Tail(Queued)

\* Wrong variant: a request is taken for complete when its header is.
DispatchEarly ==
  /\ alive
  /\ pc = "dispatching"
  /\ in # <<>>
  /\ First.ok /\ (First.fd => Queued # <<>>)
  /\ inFds' = <<>>
  /\ handled' = Append(handled,
       [units |-> SubSeq(in, 1, Min({First.size, Len(in)})),
        fd |-> IF First.fd THEN FrontFd ELSE NoFd])
  /\ in' = SubSeq(in, First.size + 1, Len(in))
  /\ msgFds' = IF First.fd THEN BehindFront ELSE Queued
  /\ UNCHANGED <<environment, requests, clientSide, wire, pc, alive, listed,
                 open>>

\* processIncoming hands a complete request to its handler, which takes a
\* descriptor if the request has one.
Dispatch ==
  /\ alive
  /\ pc = "dispatching"
  /\ Complete
  /\ First.ok /\ (First.fd => Queued # <<>>)
  /\ inFds' = <<>>
  /\ handled' = Append(handled,
       [units |-> SubSeq(in, 1, First.size),
        fd |-> IF First.fd THEN FrontFd ELSE NoFd])
  /\ in' = SubSeq(in, First.size + 1, Len(in))
  /\ msgFds' = IF First.fd THEN BehindFront ELSE Queued
  /\ UNCHANGED <<environment, requests, clientSide, wire, pc, alive, listed,
                 open>>

\* An unknown object, a handler that refuses, or one that misses its
\* descriptor: the error is queued and the connection killed.
DispatchRefused ==
  /\ alive
  /\ pc = "dispatching"
  /\ Complete
  /\ ~First.ok \/ (First.fd /\ Queued = <<>>)
  /\ alive' = FALSE
  /\ pc' = "poll"
  /\ inFds' = <<>>
  /\ msgFds' = IF First.fd THEN BehindFront ELSE Queued
  /\ open' = IF First.fd THEN open \ {FrontFd} ELSE open
  /\ UNCHANGED <<environment, requests, clientSide, wire, in, listed, handled>>

\* What is left waits for more bytes.
DispatchEnd ==
  /\ alive
  /\ pc = "dispatching"
  /\ ~Complete
  /\ pc' = "poll"
  /\ inFds' = <<>>
  /\ msgFds' = Queued
  /\ UNCHANGED <<environment, requests, clientSide, wire, in, alive, listed,
                 open, handled>>

\* Wrong variant: the destructor closes no received descriptor.
ReapKeepingFds ==
  /\ listed /\ ~alive
  /\ listed' = FALSE
  /\ msgFds' = <<>>
  /\ in' = <<>> /\ inFds' = <<>>
  /\ UNCHANGED <<environment, requests, clientSide, wire, pc, alive, open,
                 handled>>

\* ~Connection closes msgFds_, and not inFds_, which is empty by then.
Destruct ==
  /\ open' = open \ ToSet(msgFds)
  /\ inFds' = <<>> /\ msgFds' = <<>>

\* reapClosed.
Reap ==
  /\ listed /\ ~alive
  /\ listed' = FALSE
  /\ Destruct
  /\ UNCHANGED <<environment, requests, clientSide, wire, pc, in, alive,
                 handled>>

----------------------------------------------------------------------------
Next ==
  \/ \E r \in Asked : MakeRequest(r)
  \/ \E n \in 1..(MaxRequests * MaxUnits) : SendChunk(n)
  \/ CloseClient
  \/ Receive
  \/ ReceiveNothing
  \/ ReceiveEnd
  \/ Dispatch
  \/ DispatchRefused
  \/ DispatchEnd
  \/ Reap

Spec == Init /\ [][Next]_vars

\* The loop polls all the time; a client flushes what it asks.
Fairness ==
  /\ WF_vars(\E n \in 1..(MaxRequests * MaxUnits) : SendChunk(n))
  /\ WF_vars(Receive \/ ReceiveNothing \/ ReceiveEnd)
  /\ WF_vars(Dispatch \/ DispatchRefused \/ DispatchEnd)

FairSpec == Spec /\ Fairness

----------------------------------------------------------------------------
(* Properties.                                                             *)

\* Every variable holds a value of its type.
TypeOK ==
  /\ environment \subseteq Environments
  /\ requests \in Seq(Request)
  /\ clientOut \in Seq(Unit)
  /\ clientFds \in Seq(Numbers)
  /\ peerOpen \in BOOLEAN
  /\ wire \in Seq(Carried)
  /\ pc \in {"poll", "reading", "dispatching"}
  /\ in \in Seq(Unit)
  /\ inFds \in Seq(Numbers)
  /\ msgFds \in Seq(Numbers)
  /\ alive \in BOOLEAN
  /\ listed \in BOOLEAN
  /\ open \subseteq Numbers
  /\ handled \in Seq([units : Seq(Unit), fd : Numbers \cup {NoFd}])

Kept == {handled[k].fd : k \in DOMAIN handled} \ {NoFd}

\* A received descriptor is open while it is queued or a handler keeps it,
\* and one of the two: none is used by two requests, and none outlives the
\* connection unless its bytes filled a read just before the end.
FdsAccounted ==
  /\ listed \/ "shortReads" \in environment =>
       open = ToSet(Queued) \cup Kept
  /\ IsInjective(Queued)
  /\ ToSet(Queued) \cap Kept = {}

\* A client whose requests are all acceptable and that neither leaves nor
\* floods is not killed.
KilledForCause ==
  ~alive /\ "fewFds" \in environment =>
    \/ ~peerOpen
    \/ Len(in) > MaxIncoming
    \/ \E k \in DOMAIN requests : ~requests[k].ok

----------------------------------------------------------------------------
(* Both implement Channel: requests are dispatched whole, in order and     *)
(* once each; with their descriptors when the control buffer holds what    *)
(* the client sends at once, and of other runs the second says nothing.    *)

Bytes == INSTANCE Channel WITH
  Messages <- {UnitsOf(n, size) : n \in Numbers, size \in 1..MaxUnits},
  open <- alive,
  sent <- [n \in DOMAIN requests |-> UnitsOf(n, requests[n].size)],
  delivered <- [k \in DOMAIN handled |-> handled[k].units]

EasyRun == "fewFds" \in environment

WithFds == INSTANCE Channel WITH
  Messages <- [units : {UnitsOf(n, size) : n \in Numbers, size \in 1..MaxUnits},
               fd : Numbers \cup {NoFd}],
  open <- EasyRun => alive,
  sent <- IF EasyRun
          THEN [n \in DOMAIN requests |->
                  [units |-> UnitsOf(n, requests[n].size),
                   fd |-> IF requests[n].fd THEN n ELSE NoFd]]
          ELSE <<>>,
  delivered <- IF EasyRun THEN handled ELSE <<>>

\* Requests are dispatched whole, in order and eventually.
DispatchesBytes == Bytes!Spec

\* Each with its own descriptor.
DispatchesWithFds == WithFds!Spec
=============================================================================
