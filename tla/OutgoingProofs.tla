--------------------------- MODULE OutgoingProofs ---------------------------
(***************************************************************************)
(* What becomes of the bytes and the descriptors of a connection's events, *)
(* for any number and size of events, any socket and any bound on the      *)
(* descriptors of one send.                                                *)
(***************************************************************************)
EXTENDS Outgoing, TLAPS

USE BoundsAssumption DEF Socket, NoFd

----------------------------------------------------------------------------
(* The inductive invariant.                                                *)

\* A descriptor that was opened belongs to an event that was sent, so the
\* next event's is new.
OpenAreSent == \A n \in open : n <= Len(sent)

\* In a run of few descriptors those that wait fit one send.
WaitingFit == "fewFds" \in environment => Waiting <= MaxFds

(***************************************************************************)
(* Bytes. The units on their way to the client, on the wire and behind     *)
(* them in the buffer, go on where the client has stopped reading; each is *)
(* followed by the next of its event or the first of the next event, up to *)
(* the last unit sent unless the connection has been dropped.              *)
(***************************************************************************)
FlowLen == Len(wire) + Len(out)
Flow(k) == IF k <= Len(wire) THEN wire[k].unit ELSE out[k - Len(wire)]

FirstOf(n) == [event |-> n, part |-> 1]
After(u) == IF u.part < sent[u.event].size
            THEN [event |-> u.event, part |-> u.part + 1]
            ELSE FirstOf(u.event + 1)

\* The event the client decodes next, and the unit it reads next.
Decoding == Len(received) + 1
Expected == [event |-> Decoding, part |-> Len(partial) + 1]
AfterFlow(k) == IF k = 0 THEN Expected ELSE After(Flow(k))

InOrder ==
  /\ \A k \in 1..FlowLen :
       /\ Flow(k) = AfterFlow(k - 1)
       /\ Flow(k).event \in DOMAIN sent
       /\ Flow(k).part <= sent[Flow(k).event].size
  /\ \A k \in 0..FlowLen :
       listed /\ k = FlowLen => AfterFlow(k) = FirstOf(Len(sent) + 1)

\* The client has read the beginning of one event.
PartialIsBeginning ==
  /\ \A k \in DOMAIN partial : partial[k] = [event |-> Decoding, part |-> k]
  /\ partial # <<>> => Decoding \in DOMAIN sent /\ Len(partial) < sent[Decoding].size
  /\ Len(received) <= Len(sent)

AliveIsListed == alive => listed

(***************************************************************************)
(* Descriptors, while the client reads in time and few wait: they are      *)
(* those of events not decoded, in order on all of the way, and none is    *)
(* behind the first unit of its event.                                     *)
(***************************************************************************)
Increasing(s) == \A i, j \in DOMAIN s : i < j => s[i] < s[j]
Below(A, B) == \A x \in A, y \in B : x < y

WireFds(k) == ToSet(wire[k].fds)
AllWireFds == UNION {WireFds(k) : k \in DOMAIN wire}

FdsInOrder ==
  /\ Increasing(fdQueue) /\ Increasing(outFds)
  /\ \A k \in DOMAIN wire : Increasing(wire[k].fds)
  /\ \A k, l \in DOMAIN wire : k < l => Below(WireFds(k), WireFds(l))
  /\ Below(ToSet(fdQueue), AllWireFds) /\ Below(ToSet(fdQueue), ToSet(outFds))
  /\ Below(AllWireFds, ToSet(outFds))

OwnFds ==
  \A n \in ToSet(fdQueue) \cup AllWireFds \cup ToSet(outFds) :
    n \in DOMAIN sent /\ n > Len(received) /\ sent[n].fd

NoUnitBefore(n, k) == \A j \in DOMAIN wire : j < k => wire[j].unit.event # n

FdAhead(n) ==
  \/ n \in ToSet(fdQueue)
  \/ \E k \in DOMAIN wire : n \in WireFds(k) /\ NoUnitBefore(n, k)
  \/ (n \in ToSet(outFds) \/ ~listed) /\ NoUnitBefore(n, Len(wire) + 1)

Easy == EasyRun /\ peerOpen

FdsFit ==
  /\ pendingOutFds = <<>>
  /\ FdsInOrder
  /\ OwnFds
  /\ \A n \in DOMAIN sent : n > Len(received) /\ sent[n].fd => FdAhead(n)

FdsInv == Easy => FdsFit

IInv ==
  /\ TypeOK
  /\ OpenAreSent
  /\ FdsHeldOnce
  /\ WaitingFit
  /\ ClosedOnlyWhenSent
  /\ AliveIsListed
  /\ InOrder
  /\ PartialIsBeginning
  /\ FdsInv

----------------------------------------------------------------------------
(* Facts about minima and sequences.                                       *)

LEMMA MinOfTwo ==
  ASSUME NEW a \in Int, NEW b \in Int
  PROVE  /\ Min({a, b}) \in {a, b}
         /\ Min({a, b}) <= a /\ Min({a, b}) <= b
<1>1. \E x \in {a, b} : \A y \in {a, b} : x <= y
  OBVIOUS
<1> QED BY <1>1 DEF Min

LEMMA ConcatSets ==
  ASSUME NEW S, NEW p \in Seq(S), NEW q \in Seq(S)
  PROVE  /\ p \o q \in Seq(S)
         /\ ToSet(p \o q) = ToSet(p) \cup ToSet(q)
<1>1. /\ p \o q \in Seq(S)
      /\ Len(p \o q) = Len(p) + Len(q)
      /\ \A i \in 1..Len(p) : (p \o q)[i] = p[i]
      /\ \A i \in 1..Len(q) : (p \o q)[Len(p) + i] = q[i]
      /\ DOMAIN (p \o q) = 1..Len(p \o q)
  OBVIOUS
<1>2. ASSUME NEW x \in ToSet(p \o q) PROVE x \in ToSet(p) \cup ToSet(q)
  <2>1. PICK i \in 1..Len(p \o q) : x = (p \o q)[i]
    BY <1>1 DEF ToSet
  <2>2. CASE i <= Len(p)
    BY <1>1, <2>1, <2>2 DEF ToSet
  <2>3. CASE i > Len(p)
    <3>1. i - Len(p) \in 1..Len(q) /\ i = Len(p) + (i - Len(p))
      BY <1>1, <2>1, <2>3
    <3>2. x = q[i - Len(p)]
      BY <1>1, <2>1, <3>1
    <3> QED BY <3>1, <3>2 DEF ToSet
  <2> QED BY <1>1, <2>1, <2>2, <2>3
<1>3. ASSUME NEW x \in ToSet(p) PROVE x \in ToSet(p \o q)
  <2>1. PICK i \in 1..Len(p) : x = p[i]
    BY DEF ToSet
  <2>2. i \in 1..Len(p \o q) /\ x = (p \o q)[i]
    BY <1>1, <2>1
  <2> QED BY <1>1, <2>2 DEF ToSet
<1>4. ASSUME NEW x \in ToSet(q) PROVE x \in ToSet(p \o q)
  <2>1. PICK i \in 1..Len(q) : x = q[i]
    BY DEF ToSet
  <2>2. Len(p) + i \in 1..Len(p \o q) /\ x = (p \o q)[Len(p) + i]
    BY <1>1, <2>1
  <2> QED BY <1>1, <2>2 DEF ToSet
<1> QED BY <1>1, <1>2, <1>3, <1>4

LEMMA AppendSets ==
  ASSUME NEW S, NEW q \in Seq(S), NEW n \in S
  PROVE  /\ Append(q, n) \in Seq(S)
         /\ ToSet(Append(q, n)) = ToSet(q) \cup {n}
<1> DEFINE e == <<n>>
<1>1. /\ e \in Seq(S) /\ ToSet(e) = {n}
      /\ Append(q, n) = q \o e
  BY DEF ToSet
<1> HIDE DEF e
<1>2. q \o e \in Seq(S) /\ ToSet(q \o e) = ToSet(q) \cup ToSet(e)
  BY <1>1, ConcatSets
<1> QED BY <1>1, <1>2, Zenon

LEMMA TailSets ==
  ASSUME NEW S, NEW q \in Seq(S), q # <<>>
  PROVE  /\ Head(q) \in S /\ Tail(q) \in Seq(S)
         /\ ToSet(q) = {Head(q)} \cup ToSet(Tail(q))
<1>1. /\ Head(q) \in S /\ Tail(q) \in Seq(S) /\ <<Head(q)>> \in Seq(S)
      /\ ToSet(<<Head(q)>>) = {Head(q)}
  BY DEF ToSet
<1>2. q = <<Head(q)>> \o Tail(q)
  OBVIOUS
<1>3. PICK e : e = <<Head(q)>>
  OBVIOUS
<1>4. PICK t : t = Tail(q)
  OBVIOUS
<1>5. e \in Seq(S) /\ t \in Seq(S) /\ ToSet(e) = {Head(q)} /\ q = e \o t
  BY <1>1, <1>2, <1>3, <1>4
<1>6. ToSet(q) = ToSet(e) \cup ToSet(t)
  BY <1>5, ConcatSets
<1> QED BY <1>1, <1>4, <1>5, <1>6, Zenon

LEMMA EmptySet == ToSet(<<>>) = {}
BY DEF ToSet

\* Appending an element that is in neither of two queues keeps the pair
\* without repetition.
LEMMA InjectiveAppend ==
  ASSUME NEW S, NEW q \in Seq(S), IsInjective(q), NEW n \in S, n \notin ToSet(q)
  PROVE  IsInjective(Append(q, n))
<1>1. /\ DOMAIN Append(q, n) = 1..(Len(q) + 1)
      /\ \A i \in 1..Len(q) : Append(q, n)[i] = q[i]
      /\ Append(q, n)[Len(q) + 1] = n
  OBVIOUS
<1>2. \A i \in 1..Len(q) : q[i] # n
  BY DEF ToSet
<1>3. \A i, j \in 1..Len(q) : q[i] = q[j] => i = j
  BY DEF IsInjective
<1>4. ASSUME NEW i \in 1..(Len(q) + 1), NEW j \in 1..(Len(q) + 1),
             Append(q, n)[i] = Append(q, n)[j]
      PROVE  i = j
  BY <1>1, <1>2, <1>3, <1>4
<1> QED BY <1>1, <1>4 DEF IsInjective

\* The parts of a queue without repetition have none and share nothing.
LEMMA InjectiveParts ==
  ASSUME NEW S, NEW p \in Seq(S), NEW q \in Seq(S), IsInjective(p \o q)
  PROVE  IsInjective(q) /\ ToSet(p) \cap ToSet(q) = {}
<1>1. /\ DOMAIN (p \o q) = 1..(Len(p) + Len(q))
      /\ \A i \in 1..Len(p) : (p \o q)[i] = p[i]
      /\ \A i \in 1..Len(q) : (p \o q)[Len(p) + i] = q[i]
  OBVIOUS
<1>2. \A i, j \in 1..(Len(p) + Len(q)) : (p \o q)[i] = (p \o q)[j] => i = j
  BY <1>1 DEF IsInjective
<1>3. ASSUME NEW i \in 1..Len(q), NEW j \in 1..Len(q), q[i] = q[j] PROVE i = j
  <2> Len(p) + i \in 1..(Len(p) + Len(q)) /\ Len(p) + j \in 1..(Len(p) + Len(q))
    OBVIOUS
  <2>1. Len(p) + i = Len(p) + j
    BY <1>1, <1>2, <1>3
  <2> QED BY <2>1
<1>4. ASSUME NEW i \in 1..Len(p), NEW j \in 1..Len(q) PROVE p[i] # q[j]
  <2>1. i # Len(p) + j /\ i \in 1..(Len(p) + Len(q))
        /\ Len(p) + j \in 1..(Len(p) + Len(q))
    OBVIOUS
  <2> QED BY <1>1, <1>2, <2>1
<1> QED BY <1>3, <1>4 DEF IsInjective, ToSet
----------------------------------------------------------------------------
(* Types.                                                                  *)

LEMMA MarshalType ==
  ASSUME TypeOK, NEW size \in 1..MaxUnits, NEW fd \in BOOLEAN, Marshal(size, fd)
  PROVE  /\ sent' \in Seq(Event) /\ out' \in Seq(Unit)
         /\ outFds' \in Seq(Numbers) /\ open' \subseteq Numbers \cup {Socket}
         /\ Len(sent) + 1 \in Numbers /\ Len(sent') = Len(sent) + 1
         /\ \A k \in DOMAIN sent : sent'[k] = sent[k]
         /\ sent'[Len(sent) + 1].fd = fd
<1> DEFINE n == Len(sent) + 1
           event == [size |-> size, fd |-> fd]
           units == UnitsOf(n, size)
<1>1. n \in Numbers
  BY DEF TypeOK, Marshal, Numbers
<1>2. event \in Event /\ event.fd = fd
  BY DEF Event
<1>3. units \in Seq(Unit)
  <2>1. units \in [1..size -> Unit]
    BY <1>1 DEF UnitsOf, Unit
  <2> QED BY <2>1
<1>4. /\ sent' = Append(sent, event)
      /\ out' = out \o units
      /\ outFds' = IF fd THEN Append(outFds, n) ELSE outFds
      /\ open' = IF fd THEN open \cup {n} ELSE open
  BY DEF Marshal
<1> HIDE DEF n, event, units
<1>5. /\ sent' \in Seq(Event) /\ Len(sent') = Len(sent) + 1
      /\ \A k \in DOMAIN sent : sent'[k] = sent[k]
      /\ sent'[Len(sent) + 1] = event
  BY <1>2, <1>4 DEF TypeOK
<1>6. out' \in Seq(Unit)
  BY <1>3, <1>4, ConcatSets DEF TypeOK
<1>7. outFds' \in Seq(Numbers)
  BY <1>1, <1>4 DEF TypeOK
<1>8. open' \subseteq Numbers \cup {Socket}
  BY <1>1, <1>4 DEF TypeOK
<1> QED BY <1>1, <1>2, <1>5, <1>6, <1>7, <1>8 DEF n

LEMMA AttachedType ==
  ASSUME TypeOK
  PROVE  Attached \in Seq(Numbers) /\ NotAttached \in Seq(Numbers)
BY DEF TypeOK, Attached, NotAttached

\* What a send puts into the socket: all it attaches if that fits.
LEMMA TransmitType ==
  ASSUME TypeOK, NEW n \in 1..Len(out), NEW fds \in Seq(Numbers)
  PROVE  /\ Transmit(n, fds) \in Seq(Carried)
         /\ Len(Transmit(n, fds)) = Len(wire) + n
         /\ \A k \in DOMAIN wire : Transmit(n, fds)[k] = wire[k]
         /\ Len(fds) <= MaxFds => Transmit(n, fds)[Len(wire) + 1].fds = fds
<1> DEFINE first == SubSeq(fds, 1, Min({MaxFds, Len(fds)}))
           units == [k \in 1..n |-> [unit |-> out[k],
                                     fds |-> IF k = 1 THEN first ELSE <<>>]]
<1>1. first \in Seq(Numbers) /\ (Len(fds) <= MaxFds => first = fds)
  <2> DEFINE m == Min({MaxFds, Len(fds)})
  <2>1. m \in Nat /\ m <= Len(fds) /\ (Len(fds) <= MaxFds => m = Len(fds))
    <3>1. MaxFds \in Int /\ Len(fds) \in Int /\ Len(fds) \in Nat
      OBVIOUS
    <3>2. m \in {MaxFds, Len(fds)} /\ m <= MaxFds /\ m <= Len(fds)
      BY <3>1, MinOfTwo, Zenon
    <3> HIDE DEF m
    <3> QED BY <3>1, <3>2
  <2> HIDE DEF m
  <2>2. SubSeq(fds, 1, m) \in Seq(Numbers)
    BY <2>1
  <2>3. SubSeq(fds, 1, Len(fds)) = fds
    OBVIOUS
  <2> QED BY <2>1, <2>2, <2>3 DEF m
<1> HIDE DEF first
<1>2. \A k \in 1..n : out[k] \in Unit
  BY DEF TypeOK
<1>3. units \in [1..n -> Carried]
  BY <1>1, <1>2 DEF Carried
<1>4. units \in Seq(Carried) /\ Len(units) = n /\ units[1].fds = first
  BY <1>3
<1>5. Transmit(n, fds) = wire \o units
  BY DEF Transmit, first
<1> HIDE DEF units
<1>6. wire \in Seq(Carried)
  BY DEF TypeOK
<1>7. wire \o units \in Seq(Carried) /\ Len(wire \o units) = Len(wire) + n
  BY <1>4, <1>6
<1>8. \A k \in DOMAIN wire : (wire \o units)[k] = wire[k]
  BY <1>4, <1>6
<1>9. (wire \o units)[Len(wire) + 1] = units[1]
  BY <1>4, <1>6
<1> QED BY <1>1, <1>4, <1>5, <1>7, <1>8, <1>9

\* A flush takes a prefix of the buffer.
LEMMA PrefixLength ==
  ASSUME TypeOK, NEW n \in 1..Min({Room, Len(out)})
  PROVE  n \in 1..Len(out)
<1> DEFINE m == Min({Room, Len(out)})
<1>1. Room \in Int /\ Len(out) \in Int
  BY DEF TypeOK, Room
<1>2. m \in {Room, Len(out)} /\ m <= Len(out)
  BY <1>1, MinOfTwo, Zenon
<1> HIDE DEF m
<1>3. n \in 1..m
  BY DEF m
<1> QED BY <1>1, <1>2, <1>3

LEMMA ReadType ==
  ASSUME TypeOK, Read
  PROVE  TypeOK'
<1> DEFINE u == Head(wire)
           units == Append(partial, u.unit)
           fds == fdQueue \o u.fds
           event == sent[units[1].event]
           taken == IF event.fd /\ fds # <<>> THEN Head(fds) ELSE NoFd
           left == IF event.fd /\ fds # <<>> THEN Tail(fds) ELSE fds
<1>1. u \in Carried /\ Tail(wire) \in Seq(Carried)
  BY DEF TypeOK, Read
<1>2. units \in Seq(Unit)
  BY <1>1 DEF TypeOK, Carried
<1>3. fds \in Seq(Numbers)
  BY <1>1 DEF TypeOK, Carried
<1> HIDE DEF u, units, fds, event
<1>4. taken \in Numbers \cup {NoFd} /\ left \in Seq(Numbers)
  BY <1>3
<1> HIDE DEF taken, left
<1> DEFINE Decoded == [units : Seq(Unit), fd : Numbers \cup {NoFd}]
           decoded == [units |-> units, fd |-> taken]
<1>5. decoded \in Decoded
  BY <1>2, <1>4
<1>6. /\ wire' = Tail(wire)
      /\ \/ /\ partial' = <<>>
            /\ received' = Append(received, decoded)
            /\ fdQueue' = left
         \/ partial' = units /\ fdQueue' = fds /\ received' = received
      /\ UNCHANGED <<environment, sent, queues, alive, listed, open, peerOpen>>
  BY DEF Read, u, units, fds, event, taken, left
<1>7. /\ wire' \in Seq(Carried)
      /\ partial' \in Seq(Unit)
      /\ fdQueue' \in Seq(Numbers)
  <2>1. <<>> \in Seq(Unit)
    OBVIOUS
  <2> HIDE DEF decoded
  <2> QED BY <1>1, <1>2, <1>3, <1>4, <1>6, <2>1
<1>8. received' \in Seq(Decoded)
  <2>1. received \in Seq(Decoded)
    BY DEF TypeOK
  <2> HIDE DEF Decoded, decoded
  <2> QED BY <1>5, <1>6, <2>1
<1> QED BY <1>6, <1>7, <1>8 DEF TypeOK, queues

LEMMA TypeStep == TypeOK /\ [Next]_vars => TypeOK'
<1> SUFFICES ASSUME TypeOK, [Next]_vars PROVE TypeOK'
  OBVIOUS
<1>1. ASSUME NEW size \in 1..MaxUnits, NEW fd \in BOOLEAN, SendEvent(size, fd)
      PROVE  TypeOK'
  BY <1>1, MarshalType DEF SendEvent, TypeOK, client
<1>2. CASE SendError
  <2>1. Marshal(1, FALSE)
    BY <1>2 DEF SendError
  <2>2. 1 \in 1..MaxUnits
    OBVIOUS
  <2> QED BY <1>2, <2>1, <2>2, MarshalType DEF SendError, TypeOK, client
<1>3. CASE FlushSent
  <2>1. PICK n \in 1..Min({Room, Len(out)}) :
          wire' = Transmit(n, Attached) /\ out' = SubSeq(out, n + 1, Len(out))
    BY <1>3 DEF FlushSent
  <2>2. wire' \in Seq(Carried)
    BY <2>1, PrefixLength, AttachedType, TransmitType
  <2>3. out' \in Seq(Unit)
    BY <2>1, PrefixLength DEF TypeOK
  <2> QED BY <1>3, <2>2, <2>3, AttachedType DEF FlushSent, TypeOK, client
<1>4. CASE FlushRefused
  BY <1>4, AttachedType DEF FlushRefused, TypeOK, client
<1>5. CASE HangUp
  BY <1>5 DEF HangUp, TypeOK, queues, client
<1>6. CASE Reap
  <2>1. <<>> \in Seq(Unit) /\ <<>> \in Seq(Numbers)
    OBVIOUS
  <2>2. open' \subseteq Numbers \cup {Socket}
    BY <1>6 DEF Reap, TypeOK
  <2> QED BY <1>6, <2>1, <2>2 DEF Reap, TypeOK, client
<1>7. CASE Read
  BY <1>7, ReadType
<1>8. CASE CloseClient
  BY <1>8 DEF CloseClient, TypeOK, queues, client
<1>9. CASE UNCHANGED vars
  BY <1>9 DEF vars, queues, client, TypeOK
<1> QED BY <1>1, <1>2, <1>3, <1>4, <1>5, <1>6, <1>7, <1>8, <1>9 DEF Next
----------------------------------------------------------------------------
(* The descriptors that wait are the open ones, once each.                 *)

\* What a flush attaches and what it leaves are the queues, in order.
LEMMA FlushSplits ==
  ASSUME TypeOK, FdsHeldOnce
  PROVE  /\ open \ {Socket} = ToSet(Attached) \cup ToSet(NotAttached)
         /\ IsInjective(Attached \o NotAttached)
         /\ ToSet(Attached) \cap ToSet(NotAttached) = {}
         /\ IsInjective(NotAttached)
<1>1. pendingOutFds \in Seq(Numbers) /\ outFds \in Seq(Numbers)
  BY DEF TypeOK
<1>2. CASE pendingOutFds = <<>>
  <2>1. Attached = outFds /\ NotAttached = <<>>
    BY <1>2 DEF Attached, NotAttached
  <2>2. outFds \o <<>> = pendingOutFds \o outFds
    BY <1>1, <1>2
  <2>3. open \ {Socket} = ToSet(Attached) \cup ToSet(NotAttached)
    BY <1>2, <2>1 DEF FdsHeldOnce
  <2>4. IsInjective(Attached \o NotAttached)
    BY <2>1, <2>2 DEF FdsHeldOnce
  <2>5. IsInjective(NotAttached)
    BY <2>1 DEF IsInjective
  <2> QED BY <2>1, <2>3, <2>4, <2>5, EmptySet
<1>3. CASE pendingOutFds # <<>>
  <2>1. Attached = pendingOutFds /\ NotAttached = outFds
    BY <1>3 DEF Attached, NotAttached
  <2>2. IsInjective(outFds) /\ ToSet(pendingOutFds) \cap ToSet(outFds) = {}
    BY <1>1, InjectiveParts DEF FdsHeldOnce
  <2> QED BY <2>1, <2>2 DEF FdsHeldOnce
<1> QED BY <1>2, <1>3

LEMMA MarshalHeld ==
  ASSUME TypeOK, OpenAreSent, FdsHeldOnce, pendingOutFds' = pendingOutFds,
         NEW size \in 1..MaxUnits, NEW fd \in BOOLEAN, Marshal(size, fd)
  PROVE  OpenAreSent' /\ FdsHeldOnce'
<1> DEFINE n == Len(sent) + 1
           q == pendingOutFds \o outFds
<1>0. pendingOutFds' = pendingOutFds
  OBVIOUS
<1>1. /\ n \in Numbers /\ n \in Nat /\ n # Socket
      /\ Len(sent') = n
      /\ outFds' = IF fd THEN Append(outFds, n) ELSE outFds
      /\ open' = IF fd THEN open \cup {n} ELSE open
  <2>1. Len(sent) \in Nat
    BY DEF TypeOK
  <2>2. n \in Numbers /\ Len(sent') = n
    BY MarshalType
  <2>3. /\ outFds' = IF fd THEN Append(outFds, n) ELSE outFds
        /\ open' = IF fd THEN open \cup {n} ELSE open
    BY DEF Marshal
  <2> QED BY <2>1, <2>2, <2>3
<1>2. n \notin open
  BY DEF OpenAreSent, TypeOK, Numbers
<1>3. \A m \in open : m <= Len(sent')
  BY <1>1 DEF OpenAreSent, TypeOK, Numbers
<1>4. OpenAreSent'
  BY <1>1, <1>3 DEF OpenAreSent
<1>5. pendingOutFds \in Seq(Numbers) /\ outFds \in Seq(Numbers) /\ q \in Seq(Numbers)
  BY DEF TypeOK
<1>6. ToSet(q) = open \ {Socket} /\ IsInjective(q)
  BY <1>5, ConcatSets DEF FdsHeldOnce
<1>7. CASE fd
  <2>1. outFds' = Append(outFds, n) /\ open' = open \cup {n}
    BY <1>1, <1>7
  <2>2. pendingOutFds \o Append(outFds, n) = Append(q, n)
    BY <1>1, <1>5
  <2> HIDE DEF n, q
  <2>3. ToSet(Append(outFds, n)) = ToSet(outFds) \cup {n}
    BY <1>1, <1>5, AppendSets
  <2>4. IsInjective(Append(q, n))
    BY <1>1, <1>2, <1>5, <1>6, InjectiveAppend
  <2>5. open' \ {Socket} = ToSet(pendingOutFds) \cup ToSet(Append(outFds, n))
    BY <1>1, <2>1, <2>3 DEF FdsHeldOnce
  <2>6. pendingOutFds' \o outFds' = Append(q, n)
    BY <1>0, <2>1, <2>2
  <2>7. open' \ {Socket} = ToSet(outFds') \cup ToSet(pendingOutFds')
    BY <1>0, <2>1, <2>5
  <2>8. IsInjective(pendingOutFds' \o outFds')
    BY <2>4, <2>6
  <2> QED BY <1>4, <2>7, <2>8 DEF FdsHeldOnce
<1>8. CASE ~fd
  <2>1. outFds' = outFds /\ open' = open
    BY <1>1, <1>8
  <2>2. open' \ {Socket} = ToSet(outFds') \cup ToSet(pendingOutFds')
    BY <1>0, <2>1 DEF FdsHeldOnce
  <2>3. IsInjective(pendingOutFds' \o outFds')
    BY <1>0, <2>1 DEF FdsHeldOnce
  <2> QED BY <1>4, <2>2, <2>3 DEF FdsHeldOnce
<1> QED BY <1>4, <1>7, <1>8

LEMMA HeldStep ==
  ASSUME TypeOK, OpenAreSent, FdsHeldOnce, [Next]_vars
  PROVE  OpenAreSent' /\ FdsHeldOnce'
<1>1. ASSUME NEW size \in 1..MaxUnits, NEW fd \in BOOLEAN, SendEvent(size, fd)
      PROVE  OpenAreSent' /\ FdsHeldOnce'
  BY <1>1, MarshalHeld DEF SendEvent
<1>2. CASE SendError
  <2>1. Marshal(1, FALSE) /\ pendingOutFds' = pendingOutFds
    BY <1>2 DEF SendError
  <2>2. 1 \in 1..MaxUnits
    OBVIOUS
  <2> QED BY <2>1, <2>2, MarshalHeld
<1>3. CASE FlushSent
  <2>1. /\ pendingOutFds' = <<>> /\ outFds' = NotAttached
        /\ open' = open \ ToSet(Attached) /\ sent' = sent
    BY <1>3 DEF FlushSent
  <2>2. OpenAreSent'
    BY <2>1 DEF OpenAreSent
  <2>3. open' \ {Socket} = ToSet(pendingOutFds') \cup ToSet(outFds')
    BY <2>1, FlushSplits, EmptySet
  <2>4. <<>> \o NotAttached = NotAttached
    BY AttachedType
  <2>5. IsInjective(pendingOutFds' \o outFds')
    BY <2>1, <2>4, FlushSplits
  <2> QED BY <2>2, <2>3, <2>5 DEF FdsHeldOnce
<1>4. CASE FlushRefused
  <2>1. /\ pendingOutFds' = Attached /\ outFds' = NotAttached
        /\ open' = open /\ sent' = sent
    BY <1>4 DEF FlushRefused
  <2> QED BY <2>1, FlushSplits DEF FdsHeldOnce, OpenAreSent
<1>5. CASE Reap
  <2>1. /\ pendingOutFds' = <<>> /\ outFds' = <<>> /\ sent' = sent
        /\ open' = open \ (ToSet(outFds) \cup ToSet(pendingOutFds))
    BY <1>5 DEF Reap
  <2>2. OpenAreSent'
    BY <2>1 DEF OpenAreSent
  <2>3. open' \ {Socket} = {}
    BY <2>1 DEF FdsHeldOnce
  <2>4. <<>> \o <<>> = <<>> /\ IsInjective(<<>>)
    BY DEF IsInjective
  <2> QED BY <2>1, <2>2, <2>3, <2>4, EmptySet DEF FdsHeldOnce
<1>6. CASE HangUp \/ Read \/ CloseClient \/ UNCHANGED vars
  <2>1. UNCHANGED <<outFds, pendingOutFds, open, sent>>
    BY <1>6 DEF HangUp, Read, CloseClient, vars, queues
  <2> QED BY <2>1 DEF OpenAreSent, FdsHeldOnce
<1> QED BY <1>1, <1>2, <1>3, <1>4, <1>5, <1>6 DEF Next

----------------------------------------------------------------------------
(* Few descriptors wait, and only sent ones are closed.                    *)

LEMMA WaitingStep ==
  ASSUME TypeOK, WaitingFit, [Next]_vars
  PROVE  WaitingFit'
<1>0. /\ outFds \in Seq(Numbers) /\ pendingOutFds \in Seq(Numbers)
      /\ Len(Attached) + Len(NotAttached) = Waiting
      /\ Len(NotAttached) \in Nat /\ Len(Attached) \in Nat
  <2>1. outFds \in Seq(Numbers) /\ pendingOutFds \in Seq(Numbers)
    BY DEF TypeOK
  <2> QED BY <2>1 DEF Attached, NotAttached, Waiting
<1>1. ASSUME NEW size \in 1..MaxUnits, NEW fd \in BOOLEAN, SendEvent(size, fd)
      PROVE  WaitingFit'
  <2>1. /\ environment' = environment /\ pendingOutFds' = pendingOutFds
        /\ fd /\ "fewFds" \in environment => Waiting < MaxFds
        /\ outFds' = IF fd THEN Append(outFds, Len(sent) + 1) ELSE outFds
    BY <1>1 DEF SendEvent, Marshal
  <2>2. Len(outFds') = IF fd THEN Len(outFds) + 1 ELSE Len(outFds)
    BY <1>0, <2>1
  <2> QED BY <1>0, <2>1, <2>2 DEF WaitingFit, Waiting
<1>2. CASE SendError
  BY <1>2 DEF SendError, Marshal, WaitingFit, Waiting
<1>3. CASE FlushSent
  <2>1. /\ environment' = environment
        /\ pendingOutFds' = <<>> /\ outFds' = NotAttached
    BY <1>3 DEF FlushSent
  <2> QED BY <1>0, <2>1 DEF WaitingFit, Waiting
<1>4. CASE FlushRefused
  <2>1. /\ environment' = environment
        /\ pendingOutFds' = Attached /\ outFds' = NotAttached
    BY <1>4 DEF FlushRefused
  <2> QED BY <1>0, <2>1 DEF WaitingFit, Waiting
<1>5. CASE Reap
  BY <1>5 DEF Reap, WaitingFit, Waiting
<1>6. CASE HangUp \/ Read \/ CloseClient \/ UNCHANGED vars
  BY <1>6 DEF HangUp, Read, CloseClient, vars, queues, WaitingFit, Waiting
<1> QED BY <1>1, <1>2, <1>3, <1>4, <1>5, <1>6 DEF Next

Reached(n) == OnWire(n) \/ Taken(n)

\* A descriptor the client can reach stays reachable while it reads.
LEMMA ReadReaches ==
  ASSUME TypeOK, Read, NEW n, Reached(n)
  PROVE  Reached(n)'
<1> DEFINE u == Head(wire)
           units == Append(partial, u.unit)
           fds == fdQueue \o u.fds
           event == sent[units[1].event]
           takes == event.fd /\ fds # <<>>
           decoded == [units |-> units, fd |-> IF takes THEN Head(fds) ELSE NoFd]
<1>1. /\ wire \in Seq(Carried) /\ wire # <<>> /\ wire' = Tail(wire)
      /\ u.fds \in Seq(Numbers) /\ fdQueue \in Seq(Numbers)
  <2>1. wire \in Seq(Carried) /\ wire # <<>> /\ wire' = Tail(wire)
    BY DEF TypeOK, Read
  <2>2. u \in Carried
    BY <2>1
  <2>3. u.fds \in Seq(Numbers)
    BY <2>2 DEF Carried
  <2> QED BY <2>1, <2>3 DEF TypeOK
<1>2. fds \in Seq(Numbers) /\ ToSet(fds) = ToSet(fdQueue) \cup ToSet(u.fds)
  BY <1>1, ConcatSets
<1>3. \/ /\ received' = Append(received, decoded)
         /\ fdQueue' = IF takes THEN Tail(fds) ELSE fds
      \/ fdQueue' = fds /\ received' = received
  BY DEF Read
<1>4. decoded.fd = IF takes THEN Head(fds) ELSE NoFd
  OBVIOUS
<1>5. takes => fds # <<>>
  OBVIOUS
<1> HIDE DEF u, units, event, takes, decoded, fds
<1>6. received \in Seq([units : Seq(Unit), fd : Numbers \cup {NoFd}])
  BY DEF TypeOK
<1>7. \A k \in DOMAIN received : k \in DOMAIN received' /\ received'[k] = received[k]
  <2>1. CASE received' = Append(received, decoded)
    BY <1>6, <2>1
  <2>2. CASE received' = received
    BY <2>2
  <2> QED BY <1>3, <2>1, <2>2
<1>8. ASSUME n \in ToSet(fds) PROVE Taken(n)'
  <2>1. CASE fdQueue' = fds
    BY <1>8, <2>1 DEF Taken
  <2>2. CASE /\ received' = Append(received, decoded) /\ takes
             /\ fdQueue' = Tail(fds)
    <3>1. n = Head(fds) \/ n \in ToSet(Tail(fds))
      BY <1>2, <1>5, <1>8, <2>2, TailSets
    <3>2. Len(received) + 1 \in DOMAIN received' /\ received'[Len(received) + 1] = decoded
      BY <1>6, <2>2
    <3> QED BY <1>4, <2>2, <3>1, <3>2 DEF Taken
  <2> QED BY <1>3, <2>1, <2>2
<1>9. CASE Taken(n)
  BY <1>2, <1>7, <1>8, <1>9 DEF Taken, Reached
<1>10. CASE OnWire(n)
  <2>1. PICK k \in DOMAIN wire : n \in ToSet(wire[k].fds)
    BY <1>10 DEF OnWire
  <2>2. CASE k = 1
    <3>1. wire[1] = u
      BY <1>1 DEF u
    <3> QED BY <1>2, <1>8, <2>1, <2>2, <3>1 DEF Reached
  <2>3. CASE k # 1
    <3>1. k - 1 \in DOMAIN wire' /\ wire'[k - 1] = wire[k]
      BY <1>1, <2>3
    <3> QED BY <2>1, <3>1 DEF OnWire, Reached
  <2> QED BY <2>2, <2>3
<1> QED BY <1>9, <1>10 DEF Reached

LEMMA ClosedStep ==
  ASSUME TypeOK, OpenAreSent, FdsHeldOnce, WaitingFit, ClosedOnlyWhenSent, [Next]_vars
  PROVE  ClosedOnlyWhenSent'
<1> SUFFICES ASSUME alive', "fewFds" \in environment',
                    NEW n \in DOMAIN sent', sent'[n].fd, n \notin open'
             PROVE  Reached(n)'
  BY DEF ClosedOnlyWhenSent, Reached
<1>1. ASSUME alive, environment' = environment, n \in DOMAIN sent, sent[n].fd,
             n \notin open
      PROVE  Reached(n)
  BY <1>1 DEF ClosedOnlyWhenSent, Reached
<1>2. ASSUME NEW size \in 1..MaxUnits, NEW fd \in BOOLEAN, SendEvent(size, fd)
      PROVE  Reached(n)'
  <2>1. Marshal(size, fd)
    BY <1>2 DEF SendEvent
  <2>2. /\ Len(sent') = Len(sent) + 1 /\ sent' \in Seq(Event) /\ sent \in Seq(Event)
        /\ \A k \in DOMAIN sent : sent'[k] = sent[k]
        /\ sent'[Len(sent) + 1].fd = fd
    BY <2>1, MarshalType DEF TypeOK
  <2>3. open' = IF fd THEN open \cup {Len(sent) + 1} ELSE open
    BY <2>1 DEF Marshal
  <2>4. n # Len(sent) + 1
    BY <2>2, <2>3
  <2>5. n \in DOMAIN sent /\ sent[n].fd /\ n \notin open
    BY <2>2, <2>3, <2>4
  <2>6. alive /\ environment' = environment
    BY <1>2 DEF SendEvent
  <2>7. UNCHANGED <<wire, fdQueue, received>>
    BY <1>2 DEF SendEvent, client
  <2> QED BY <1>1, <2>5, <2>6, <2>7 DEF Reached, OnWire, Taken
<1>3. CASE SendError
  BY <1>3 DEF SendError
<1>4. CASE FlushSent
  <2>1. PICK m \in 1..Min({Room, Len(out)}) : wire' = Transmit(m, Attached)
    BY <1>4 DEF FlushSent
  <2>2. /\ alive /\ environment' = environment /\ sent' = sent
        /\ open' = open \ ToSet(Attached) /\ UNCHANGED <<fdQueue, received>>
    BY <1>4 DEF FlushSent, Flushing, client
  <2>3. /\ wire \in Seq(Carried) /\ wire' \in Seq(Carried)
        /\ Len(wire') = Len(wire) + m /\ m \in 1..Len(out)
        /\ \A k \in DOMAIN wire : wire'[k] = wire[k]
        /\ Len(Attached) <= MaxFds => wire'[Len(wire) + 1].fds = Attached
    BY <2>1, PrefixLength, AttachedType, TransmitType DEF TypeOK
  <2>4. CASE n \in ToSet(Attached)
    <3>1. Len(Attached) <= Waiting /\ Waiting <= MaxFds /\ Waiting \in Nat
      <4>1. outFds \in Seq(Numbers) /\ pendingOutFds \in Seq(Numbers)
        BY DEF TypeOK
      <4> QED BY <2>2, <4>1 DEF Attached, Waiting, WaitingFit
    <3>2. Len(Attached) \in Nat
      BY AttachedType
    <3>3. Len(wire) + 1 \in DOMAIN wire'
      BY <2>3
    <3>4. wire'[Len(wire) + 1].fds = Attached
      BY <2>3, <3>1, <3>2
    <3> QED BY <2>4, <3>3, <3>4 DEF Reached, OnWire
  <2>5. CASE n \notin ToSet(Attached)
    <3>1. Reached(n)
      BY <1>1, <2>2, <2>5
    <3>2. \A k \in DOMAIN wire : k \in DOMAIN wire'
      BY <2>3
    <3> QED BY <2>2, <2>3, <3>1, <3>2 DEF Reached, OnWire, Taken
  <2> QED BY <2>4, <2>5
<1>5. CASE Read
  <2>1. alive /\ environment' = environment /\ sent' = sent /\ open' = open
    BY <1>5 DEF Read
  <2> QED BY <1>1, <1>5, <2>1, ReadReaches
<1>6. CASE FlushRefused \/ CloseClient \/ UNCHANGED vars
  <2>1. UNCHANGED <<environment, alive, sent, open, wire, fdQueue, received>>
    BY <1>6 DEF FlushRefused, CloseClient, vars, queues, client
  <2> QED BY <1>1, <2>1 DEF Reached, OnWire, Taken
<1>7. CASE HangUp \/ Reap
  BY <1>7 DEF HangUp, Reap
<1> QED BY <1>2, <1>3, <1>4, <1>5, <1>6, <1>7 DEF Next

----------------------------------------------------------------------------
(* Bytes: what sends and reads do to the units on their way.               *)

LEMMA FlowType ==
  ASSUME TypeOK
  PROVE  /\ FlowLen \in Nat /\ Len(wire) \in Nat /\ Len(out) \in Nat
         /\ \A k \in 1..FlowLen : Flow(k) \in Unit
<1>1. wire \in Seq(Carried) /\ out \in Seq(Unit)
  BY DEF TypeOK
<1>2. ASSUME NEW k \in 1..FlowLen PROVE Flow(k) \in Unit
  <2>1. CASE k <= Len(wire)
    <3>1. wire[k] \in Carried
      BY <1>1, <2>1 DEF FlowLen
    <3> QED BY <2>1, <3>1 DEF Flow, Carried
  <2>2. CASE k > Len(wire)
    <3>1. k - Len(wire) \in 1..Len(out)
      BY <1>1, <2>2 DEF FlowLen
    <3>2. out[k - Len(wire)] \in Unit
      BY <1>1, <3>1
    <3> QED BY <1>1, <2>2, <3>2 DEF Flow
  <2> QED BY <1>1, <2>1, <2>2
<1> QED BY <1>1, <1>2 DEF FlowLen

\* The units of a new event join those that wait.
LEMMA MarshalUnits ==
  ASSUME TypeOK, NEW size \in 1..MaxUnits, NEW fd \in BOOLEAN, Marshal(size, fd),
         NEW n \in Nat, n = Len(sent) + 1
  PROVE  /\ Len(sent') = n /\ sent'[n] = [size |-> size, fd |-> fd]
         /\ Len(out') = Len(out) + size
         /\ \A k \in 1..Len(out) : out'[k] = out[k]
         /\ \A k \in 1..size : out'[Len(out) + k] = [event |-> n, part |-> k]
<1> DEFINE units == UnitsOf(n, size)
           event == [size |-> size, fd |-> fd]
<1>1. n \in Numbers
  BY DEF TypeOK, Marshal, Numbers
<1>2. /\ units \in Seq(Unit) /\ Len(units) = size
      /\ \A k \in 1..size : units[k] = [event |-> n, part |-> k]
  <2>1. units \in [1..size -> Unit]
    BY <1>1 DEF UnitsOf, Unit
  <2>2. \A k \in 1..size : units[k] = [event |-> n, part |-> k]
    BY DEF UnitsOf
  <2> HIDE DEF units
  <2> QED BY <2>1, <2>2
<1>3. event \in Event
  BY DEF Event
<1>4. sent' = Append(sent, event) /\ out' = out \o units
  BY DEF Marshal
<1>5. sent \in Seq(Event) /\ out \in Seq(Unit)
  BY DEF TypeOK
<1> HIDE DEF units, event
<1>6. Len(sent') = n /\ sent'[n] = event
  BY <1>3, <1>4, <1>5
<1>7. /\ Len(out \o units) = Len(out) + size
      /\ \A k \in 1..Len(out) : (out \o units)[k] = out[k]
      /\ \A k \in 1..size : (out \o units)[Len(out) + k] = units[k]
  <2>1. units \in Seq(Unit) /\ out \in Seq(Unit) /\ Len(units) = size
    BY <1>2, <1>5
  <2> QED BY <2>1
<1> QED BY <1>2, <1>4, <1>6, <1>7 DEF event

\* What a send moves from the buffer to the socket.
LEMMA TransmitUnits ==
  ASSUME TypeOK, NEW n \in 1..Len(out), NEW fds \in Seq(Numbers)
  PROVE  /\ Len(Transmit(n, fds)) = Len(wire) + n
         /\ \A k \in 1..Len(wire) : Transmit(n, fds)[k] = wire[k]
         /\ \A k \in 1..n : Transmit(n, fds)[Len(wire) + k].unit = out[k]
         /\ \A k \in 2..n : Transmit(n, fds)[Len(wire) + k].fds = <<>>
<1> DEFINE first == SubSeq(fds, 1, Min({MaxFds, Len(fds)}))
           units == [k \in 1..n |-> [unit |-> out[k],
                                     fds |-> IF k = 1 THEN first ELSE <<>>]]
           Sent == {units[k] : k \in 1..n}
<1>1. Transmit(n, fds) = wire \o units
  BY DEF Transmit
<1>2. Len(units) = n /\ units \in Seq(Sent)
  <2>1. units \in [1..n -> Sent]
    OBVIOUS
  <2>2. n \in Nat
    BY DEF TypeOK
  <2> HIDE DEF units, Sent
  <2> QED BY <2>1, <2>2
<1>3. /\ \A k \in 1..n : units[k].unit = out[k]
      /\ \A k \in 2..n : units[k].fds = <<>>
  OBVIOUS
<1>4. wire \in Seq(Carried)
  BY DEF TypeOK
<1> HIDE DEF units
<1>5. /\ Len(wire \o units) = Len(wire) + n
      /\ \A k \in 1..Len(wire) : (wire \o units)[k] = wire[k]
      /\ \A k \in 1..n : (wire \o units)[Len(wire) + k] = units[k]
  BY <1>2, <1>4
<1> QED BY <1>1, <1>3, <1>5

LEMMA FlushKeepsFlow ==
  ASSUME TypeOK, TypeOK', FlushSent
  PROVE  FlowLen' = FlowLen /\ \A k \in 1..FlowLen : Flow(k)' = Flow(k)
<1>1. PICK n \in 1..Min({Room, Len(out)}) :
        wire' = Transmit(n, Attached) /\ out' = SubSeq(out, n + 1, Len(out))
  BY DEF FlushSent
<1>2. /\ n \in 1..Len(out) /\ out \in Seq(Unit) /\ Len(wire) \in Nat /\ Len(out) \in Nat
  <2>1. n \in 1..Len(out)
    BY PrefixLength
  <2>2. out \in Seq(Unit) /\ wire \in Seq(Carried)
    BY DEF TypeOK
  <2> QED BY <2>1, <2>2
<1>3. /\ Len(wire') = Len(wire) + n
      /\ \A k \in 1..Len(wire) : wire'[k] = wire[k]
      /\ \A k \in 1..n : wire'[Len(wire) + k].unit = out[k]
  BY <1>1, <1>2, AttachedType, TransmitUnits
<1>4. /\ Len(out') = Len(out) - n
      /\ \A k \in 1..Len(out) - n : out'[k] = out[n + k]
  BY <1>1, <1>2
<1>5. FlowLen' = FlowLen
  BY <1>2, <1>3, <1>4 DEF FlowLen
<1>6. ASSUME NEW k \in 1..FlowLen PROVE Flow(k)' = Flow(k)
  <2>1. CASE k <= Len(wire)
    BY <1>2, <1>3, <2>1 DEF Flow
  <2>2. CASE k > Len(wire) /\ k <= Len(wire) + n
    <3>1. k - Len(wire) \in 1..n /\ Len(wire) + (k - Len(wire)) = k
      BY <1>2, <2>2
    <3>2. wire'[k].unit = out[k - Len(wire)]
      BY <1>3, <3>1
    <3> QED BY <1>2, <1>3, <2>2, <3>2 DEF Flow
  <2>3. CASE k > Len(wire) + n
    <3>1. k - (Len(wire) + n) \in 1..Len(out) - n
      BY <1>2, <2>3 DEF FlowLen
    <3>2. out'[k - (Len(wire) + n)] = out[n + (k - (Len(wire) + n))]
      BY <1>4, <3>1
    <3>3. n + (k - (Len(wire) + n)) = k - Len(wire)
      BY <1>2
    <3>4. ~(k <= Len(wire')) /\ ~(k <= Len(wire))
      BY <1>2, <1>3, <2>3
    <3> QED BY <1>3, <3>2, <3>3, <3>4 DEF Flow
  <2> QED BY <1>2, <2>1, <2>2, <2>3
<1> QED BY <1>5, <1>6

\* Units that stay where they were are still in order; only the end of the
\* connection cuts them short.
LEMMA FlowStays ==
  ASSUME TypeOK, InOrder, FlowLen' \in 0..FlowLen, \A k \in 1..FlowLen' : Flow(k)' = Flow(k),
         sent' = sent, received' = received, partial' = partial,
         listed' => listed /\ FlowLen' = FlowLen
  PROVE  InOrder'
<1>1. FlowLen \in Nat
  BY FlowType
<1>2. Expected' = Expected
  BY DEF Expected, Decoding
<1>3. \A k \in 0..FlowLen' : AfterFlow(k)' = AfterFlow(k)
  BY <1>1, <1>2 DEF AfterFlow, After
<1>4. ASSUME NEW k \in 1..FlowLen'
      PROVE  /\ Flow(k)' = AfterFlow(k - 1)'
             /\ Flow(k)'.event \in DOMAIN sent'
             /\ Flow(k)'.part <= sent'[Flow(k)'.event].size
  <2>1. k \in 1..FlowLen /\ k - 1 \in 0..FlowLen'
    BY <1>1
  <2> QED BY <1>3, <2>1 DEF InOrder
<1>5. ASSUME NEW k \in 0..FlowLen', listed', k = FlowLen'
      PROVE  AfterFlow(k)' = FirstOf(Len(sent) + 1)
  BY <1>1, <1>3, <1>5 DEF InOrder
<1> QED BY <1>4, <1>5 DEF InOrder, FirstOf

LEMMA MarshalInOrder ==
  ASSUME TypeOK, InOrder, listed, NEW size \in 1..MaxUnits, NEW fd \in BOOLEAN,
         Marshal(size, fd), wire' = wire, received' = received, partial' = partial
  PROVE  InOrder'
<1>n. PICK n \in Nat : n = Len(sent) + 1
  BY DEF TypeOK
<1>l. PICK l \in Nat : l = FlowLen
  BY FlowType
<1>1. /\ Len(sent') = n /\ sent'[n].size = size /\ n \in Nat
      /\ Len(out') = Len(out) + size
      /\ \A k \in 1..Len(out) : out'[k] = out[k]
      /\ \A k \in 1..size : out'[Len(out) + k] = [event |-> n, part |-> k]
  <2>1. sent'[n] = [size |-> size, fd |-> fd]
    BY <1>n, MarshalUnits
  <2> QED BY <1>n, <2>1, MarshalUnits
<1>2. /\ sent' \in Seq(Event) /\ sent \in Seq(Event)
      /\ \A k \in DOMAIN sent : sent'[k] = sent[k]
  BY MarshalType DEF TypeOK
<1>3. /\ FlowLen \in Nat /\ Len(wire) \in Nat /\ Len(out) \in Nat
      /\ FlowLen = l /\ FlowLen' = l + size
  BY <1>1, <1>l, FlowType DEF FlowLen
<1>4. ASSUME NEW k \in 1..FlowLen PROVE Flow(k)' = Flow(k)
  <2>1. CASE k <= Len(wire)
    BY <2>1 DEF Flow
  <2>2. CASE k > Len(wire)
    <3>1. k - Len(wire) \in 1..Len(out)
      BY <1>3, <2>2 DEF FlowLen
    <3> QED BY <1>1, <1>3, <2>2, <3>1 DEF Flow
  <2> QED BY <1>3, <2>1, <2>2
<1>5. ASSUME NEW j \in 1..size PROVE Flow(l + j)' = [event |-> n, part |-> j]
  <2>1. ~(l + j <= Len(wire)) /\ l + j - Len(wire) = Len(out) + j
    BY <1>3 DEF FlowLen
  <2>2. Flow(l + j)' = out'[l + j - Len(wire)]
    BY <1>3, <2>1 DEF Flow
  <2> QED BY <1>1, <2>1, <2>2
<1>6. \A k \in 0..FlowLen : AfterFlow(k)' = AfterFlow(k)
  <2>1. Expected' = Expected
    BY DEF Expected, Decoding
  <2>2. ASSUME NEW k \in 1..FlowLen PROVE AfterFlow(k)' = AfterFlow(k)
    <3>1. Flow(k).event \in DOMAIN sent /\ Flow(k)' = Flow(k)
      BY <1>4 DEF InOrder
    <3>2. sent'[Flow(k).event] = sent[Flow(k).event]
      BY <1>2, <3>1
    <3> QED BY <3>1, <3>2 DEF AfterFlow, After, FirstOf
  <2> QED BY <1>3, <2>1, <2>2 DEF AfterFlow
<1>7. ASSUME NEW j \in 1..size
      PROVE  AfterFlow(l + j)' = IF j < size THEN [event |-> n, part |-> j + 1]
                                       ELSE FirstOf(n + 1)
  <2>1. AfterFlow(l + j)' = (IF Flow(l + j)'.part < sent'[Flow(l + j)'.event].size
            THEN [event |-> Flow(l + j)'.event, part |-> Flow(l + j)'.part + 1]
            ELSE FirstOf(Flow(l + j)'.event + 1))
    BY <1>3 DEF AfterFlow, After, FirstOf
  <2>2. PICK u : u = Flow(l + j)'
    OBVIOUS
  <2>3. u = [event |-> n, part |-> j]
    BY <1>5, <2>2
  <2>4. u.event = n /\ u.part = j
    BY <2>3
  <2>5. AfterFlow(l + j)' = IF u.part < sent'[u.event].size
                            THEN [event |-> u.event, part |-> u.part + 1]
                            ELSE FirstOf(u.event + 1)
    BY <2>1, <2>2
  <2> QED BY <1>1, <2>4, <2>5
<1>8. AfterFlow(l)' = FirstOf(n)
  <2>1. l \in 0..FlowLen
    BY <1>3
  <2> QED BY <1>3, <1>6, <1>n, <2>1 DEF InOrder
<1>9. ASSUME NEW k \in 1..FlowLen'
      PROVE  /\ Flow(k)' = AfterFlow(k - 1)'
             /\ Flow(k)'.event \in DOMAIN sent'
             /\ Flow(k)'.part <= sent'[Flow(k)'.event].size
  <2>1. CASE k <= FlowLen
    <3>1. k \in 1..FlowLen /\ k - 1 \in 0..FlowLen
      BY <1>3, <2>1
    <3>2. /\ Flow(k) = AfterFlow(k - 1) /\ Flow(k).event \in DOMAIN sent
          /\ Flow(k).part <= sent[Flow(k).event].size
      BY <3>1 DEF InOrder
    <3>3. Flow(k)' = Flow(k) /\ AfterFlow(k - 1)' = AfterFlow(k - 1)
      BY <1>4, <1>6, <3>1
    <3>4. Flow(k).event \in DOMAIN sent' /\ sent'[Flow(k).event] = sent[Flow(k).event]
      BY <1>1, <1>2, <1>n, <3>2
    <3> QED BY <3>2, <3>3, <3>4
  <2>2. CASE k > FlowLen
    <3>1. PICK j \in 1..size : k = l + j
      <4>1. k - l \in 1..size /\ k = l + (k - l)
        BY <1>3, <2>2
      <4> QED BY <4>1
    <3>2. Flow(k)' = [event |-> n, part |-> j]
      BY <1>5, <3>1
    <3>3. n \in DOMAIN sent'
      BY <1>1, <1>2, <1>n
    <3>4. Flow(k)' = AfterFlow(k - 1)'
      <4>1. CASE j = 1
        <5>1. k - 1 = l
          BY <1>3, <3>1, <4>1
        <5> QED BY <1>8, <3>2, <4>1, <5>1 DEF FirstOf
      <4>2. CASE j # 1
        <5>1. j - 1 \in 1..size /\ k - 1 = l + (j - 1) /\ j - 1 < size /\ (j - 1) + 1 = j
          BY <1>3, <3>1, <4>2
        <5>2. AfterFlow(l + (j - 1))' = [event |-> n, part |-> j]
          BY <1>7, <5>1
        <5> QED BY <3>2, <5>1, <5>2
      <4> QED BY <4>1, <4>2
    <3> QED BY <1>1, <3>2, <3>3, <3>4
  <2> QED BY <1>3, <2>1, <2>2
<1>10. ASSUME NEW k \in 0..FlowLen', k = FlowLen'
       PROVE  AfterFlow(k)' = FirstOf(Len(sent') + 1)
  <2>1. size \in 1..size /\ ~(size < size)
    OBVIOUS
  <2>2. AfterFlow(l + size)' = FirstOf(n + 1)
    BY <1>7, <2>1
  <2> QED BY <1>1, <1>3, <1>10, <2>2
<1> QED BY <1>9, <1>10 DEF InOrder, FirstOf

----------------------------------------------------------------------------
(* What the client makes of the units.                                     *)

Arrived == fdQueue \o Head(wire).fds
OwnFd == IF sent[Decoding].fd /\ Arrived # <<>> THEN Head(Arrived) ELSE NoFd

\* A unit that is read goes on where the client has stopped: the event it
\* belongs to is the next one, and is decoded when it is whole.
LEMMA ReadGoesOn ==
  ASSUME TypeOK, InOrder, PartialIsBeginning, Read
  PROVE  /\ Decoding \in DOMAIN sent /\ wire # <<>>
         /\ wire[1].unit = Expected /\ Flow(1) = Expected /\ FlowLen >= 1
         /\ \/ /\ Len(partial) + 1 = sent[Decoding].size
               /\ partial' = <<>>
               /\ received' = Append(received, [units |-> UnitsOf(Decoding, sent[Decoding].size),
                                                fd |-> OwnFd])
               /\ fdQueue' = IF sent[Decoding].fd /\ Arrived # <<>> THEN Tail(Arrived)
                             ELSE Arrived
            \/ /\ Len(partial) + 1 < sent[Decoding].size
               /\ partial' = Append(partial, Expected)
               /\ received' = received
               /\ fdQueue' = Arrived
<1> DEFINE u == Head(wire)
           units == Append(partial, u.unit)
           event == sent[units[1].event]
           size == sent[Decoding].size
<1>1. /\ wire \in Seq(Carried) /\ wire # <<>> /\ partial \in Seq(Unit)
      /\ sent \in Seq(Event) /\ Len(partial) \in Nat /\ u = wire[1]
  BY DEF TypeOK, Read
<1>2. /\ Flow(1) = u.unit /\ 1 \in 1..FlowLen /\ FlowLen >= 1
  <2>1. Len(wire) \in Nat \ {0}
    BY <1>1
  <2> QED BY <1>1, <2>1, FlowType DEF Flow, FlowLen
<1>3. /\ u.unit = Expected /\ Decoding \in DOMAIN sent /\ Len(partial) + 1 <= size
  <2>1. Flow(1) = AfterFlow(1 - 1) /\ Flow(1).event \in DOMAIN sent
        /\ Flow(1).part <= sent[Flow(1).event].size
    BY <1>2 DEF InOrder
  <2>2. AfterFlow(1 - 1) = Expected
    BY DEF AfterFlow
  <2>3. Expected.event = Decoding /\ Expected.part = Len(partial) + 1
    BY DEF Expected
  <2> QED BY <1>2, <2>1, <2>2, <2>3
<1>4. size \in 1..MaxUnits
  <2>1. sent[Decoding] \in Event
    BY <1>1, <1>3
  <2> QED BY <2>1 DEF Event
<1>5. /\ units = Append(partial, Expected) /\ Expected \in Unit
      /\ Len(units) = Len(partial) + 1 /\ units \in Seq(Unit)
      /\ \A k \in 1..Len(partial) + 1 : units[k] = [event |-> Decoding, part |-> k]
  <2>1. units = Append(partial, Expected)
    BY <1>3
  <2>2. Expected \in Unit
    <3>1. Flow(1) \in Unit
      BY <1>2, FlowType
    <3> QED BY <1>2, <1>3, <3>1
  <2>3. PICK x : x = Expected
    OBVIOUS
  <2>4. /\ Len(Append(partial, x)) = Len(partial) + 1 /\ Append(partial, x) \in Seq(Unit)
        /\ \A k \in 1..Len(partial) : Append(partial, x)[k] = partial[k]
        /\ Append(partial, x)[Len(partial) + 1] = x
    BY <1>1, <2>2, <2>3
  <2>5. \A k \in 1..Len(partial) : partial[k] = [event |-> Decoding, part |-> k]
    BY <1>1 DEF PartialIsBeginning
  <2>6. x = [event |-> Decoding, part |-> Len(partial) + 1]
    BY <2>3 DEF Expected
  <2>7. ASSUME NEW k \in 1..Len(partial) + 1
        PROVE  Append(partial, x)[k] = [event |-> Decoding, part |-> k]
    <3>1. k \in 1..Len(partial) \/ k = Len(partial) + 1
      BY <1>1
    <3> QED BY <2>4, <2>5, <2>6, <3>1
  <2> HIDE DEF units
  <2> QED BY <2>1, <2>2, <2>3, <2>4, <2>7
<1>6. event = sent[Decoding]
  <2>1. units[1] = [event |-> Decoding, part |-> 1]
    <3>1. 1 \in 1..Len(partial) + 1
      BY <1>1
    <3> QED BY <1>5, <3>1
  <2>2. units[1].event = Decoding
    BY <2>1
  <2> QED BY <2>2
<1>7. /\ IF Len(units) = event.size
         THEN /\ partial' = <<>>
              /\ received' = Append(received,
                   [units |-> units,
                    fd |-> IF event.fd /\ Arrived # <<>> THEN Head(Arrived) ELSE NoFd])
              /\ fdQueue' = IF event.fd /\ Arrived # <<>> THEN Tail(Arrived) ELSE Arrived
         ELSE /\ partial' = units
              /\ fdQueue' = Arrived
              /\ UNCHANGED received
  BY DEF Read, Arrived
<1>8. CASE Len(partial) + 1 = size
  <2>1. units = UnitsOf(Decoding, size)
    <3>1. UnitsOf(Decoding, size) = [k \in 1..size |-> [event |-> Decoding, part |-> k]]
      BY DEF UnitsOf
    <3> HIDE DEF units
    <3>2. units = [k \in 1..size |-> units[k]]
      <4>1. PICK f : f = units
        OBVIOUS
      <4>2. f \in Seq(Unit) /\ Len(f) = size
        BY <1>5, <1>8, <4>1
      <4>3. f = [k \in 1..Len(f) |-> f[k]]
        BY <4>2
      <4> QED BY <4>1, <4>2, <4>3
    <3>3. \A k \in 1..size : units[k] = [event |-> Decoding, part |-> k]
      BY <1>5, <1>8
    <3> QED BY <3>1, <3>2, <3>3
  <2> HIDE DEF units, event
  <2>2. /\ partial' = <<>>
        /\ received' = Append(received,
             [units |-> units,
              fd |-> IF event.fd /\ Arrived # <<>> THEN Head(Arrived) ELSE NoFd])
        /\ fdQueue' = IF event.fd /\ Arrived # <<>> THEN Tail(Arrived) ELSE Arrived
    BY <1>5, <1>6, <1>7, <1>8
  <2> QED BY <1>1, <1>2, <1>3, <1>6, <1>8, <2>1, <2>2 DEF OwnFd
<1>9. CASE Len(partial) + 1 # size
  <2> HIDE DEF units, event
  <2>1. partial' = units /\ fdQueue' = Arrived /\ received' = received
    BY <1>5, <1>6, <1>7, <1>9
  <2>2. Len(partial) + 1 < size
    BY <1>1, <1>3, <1>4, <1>9
  <2> QED BY <1>1, <1>2, <1>3, <1>5, <2>1, <2>2
<1> QED BY <1>8, <1>9

\* Reading takes one unit off the flow, and the client expects the next.
LEMMA ReadTakesOne ==
  ASSUME TypeOK, InOrder, PartialIsBeginning, Read
  PROVE  /\ FlowLen' = FlowLen - 1
         /\ \A k \in 1..FlowLen - 1 : Flow(k)' = Flow(k + 1)
         /\ Expected' = After(Expected)
         /\ PartialIsBeginning'
<1> DEFINE size == sent[Decoding].size
<1>1. /\ wire \in Seq(Carried) /\ wire # <<>> /\ wire' = Tail(wire)
      /\ UNCHANGED <<sent, out>> /\ received \in Seq([units : Seq(Unit), fd : Numbers \cup {NoFd}])
      /\ partial \in Seq(Unit) /\ sent \in Seq(Event) /\ out \in Seq(Unit)
      /\ Len(received) \in Nat /\ Len(sent) \in Nat /\ Len(partial) \in Nat
  <2>1. wire # <<>> /\ wire' = Tail(wire) /\ UNCHANGED <<sent, out>>
    BY DEF Read, queues
  <2>2. /\ wire \in Seq(Carried) /\ partial \in Seq(Unit)
        /\ sent \in Seq(Event) /\ out \in Seq(Unit)
    BY DEF TypeOK
  <2>3. received \in Seq([units : Seq(Unit), fd : Numbers \cup {NoFd}])
    BY DEF TypeOK
  <2> QED BY <2>1, <2>2, <2>3
<1>2. /\ Len(wire') = Len(wire) - 1 /\ Len(wire) \in Nat \ {0}
      /\ \A k \in 1..Len(wire) - 1 : wire'[k] = wire[k + 1]
  BY <1>1
<1>3. FlowLen' = FlowLen - 1 /\ FlowLen \in Nat
  BY <1>1, <1>2 DEF FlowLen
<1>4. ASSUME NEW k \in 1..FlowLen - 1 PROVE Flow(k)' = Flow(k + 1)
  <2>1. CASE k <= Len(wire) - 1
    BY <1>2, <1>3, <2>1 DEF Flow
  <2>2. CASE k > Len(wire) - 1
    <3>1. /\ ~(k <= Len(wire')) /\ ~(k + 1 <= Len(wire))
          /\ k - Len(wire') = k + 1 - Len(wire)
      BY <1>2, <1>3, <2>2
    <3> QED BY <1>1, <3>1 DEF Flow
  <2> QED BY <1>2, <1>3, <2>1, <2>2
<1>5. Decoding \in DOMAIN sent
  BY ReadGoesOn
<1>6. /\ Expected.event = Decoding /\ Expected.part = Len(partial) + 1
      /\ After(Expected) = IF Len(partial) + 1 < size
                           THEN [event |-> Decoding, part |-> Len(partial) + 2]
                           ELSE FirstOf(Decoding + 1)
  <2>1. Expected.event = Decoding /\ Expected.part = Len(partial) + 1
    BY DEF Expected
  <2>2. Len(partial) + 1 + 1 = Len(partial) + 2
    BY <1>1
  <2> QED BY <2>1, <2>2 DEF After
<1>7. size \in Nat
  <2>1. sent[Decoding] \in Event
    BY <1>1, <1>5
  <2> QED BY <2>1 DEF Event
<1>8. CASE /\ Len(partial) + 1 = size /\ partial' = <<>>
           /\ received' = Append(received, [units |-> UnitsOf(Decoding, size), fd |-> OwnFd])
  <2>1. Len(received') = Len(received) + 1
    BY <1>1, <1>8
  <2>2. Expected' = FirstOf(Decoding + 1)
    BY <1>8, <2>1 DEF Expected, Decoding, FirstOf
  <2>3. ~(Len(partial) + 1 < size)
    BY <1>7, <1>8
  <2>4. PartialIsBeginning'
    <3>1. DOMAIN partial' = {} /\ Len(received') <= Len(sent')
      BY <1>1, <1>5, <1>8, <2>1 DEF Decoding
    <3> QED BY <1>8, <3>1 DEF PartialIsBeginning
  <2> QED BY <1>3, <1>4, <1>6, <2>2, <2>3, <2>4
<1>9. CASE /\ Len(partial) + 1 < size /\ partial' = Append(partial, Expected)
           /\ received' = received
  <2>1. PICK x : x = Expected
    OBVIOUS
  <2>2. x = [event |-> Decoding, part |-> Len(partial) + 1] /\ x \in Unit
    <3>1. Flow(1) = Expected /\ 1 \in 1..FlowLen
      BY <1>3, ReadGoesOn
    <3>2. Flow(1) \in Unit
      BY <3>1, FlowType
    <3> QED BY <2>1, <3>1, <3>2 DEF Expected
  <2>3. /\ Len(partial') = Len(partial) + 1 /\ partial' \in Seq(Unit)
        /\ \A k \in 1..Len(partial) : partial'[k] = partial[k]
        /\ partial'[Len(partial) + 1] = x
    BY <1>1, <1>9, <2>1, <2>2
  <2>4. Expected' = [event |-> Decoding, part |-> Len(partial) + 2]
    <3>1. Len(partial') + 1 = Len(partial) + 2
      BY <1>1, <2>3
    <3> QED BY <1>9, <3>1 DEF Expected, Decoding
  <2>5. ASSUME NEW k \in DOMAIN partial' PROVE partial'[k] = [event |-> Decoding, part |-> k]
    <3>1. k \in 1..Len(partial) \/ k = Len(partial) + 1
      BY <1>1, <2>3
    <3>2. CASE k \in 1..Len(partial)
      <4>1. k \in DOMAIN partial
        BY <1>1, <3>2
      <4> QED BY <2>3, <3>2, <4>1 DEF PartialIsBeginning
    <3> QED BY <2>2, <2>3, <3>1, <3>2
  <2>6. PartialIsBeginning'
    BY <1>1, <1>5, <1>9, <2>3, <2>5 DEF PartialIsBeginning, Decoding
  <2> QED BY <1>3, <1>4, <1>6, <1>9, <2>4, <2>6
<1> QED BY <1>8, <1>9, ReadGoesOn

LEMMA ReadInOrder ==
  ASSUME TypeOK, InOrder, PartialIsBeginning, Read
  PROVE  InOrder'
<1>1. /\ FlowLen' = FlowLen - 1
      /\ \A k \in 1..FlowLen - 1 : Flow(k)' = Flow(k + 1)
      /\ Expected' = After(Expected) /\ Flow(1) = Expected
      /\ FlowLen >= 1 /\ FlowLen \in Nat /\ sent' = sent /\ listed' = listed
  BY ReadTakesOne, ReadGoesOn, FlowType DEF Read
<1>2. ASSUME NEW k \in 0..FlowLen - 1 PROVE AfterFlow(k)' = AfterFlow(k + 1)
  <2>1. CASE k = 0
    <3>1. AfterFlow(0)' = Expected'
      BY DEF AfterFlow
    <3>2. AfterFlow(0 + 1) = After(Flow(1))
      BY DEF AfterFlow
    <3> QED BY <1>1, <2>1, <3>1, <3>2
  <2>2. CASE k # 0
    <3>1. k \in 1..FlowLen - 1 /\ k + 1 # 0
      BY <1>1, <2>2
    <3>2. Flow(k)' = Flow(k + 1)
      BY <1>1, <3>1
    <3> QED BY <1>1, <2>2, <3>1, <3>2 DEF AfterFlow, After
  <2> QED BY <2>1, <2>2
<1>3. ASSUME NEW k \in 1..FlowLen'
      PROVE  /\ Flow(k)' = AfterFlow(k - 1)'
             /\ Flow(k)'.event \in DOMAIN sent'
             /\ Flow(k)'.part <= sent'[Flow(k)'.event].size
  <2>1. k \in 1..FlowLen - 1 /\ k - 1 \in 0..FlowLen - 1 /\ k + 1 \in 1..FlowLen
        /\ k + 1 - 1 = k /\ k - 1 + 1 = k
    BY <1>1
  <2>2. Flow(k)' = Flow(k + 1) /\ AfterFlow(k - 1)' = AfterFlow(k)
    BY <1>1, <1>2, <2>1
  <2>3. /\ Flow(k + 1) = AfterFlow(k) /\ Flow(k + 1).event \in DOMAIN sent
        /\ Flow(k + 1).part <= sent[Flow(k + 1).event].size
    BY <2>1 DEF InOrder
  <2> QED BY <1>1, <2>2, <2>3
<1>4. ASSUME NEW k \in 0..FlowLen', listed', k = FlowLen'
      PROVE  AfterFlow(k)' = FirstOf(Len(sent') + 1)
  <2>1. k \in 0..FlowLen - 1 /\ k + 1 \in 0..FlowLen /\ k + 1 = FlowLen
    BY <1>1, <1>4
  <2> QED BY <1>1, <1>2, <1>4, <2>1 DEF InOrder
<1> QED BY <1>3, <1>4 DEF InOrder, FirstOf

LEMMA ListedStep ==
  ASSUME AliveIsListed, [Next]_vars
  PROVE  AliveIsListed'
BY DEF Next, SendEvent, SendError, FlushSent, FlushRefused, HangUp, Reap, Read, CloseClient,
       vars, AliveIsListed

LEMMA OrderStep ==
  ASSUME TypeOK, TypeOK', AliveIsListed, InOrder, PartialIsBeginning, [Next]_vars
  PROVE  InOrder' /\ PartialIsBeginning'
<1>0. /\ FlowLen \in Nat /\ FlowLen \in 0..FlowLen
  BY FlowType
<1>1. ASSUME UNCHANGED <<sent, received, partial>>
      PROVE  PartialIsBeginning'
  BY <1>1 DEF PartialIsBeginning, Decoding
<1>2. ASSUME NEW size \in 1..MaxUnits, NEW fd \in BOOLEAN, alive, Marshal(size, fd),
             UNCHANGED <<wire, received, partial, listed>>
      PROVE  InOrder' /\ PartialIsBeginning'
  <2>1. listed
    BY <1>2 DEF AliveIsListed
  <2>2. InOrder'
    BY <1>2, <2>1, MarshalInOrder
  <2>3. /\ Len(sent') = Len(sent) + 1 /\ sent' \in Seq(Event) /\ sent \in Seq(Event)
        /\ \A k \in DOMAIN sent : sent'[k] = sent[k]
        /\ Len(received) \in Nat
    BY <1>2, MarshalType DEF TypeOK
  <2>4. Decoding' = Decoding
    BY <1>2 DEF Decoding
  <2>5. partial # <<>> => Decoding \in DOMAIN sent' /\ Len(partial) < sent'[Decoding].size
    BY <2>3 DEF PartialIsBeginning
  <2>6. Len(received) <= Len(sent')
    BY <2>3 DEF PartialIsBeginning
  <2> QED BY <1>2, <2>2, <2>4, <2>5, <2>6 DEF PartialIsBeginning
<1>3. ASSUME NEW size \in 1..MaxUnits, NEW fd \in BOOLEAN, SendEvent(size, fd)
      PROVE  InOrder' /\ PartialIsBeginning'
  BY <1>2, <1>3 DEF SendEvent, client
<1>4. CASE SendError
  <2>1. 1 \in 1..MaxUnits /\ FALSE \in BOOLEAN
    OBVIOUS
  <2> QED BY <1>2, <1>4, <2>1 DEF SendError, client
<1>5. CASE FlushSent
  <2>1. UNCHANGED <<sent, received, partial, listed>>
    BY <1>5 DEF FlushSent, client
  <2>2. FlowLen' = FlowLen /\ \A k \in 1..FlowLen : Flow(k)' = Flow(k)
    BY <1>5, FlushKeepsFlow
  <2>3. InOrder'
    BY <1>0, <2>1, <2>2, FlowStays
  <2> QED BY <1>1, <2>1, <2>3
<1>6. CASE FlushRefused \/ HangUp \/ CloseClient \/ UNCHANGED vars
  <2>1. UNCHANGED <<sent, received, partial, listed, wire, out>>
    BY <1>6 DEF FlushRefused, HangUp, CloseClient, vars, queues, client
  <2>2. FlowLen' = FlowLen /\ \A k \in 1..FlowLen : Flow(k)' = Flow(k)
    BY <2>1 DEF FlowLen, Flow
  <2>3. InOrder'
    BY <1>0, <2>1, <2>2, FlowStays
  <2> QED BY <1>1, <2>1, <2>3
<1>7. CASE Reap
  <2>1. UNCHANGED <<sent, received, partial, wire>> /\ listed' = FALSE /\ out' = <<>>
    BY <1>7 DEF Reap, client
  <2>2. FlowLen' = Len(wire) /\ FlowLen' \in 0..FlowLen
    BY <2>1, FlowType DEF FlowLen
  <2>3. \A k \in 1..FlowLen' : Flow(k)' = Flow(k)
    BY <2>1, <2>2, FlowType DEF Flow
  <2>4. InOrder'
    BY <2>1, <2>2, <2>3, FlowStays
  <2> QED BY <1>1, <2>1, <2>4
<1>8. CASE Read
  BY <1>8, ReadInOrder, ReadTakesOne
<1> QED BY <1>3, <1>4, <1>5, <1>6, <1>7, <1>8 DEF Next

----------------------------------------------------------------------------
(* Descriptors of an easy run.                                             *)

LEMMA SetsOf ==
  ASSUME NEW s \in Seq(Numbers)
  PROVE  /\ ToSet(s) \subseteq Numbers
         /\ \A x \in ToSet(s) : \E i \in 1..Len(s) : s[i] = x
         /\ \A i \in 1..Len(s) : s[i] \in ToSet(s)
BY DEF ToSet

LEMMA IncreasingConcat ==
  ASSUME NEW p \in Seq(Numbers), NEW q \in Seq(Numbers),
         Increasing(p), Increasing(q), Below(ToSet(p), ToSet(q))
  PROVE  Increasing(p \o q)
<1>1. \A i \in 1..Len(p), j \in 1..Len(q) : p[i] < q[j]
  BY SetsOf DEF Below
<1>2. ASSUME NEW i \in 1..Len(p) + Len(q), NEW j \in 1..Len(p) + Len(q), i < j
      PROVE  (p \o q)[i] < (p \o q)[j]
  <2>1. CASE j <= Len(p)
    BY <1>2, <2>1 DEF Increasing
  <2>2. CASE i > Len(p)
    <3>1. i - Len(p) \in DOMAIN q /\ j - Len(p) \in DOMAIN q
      BY <1>2, <2>2
    <3>2. (p \o q)[i] = q[i - Len(p)] /\ (p \o q)[j] = q[j - Len(p)]
      BY <1>2, <2>2
    <3> QED BY <1>2, <3>1, <3>2 DEF Increasing
  <2>3. CASE i <= Len(p) /\ j > Len(p)
    <3>1. i \in 1..Len(p) /\ j - Len(p) \in 1..Len(q)
      BY <2>3
    <3>2. (p \o q)[i] = p[i] /\ (p \o q)[j] = q[j - Len(p)]
      BY <2>3
    <3> QED BY <1>1, <3>1, <3>2
  <2> QED BY <2>1, <2>2, <2>3
<1>3. DOMAIN (p \o q) = 1..Len(p) + Len(q)
  OBVIOUS
<1> QED BY <1>2, <1>3 DEF Increasing

LEMMA IncreasingTail ==
  ASSUME NEW s \in Seq(Numbers), s # <<>>, Increasing(s)
  PROVE  /\ Increasing(Tail(s)) /\ Head(s) \in ToSet(s)
         /\ \A x \in ToSet(Tail(s)) : Head(s) < x
<1>1. /\ Tail(s) \in Seq(Numbers) /\ Len(Tail(s)) = Len(s) - 1
      /\ \A i \in 1..Len(Tail(s)) : Tail(s)[i] = s[i + 1]
      /\ Head(s) = s[1] /\ Len(s) \in Nat \ {0}
      /\ DOMAIN Tail(s) = 1..Len(Tail(s))
  OBVIOUS
<1>2. Increasing(Tail(s))
  BY <1>1 DEF Increasing
<1>3. ASSUME NEW x \in ToSet(Tail(s)) PROVE Head(s) < x
  <2>1. PICK i \in 1..Len(Tail(s)) : x = s[i + 1]
    <3>1. PICK i \in 1..Len(Tail(s)) : Tail(s)[i] = x
      BY <1>1, SetsOf
    <3> QED BY <1>1, <3>1
  <2>2. i + 1 \in DOMAIN s /\ 1 \in DOMAIN s /\ 1 < i + 1
    BY <1>1
  <2> QED BY <1>1, <2>1, <2>2 DEF Increasing
<1>4. Head(s) \in ToSet(s)
  BY <1>1 DEF ToSet
<1> QED BY <1>2, <1>3, <1>4

LEMMA IncreasingAppend ==
  ASSUME NEW s \in Seq(Numbers), Increasing(s), NEW n \in Numbers,
         \A x \in ToSet(s) : x < n
  PROVE  Increasing(Append(s, n))
<1>1. /\ DOMAIN Append(s, n) = 1..Len(s) + 1
      /\ \A i \in 1..Len(s) : Append(s, n)[i] = s[i]
      /\ Append(s, n)[Len(s) + 1] = n
  OBVIOUS
<1>2. \A i \in 1..Len(s) : s[i] < n
  BY SetsOf
<1>3. ASSUME NEW i \in 1..Len(s) + 1, NEW j \in 1..Len(s) + 1, i < j
      PROVE  Append(s, n)[i] < Append(s, n)[j]
  BY <1>1, <1>2, <1>3 DEF Increasing
<1> QED BY <1>1, <1>3 DEF Increasing

LEMMA IncreasingNone == Increasing(<<>>)
BY DEF Increasing

LEMMA FdTypes ==
  ASSUME TypeOK
  PROVE  /\ fdQueue \in Seq(Numbers) /\ outFds \in Seq(Numbers)
         /\ wire \in Seq(Carried) /\ Len(wire) \in Nat /\ DOMAIN wire = 1..Len(wire)
         /\ \A k \in DOMAIN wire : wire[k].fds \in Seq(Numbers) /\ WireFds(k) \subseteq Numbers
         /\ AllWireFds \subseteq Numbers
         /\ sent \in Seq(Event) /\ DOMAIN sent = 1..Len(sent) /\ Len(sent) \in Nat
         /\ Len(received) \in Nat
<1>1. /\ fdQueue \in Seq(Numbers) /\ outFds \in Seq(Numbers)
      /\ wire \in Seq(Carried) /\ Len(wire) \in Nat /\ DOMAIN wire = 1..Len(wire)
      /\ sent \in Seq(Event) /\ DOMAIN sent = 1..Len(sent) /\ Len(sent) \in Nat
      /\ Len(received) \in Nat
  BY DEF TypeOK
<1>2. ASSUME NEW k \in DOMAIN wire
      PROVE  wire[k].fds \in Seq(Numbers) /\ WireFds(k) \subseteq Numbers
  <2>1. wire[k] \in Carried
    BY <1>1
  <2>2. wire[k].fds \in Seq(Numbers)
    BY <2>1 DEF Carried
  <2> QED BY <2>2, SetsOf DEF WireFds
<1> QED BY <1>1, <1>2 DEF AllWireFds

\* The events of the units on the wire were sent.
LEMMA WireSent ==
  ASSUME TypeOK, InOrder, NEW k \in DOMAIN wire
  PROVE  wire[k].unit.event \in DOMAIN sent
<1>1. k \in 1..FlowLen /\ Flow(k) = wire[k].unit
  BY FlowType, FdTypes DEF FlowLen, Flow
<1> QED BY <1>1 DEF InOrder

LEMMA MarshalFds ==
  ASSUME TypeOK, InOrder, PartialIsBeginning, FdsFit,
         NEW size \in 1..MaxUnits, NEW fd \in BOOLEAN, Marshal(size, fd),
         UNCHANGED <<pendingOutFds, wire, fdQueue, received, listed>>
  PROVE  FdsFit'
<1>n. PICK n \in Nat : n = Len(sent) + 1
  BY DEF TypeOK
<1>1. /\ sent' \in Seq(Event) /\ sent \in Seq(Event) /\ Len(sent') = n
      /\ \A k \in DOMAIN sent : sent'[k] = sent[k]
      /\ sent'[n].fd = fd
      /\ DOMAIN sent' = DOMAIN sent \cup {n} /\ DOMAIN sent = 1..Len(sent)
      /\ n \in Numbers
  <2>1. /\ sent' \in Seq(Event) /\ sent \in Seq(Event) /\ Len(sent') = n
        /\ \A k \in DOMAIN sent : sent'[k] = sent[k]
        /\ sent'[n].fd = fd /\ n \in Numbers
    BY <1>n, MarshalType DEF TypeOK
  <2> QED BY <1>n, <2>1
<1>2. /\ fdQueue \in Seq(Numbers) /\ outFds \in Seq(Numbers) /\ Len(received) \in Nat
      /\ Len(received) <= Len(sent)
  BY FdTypes DEF PartialIsBeginning
<1>3. \A m \in ToSet(fdQueue) \cup AllWireFds \cup ToSet(outFds) : m \in DOMAIN sent /\ m < n
  BY <1>1, <1>n DEF FdsFit, OwnFds
<1>4. /\ Increasing(outFds') /\ ToSet(outFds) \subseteq ToSet(outFds')
      /\ ToSet(outFds') \subseteq ToSet(outFds) \cup {n} /\ (fd => n \in ToSet(outFds'))
      /\ (~fd => outFds' = outFds)
  <2>1. outFds' = IF fd THEN Append(outFds, n) ELSE outFds
    BY <1>n DEF Marshal
  <2>2. Increasing(Append(outFds, n))
    BY <1>1, <1>2, <1>3, IncreasingAppend DEF FdsFit, FdsInOrder
  <2>3. ToSet(Append(outFds, n)) = ToSet(outFds) \cup {n}
    BY <1>1, <1>2, AppendSets
  <2> QED BY <2>1, <2>2, <2>3 DEF FdsFit, FdsInOrder
<1>5. /\ AllWireFds' = AllWireFds /\ \A k \in DOMAIN wire : WireFds(k)' = WireFds(k)
      /\ DOMAIN wire' = DOMAIN wire
  BY DEF AllWireFds, WireFds
<1>6. FdsInOrder'
  BY <1>3, <1>4, <1>5 DEF FdsFit, FdsInOrder, Below
<1>7. OwnFds'
  <2> SUFFICES ASSUME NEW m \in (ToSet(fdQueue) \cup AllWireFds \cup ToSet(outFds))'
               PROVE  m \in DOMAIN sent' /\ m > Len(received') /\ sent'[m].fd
    BY DEF OwnFds
  <2>1. CASE m \in ToSet(fdQueue) \cup AllWireFds \cup ToSet(outFds)
    BY <1>1, <2>1 DEF FdsFit, OwnFds
  <2>2. CASE m = n /\ fd
    <3>1. n > Len(received) /\ n \in DOMAIN sent' /\ received' = received
      BY <1>1, <1>2, <1>n
    <3>2. sent'[n].fd
      BY <1>1, <2>2, Zenon
    <3> QED BY <2>2, <3>1, <3>2
  <2> QED BY <1>4, <1>5, <2>1, <2>2
<1>8. ASSUME NEW m \in DOMAIN sent', m > Len(received'), sent'[m].fd
      PROVE  FdAhead(m)'
  <2>1. CASE m \in DOMAIN sent
    <3>1. FdAhead(m)
      BY <1>1, <1>8, <2>1 DEF FdsFit
    <3> QED BY <1>4, <1>5, <3>1 DEF FdAhead, NoUnitBefore
  <2>2. CASE m = n
    <3>1. m \in ToSet(outFds')
      BY <1>1, <1>4, <1>8, <2>2
    <3>2. \A j \in DOMAIN wire : wire[j].unit.event # n
      BY <1>1, <1>n, WireSent
    <3> QED BY <2>2, <3>1, <3>2 DEF FdAhead, NoUnitBefore
  <2> QED BY <1>1, <2>1, <2>2
<1> QED BY <1>6, <1>7, <1>8 DEF FdsFit

\* In an easy run a send carries every descriptor that waits.
LEMMA FlushFds ==
  ASSUME TypeOK, TypeOK', WaitingFit, AliveIsListed, Easy, FdsFit, FlushSent
  PROVE  FdsFit'
<1>1. PICK m \in 1..Min({Room, Len(out)}) : wire' = Transmit(m, Attached)
  BY DEF FlushSent
<1>2. /\ Attached = outFds /\ NotAttached = <<>>
      /\ pendingOutFds' = <<>> /\ outFds' = <<>>
      /\ UNCHANGED <<environment, sent, received, fdQueue, listed, peerOpen>> /\ listed
  BY DEF FlushSent, FdsFit, Attached, NotAttached, client, Flushing, AliveIsListed
<1>3. m \in 1..Len(out) /\ outFds \in Seq(Numbers) /\ Len(out) \in Nat /\ Len(wire) \in Nat
  <2>1. m \in 1..Len(out)
    BY <1>1, PrefixLength
  <2>2. out \in Seq(Unit) /\ wire \in Seq(Carried) /\ outFds \in Seq(Numbers)
    BY DEF TypeOK
  <2> QED BY <2>1, <2>2
<1>4. Len(outFds) <= MaxFds
  <2>1. "fewFds" \in environment
    BY DEF Easy, EasyRun, Environments
  <2>2. Len(pendingOutFds) = 0
    BY DEF FdsFit
  <2> QED BY <1>3, <2>1, <2>2 DEF WaitingFit, Waiting
<1>5. /\ Len(wire') = Len(wire) + m
      /\ \A k \in 1..Len(wire) : wire'[k] = wire[k]
      /\ wire'[Len(wire) + 1].fds = outFds
      /\ \A k \in 2..m : wire'[Len(wire) + k].fds = <<>>
  <2>1. wire' = Transmit(m, outFds)
    BY <1>1, <1>2
  <2>2. /\ Len(wire') = Len(wire) + m
        /\ \A k \in 1..Len(wire) : wire'[k] = wire[k]
        /\ \A k \in 2..m : wire'[Len(wire) + k].fds = <<>>
    BY <1>3, <2>1, TransmitUnits
  <2>3. wire'[Len(wire) + 1].fds = outFds
    BY <1>3, <1>4, <2>1, TransmitType
  <2> QED BY <2>2, <2>3
<1>6. /\ DOMAIN wire' = 1..Len(wire) + m /\ DOMAIN wire = 1..Len(wire)
      /\ \A k \in 1..Len(wire) : WireFds(k)' = WireFds(k)
      /\ \A k \in 1..Len(wire) + m : k = Len(wire) + 1 => WireFds(k)' = ToSet(outFds)
      /\ \A k \in 1..Len(wire) + m : k > Len(wire) + 1 => WireFds(k)' = {} /\ wire'[k].fds = <<>>
  <2>1. DOMAIN wire' = 1..Len(wire) + m /\ DOMAIN wire = 1..Len(wire)
    BY <1>5, FdTypes DEF TypeOK
  <2>2. ASSUME NEW k \in 1..Len(wire) + m, k > Len(wire) + 1
        PROVE  wire'[k].fds = <<>>
    <3>1. k - Len(wire) \in 2..m /\ Len(wire) + (k - Len(wire)) = k
      BY <1>3, <2>2
    <3> QED BY <1>5, <3>1
  <2> QED BY <1>5, <2>1, <2>2, EmptySet DEF WireFds
<1>7. /\ AllWireFds' = AllWireFds \cup ToSet(outFds)
      /\ ToSet(outFds') = {} /\ ToSet(fdQueue') = ToSet(fdQueue)
  <2>1. \A x : x \in AllWireFds' <=> \E k \in 1..Len(wire) + m : x \in WireFds(k)'
    BY <1>6 DEF AllWireFds
  <2>2. \A x : x \in AllWireFds <=> \E k \in 1..Len(wire) : x \in WireFds(k)
    BY <1>6 DEF AllWireFds
  <2>3. \A k \in 1..Len(wire) + m : k \in 1..Len(wire) \/ k = Len(wire) + 1 \/ k > Len(wire) + 1
    BY <1>3
  <2>4. Len(wire) + 1 \in 1..Len(wire) + m /\ \A k \in 1..Len(wire) : k \in 1..Len(wire) + m
    BY <1>3
  <2>5. AllWireFds' = AllWireFds \cup ToSet(outFds)
    BY <1>6, <2>1, <2>2, <2>3, <2>4
  <2> QED BY <1>2, <2>5, EmptySet
<1>8. FdsInOrder'
  <2>1. Increasing(fdQueue') /\ Increasing(outFds')
    BY <1>2, IncreasingNone DEF FdsFit, FdsInOrder
  <2>2. ASSUME NEW k \in DOMAIN wire' PROVE Increasing(wire'[k].fds)
    <3>1. CASE k \in 1..Len(wire)
      BY <1>5, <1>6, <3>1 DEF FdsFit, FdsInOrder
    <3>2. CASE k = Len(wire) + 1
      BY <1>5, <3>2 DEF FdsFit, FdsInOrder
    <3>3. CASE k > Len(wire) + 1
      BY <1>6, <3>3, IncreasingNone
    <3> QED BY <1>3, <1>6, <3>1, <3>2, <3>3
  <2>3. ASSUME NEW k \in DOMAIN wire', NEW l \in DOMAIN wire', k < l
        PROVE  Below(WireFds(k)', WireFds(l)')
    <3>1. CASE l \in 1..Len(wire)
      <4>1. k \in 1..Len(wire)
        BY <1>3, <1>6, <2>3, <3>1
      <4> QED BY <1>6, <2>3, <3>1, <4>1 DEF FdsFit, FdsInOrder
    <3>2. CASE l = Len(wire) + 1
      <4>1. k \in 1..Len(wire)
        BY <1>3, <1>6, <2>3, <3>2
      <4>2. WireFds(k)' \subseteq AllWireFds /\ WireFds(l)' = ToSet(outFds)
        BY <1>6, <3>2, <4>1 DEF AllWireFds
      <4> QED BY <4>2 DEF Below, FdsFit, FdsInOrder
    <3>3. CASE l > Len(wire) + 1
      BY <1>6, <3>3 DEF Below
    <3> QED BY <1>3, <1>6, <3>1, <3>2, <3>3
  <2>4. /\ Below(ToSet(fdQueue'), AllWireFds') /\ Below(ToSet(fdQueue'), ToSet(outFds'))
        /\ Below(AllWireFds', ToSet(outFds'))
    BY <1>7 DEF FdsFit, FdsInOrder, Below
  <2> QED BY <2>1, <2>2, <2>3, <2>4 DEF FdsInOrder
<1>9. OwnFds'
  BY <1>2, <1>7 DEF FdsFit, OwnFds
<1>10. ASSUME NEW n \in DOMAIN sent', n > Len(received'), sent'[n].fd
       PROVE  FdAhead(n)'
  <2>1. FdAhead(n)
    BY <1>2, <1>10 DEF FdsFit
  <2>2. CASE n \in ToSet(fdQueue)
    BY <1>2, <2>2 DEF FdAhead
  <2>3. ASSUME NEW k \in DOMAIN wire, n \in WireFds(k), NoUnitBefore(n, k)
        PROVE  FdAhead(n)'
    <3>1. k \in DOMAIN wire' /\ n \in WireFds(k)'
      BY <1>3, <1>6, <2>3
    <3>2. NoUnitBefore(n, k)'
      <4>1. ASSUME NEW j \in DOMAIN wire', j < k PROVE wire'[j].unit.event # n
        <5>1. j \in 1..Len(wire)
          BY <1>3, <1>6, <4>1
        <5> QED BY <1>5, <1>6, <2>3, <4>1, <5>1 DEF NoUnitBefore
      <4> QED BY <4>1 DEF NoUnitBefore
    <3> QED BY <3>1, <3>2 DEF FdAhead
  <2>4. CASE n \in ToSet(outFds) /\ NoUnitBefore(n, Len(wire) + 1)
    <3>1. PICK k \in DOMAIN wire' : k = Len(wire) + 1
      <4>1. Len(wire) + 1 \in 1..Len(wire) + m
        BY <1>3
      <4> QED BY <1>6, <4>1
    <3>2. n \in WireFds(k)'
      BY <1>6, <2>4, <3>1
    <3>3. NoUnitBefore(n, k)'
      <4>1. ASSUME NEW j \in DOMAIN wire', j < k PROVE wire'[j].unit.event # n
        <5>1. j \in 1..Len(wire) /\ j < Len(wire) + 1
          BY <1>3, <1>6, <3>1, <4>1
        <5> QED BY <1>5, <1>6, <2>4, <4>1, <5>1 DEF NoUnitBefore
      <4> QED BY <4>1 DEF NoUnitBefore
    <3> QED BY <3>2, <3>3 DEF FdAhead
  <2> QED BY <1>2, <2>1, <2>2, <2>3, <2>4 DEF FdAhead
<1> QED BY <1>2, <1>8, <1>9, <1>10 DEF FdsFit

\* What waits for the client's events once it has read the next unit.
LEMMA ArrivedFds ==
  ASSUME TypeOK, FdsFit, wire # <<>>
  PROVE  /\ Arrived \in Seq(Numbers) /\ Increasing(Arrived)
         /\ ToSet(Arrived) = ToSet(fdQueue) \cup WireFds(1)
         /\ Below(ToSet(Arrived), ToSet(outFds))
         /\ \A k \in DOMAIN wire : k > 1 => Below(ToSet(Arrived), WireFds(k))
         /\ \A n \in ToSet(Arrived) : n \in DOMAIN sent /\ n > Len(received) /\ sent[n].fd
<1>1. /\ 1 \in DOMAIN wire /\ Head(wire) = wire[1] /\ WireFds(1) \subseteq AllWireFds
      /\ fdQueue \in Seq(Numbers) /\ wire[1].fds \in Seq(Numbers)
  <2>1. 1 \in DOMAIN wire /\ Head(wire) = wire[1]
    BY FdTypes
  <2> QED BY <2>1, FdTypes DEF AllWireFds
<1>2. PICK f : f = wire[1].fds
  OBVIOUS
<1>3. Arrived = fdQueue \o f /\ ToSet(f) = WireFds(1) /\ f \in Seq(Numbers)
  BY <1>1, <1>2 DEF Arrived, WireFds
<1>4. Increasing(fdQueue) /\ Increasing(f) /\ Below(ToSet(fdQueue), ToSet(f))
  BY <1>1, <1>2, <1>3 DEF FdsFit, FdsInOrder, Below
<1>5. /\ Arrived \in Seq(Numbers) /\ Increasing(Arrived)
      /\ ToSet(Arrived) = ToSet(fdQueue) \cup WireFds(1)
  BY <1>1, <1>3, <1>4, ConcatSets, IncreasingConcat
<1>6. Below(ToSet(Arrived), ToSet(outFds))
  BY <1>1, <1>5 DEF FdsFit, FdsInOrder, Below
<1>7. ASSUME NEW k \in DOMAIN wire, k > 1 PROVE Below(ToSet(Arrived), WireFds(k))
  <2>1. WireFds(k) \subseteq AllWireFds /\ Below(WireFds(1), WireFds(k))
    BY <1>1, <1>7 DEF AllWireFds, FdsFit, FdsInOrder
  <2> QED BY <1>5, <2>1 DEF FdsFit, FdsInOrder, Below
<1>8. \A n \in ToSet(Arrived) : n \in DOMAIN sent /\ n > Len(received) /\ sent[n].fd
  BY <1>1, <1>5 DEF FdsFit, OwnFds
<1> QED BY <1>5, <1>6, <1>7, <1>8

\* The oldest of them is that of the event being read, if it has one.
LEMMA FirstIsOwn ==
  ASSUME TypeOK, InOrder, PartialIsBeginning, FdsFit, Read
  PROVE  /\ sent[Decoding].fd => Arrived # <<>> /\ Head(Arrived) = Decoding
         /\ OwnFd = IF sent[Decoding].fd THEN Decoding ELSE NoFd
<1>1. /\ Decoding \in DOMAIN sent /\ wire # <<>> /\ wire[1].unit.event = Decoding
      /\ Decoding \in Nat /\ Decoding > Len(received) /\ Len(received) \in Nat
      /\ 1 \in DOMAIN wire /\ DOMAIN wire = 1..Len(wire) /\ Len(wire) \in Nat
  <2>1. Decoding \in DOMAIN sent /\ wire # <<>> /\ wire[1].unit = Expected
    BY ReadGoesOn
  <2>2. Expected.event = Decoding
    BY DEF Expected
  <2> QED BY <2>1, <2>2, FdTypes DEF Decoding
<1>2. ASSUME sent[Decoding].fd PROVE Arrived # <<>> /\ Head(Arrived) = Decoding
  <2>1. FdAhead(Decoding)
    BY <1>1, <1>2 DEF FdsFit
  <2>2. ~NoUnitBefore(Decoding, Len(wire) + 1)
    BY <1>1 DEF NoUnitBefore
  <2>3. \A k \in DOMAIN wire : NoUnitBefore(Decoding, k) => k = 1
    BY <1>1 DEF NoUnitBefore
  <2>4. Decoding \in ToSet(fdQueue) \cup WireFds(1)
    BY <2>1, <2>2, <2>3 DEF FdAhead
  <2>5. Decoding \in ToSet(Arrived) /\ Arrived \in Seq(Numbers) /\ Increasing(Arrived)
    BY <1>1, <2>4, ArrivedFds
  <2>6. Arrived # <<>>
    BY <2>5, EmptySet
  <2>7. /\ Decoding = Head(Arrived) \/ Decoding \in ToSet(Tail(Arrived))
        /\ Head(Arrived) \in ToSet(Arrived) /\ Head(Arrived) \in Numbers
        /\ \A x \in ToSet(Tail(Arrived)) : Head(Arrived) < x
    BY <2>5, <2>6, TailSets, IncreasingTail
  <2>8. Head(Arrived) > Len(received)
    BY <1>1, <2>7, ArrivedFds
  <2>9. ~(Head(Arrived) < Decoding)
    BY <1>1, <2>7, <2>8 DEF Decoding, Numbers
  <2> QED BY <2>6, <2>7, <2>9
<1> QED BY <1>2 DEF OwnFd

LEMMA ReadFds ==
  ASSUME TypeOK, TypeOK', InOrder, PartialIsBeginning, FdsFit, Read
  PROVE  FdsFit'
<1>1. /\ wire # <<>> /\ wire \in Seq(Carried) /\ wire' = Tail(wire) /\ Decoding \in DOMAIN sent
      /\ UNCHANGED <<sent, outFds, pendingOutFds, listed>>
      /\ received \in Seq([units : Seq(Unit), fd : Numbers \cup {NoFd}])
      /\ Len(received) \in Nat /\ Decoding = Len(received) + 1
  BY ReadGoesOn, FdTypes DEF Read, queues, TypeOK, Decoding
<1>2. /\ Len(wire') = Len(wire) - 1 /\ Len(wire) \in Nat \ {0}
      /\ DOMAIN wire' = 1..Len(wire) - 1 /\ DOMAIN wire = 1..Len(wire)
      /\ \A k \in 1..Len(wire) - 1 : wire'[k] = wire[k + 1]
  BY <1>1
<1>3. /\ \A k \in 1..Len(wire) - 1 : WireFds(k)' = WireFds(k + 1)
      /\ \A x : x \in AllWireFds' <=> \E k \in 2..Len(wire) : x \in WireFds(k)
  <2>1. \A k \in 1..Len(wire) - 1 : WireFds(k)' = WireFds(k + 1)
    BY <1>2 DEF WireFds
  <2>2. \A x : x \in AllWireFds' <=> \E k \in 1..Len(wire) - 1 : x \in WireFds(k)'
    BY <1>2 DEF AllWireFds
  <2>3. \A k \in 2..Len(wire) : k - 1 \in 1..Len(wire) - 1 /\ (k - 1) + 1 = k
    BY <1>2
  <2>4. \A k \in 1..Len(wire) - 1 : k + 1 \in 2..Len(wire)
    BY <1>2
  <2>5. ASSUME NEW x PROVE x \in AllWireFds' <=> \E k \in 2..Len(wire) : x \in WireFds(k)
    <3>1. ASSUME x \in AllWireFds' PROVE \E k \in 2..Len(wire) : x \in WireFds(k)
      BY <2>1, <2>2, <2>4, <3>1
    <3>2. ASSUME NEW k \in 2..Len(wire), x \in WireFds(k) PROVE x \in AllWireFds'
      <4>1. x \in WireFds(k - 1)'
        BY <2>1, <2>3, <3>2
      <4> QED BY <2>2, <2>3, <4>1
    <3> QED BY <3>1, <3>2
  <2> QED BY <2>1, <2>5
<1>4. /\ Arrived \in Seq(Numbers) /\ Increasing(Arrived)
      /\ ToSet(Arrived) = ToSet(fdQueue) \cup WireFds(1)
      /\ Below(ToSet(Arrived), ToSet(outFds))
      /\ \A k \in 2..Len(wire) : Below(ToSet(Arrived), WireFds(k))
      /\ \A n \in ToSet(Arrived) : n \in DOMAIN sent /\ n > Len(received) /\ sent[n].fd
  <2>1. \A k \in 2..Len(wire) : k \in DOMAIN wire /\ k > 1
    BY <1>2
  <2> QED BY <1>1, <2>1, ArrivedFds
<1>5. \A n \in AllWireFds' \cup ToSet(outFds) :
        /\ n \in DOMAIN sent /\ n > Len(received) /\ sent[n].fd
        /\ \A x \in ToSet(Arrived) : x < n
  <2>1. AllWireFds' \subseteq AllWireFds
    <3>1. \A k \in 2..Len(wire) : k \in DOMAIN wire
      BY <1>2
    <3> QED BY <1>3, <3>1 DEF AllWireFds
  <2>2. \A n \in AllWireFds', x \in ToSet(Arrived) : x < n
    BY <1>3, <1>4 DEF Below
  <2>3. \A n \in ToSet(outFds), x \in ToSet(Arrived) : x < n
    BY <1>4 DEF Below
  <2> QED BY <2>1, <2>2, <2>3 DEF FdsFit, OwnFds
\* Only the decoded event's descriptor goes.
<1>6. /\ Increasing(fdQueue') /\ ToSet(fdQueue') \subseteq ToSet(Arrived)
      /\ \A n \in ToSet(Arrived) : n > Len(received') => n \in ToSet(fdQueue')
      /\ \A n \in ToSet(fdQueue') \cup AllWireFds' \cup ToSet(outFds) : n > Len(received')
      /\ Len(received') >= Len(received) /\ Len(received') \in Nat
  <2>0. DOMAIN sent \subseteq Nat
    BY FdTypes
  <2>1. CASE fdQueue' = Arrived /\ received' = received
    BY <1>1, <1>4, <1>5, <2>1
  <2>2. CASE /\ received' = Append(received, [units |-> UnitsOf(Decoding, sent[Decoding].size),
                                              fd |-> OwnFd])
             /\ fdQueue' = IF sent[Decoding].fd /\ Arrived # <<>> THEN Tail(Arrived)
                           ELSE Arrived
    <3>1. Len(received') = Decoding
      BY <1>1, <2>2
    <3>2. CASE sent[Decoding].fd
      <4>1. /\ Arrived # <<>> /\ Head(Arrived) = Decoding /\ fdQueue' = Tail(Arrived)
        BY <2>2, <3>2, FirstIsOwn
      <4>2. /\ Increasing(Tail(Arrived)) /\ Decoding \in ToSet(Arrived)
            /\ \A x \in ToSet(Tail(Arrived)) : Decoding < x
            /\ ToSet(Arrived) = {Decoding} \cup ToSet(Tail(Arrived))
        BY <1>4, <4>1, TailSets, IncreasingTail
      <4>3. \A n \in AllWireFds' \cup ToSet(outFds) : n \in Nat /\ Decoding < n
        BY <1>5, <2>0, <4>2
      <4>4. \A n \in ToSet(Tail(Arrived)) : n \in Nat
        BY <1>4, <2>0, <4>2
      <4> QED BY <1>1, <2>0, <3>1, <4>1, <4>2, <4>3, <4>4
    <3>3. CASE ~sent[Decoding].fd
      <4>1. fdQueue' = Arrived
        BY <2>2, <3>3
      <4>2. \A n \in ToSet(Arrived) \cup AllWireFds' \cup ToSet(outFds) : n # Decoding
        BY <1>4, <1>5, <3>3
      <4>3. \A n \in ToSet(Arrived) \cup AllWireFds' \cup ToSet(outFds) :
              n \in Nat /\ n > Len(received)
        BY <1>4, <1>5, <2>0
      <4>4. \A n \in ToSet(Arrived) \cup AllWireFds' \cup ToSet(outFds) : n > Decoding
        BY <1>1, <4>2, <4>3
      <4> QED BY <1>1, <1>4, <3>1, <4>1, <4>4
    <3> QED BY <3>2, <3>3
  <2> QED BY <2>1, <2>2, ReadGoesOn
<1>7. FdsInOrder'
  <2>1. \A k \in DOMAIN wire' : Increasing(wire'[k].fds)
    <3>1. ASSUME NEW k \in DOMAIN wire' PROVE Increasing(wire'[k].fds)
      <4>1. k + 1 \in DOMAIN wire /\ wire'[k] = wire[k + 1]
        BY <1>2
      <4> QED BY <4>1 DEF FdsFit, FdsInOrder
    <3> QED BY <3>1
  <2>2. ASSUME NEW k \in DOMAIN wire', NEW l \in DOMAIN wire', k < l
        PROVE  Below(WireFds(k)', WireFds(l)')
    <3>1. /\ k + 1 \in DOMAIN wire /\ l + 1 \in DOMAIN wire /\ k + 1 < l + 1
          /\ WireFds(k)' = WireFds(k + 1) /\ WireFds(l)' = WireFds(l + 1)
      BY <1>2, <1>3, <2>2
    <3> QED BY <3>1 DEF FdsFit, FdsInOrder
  <2>3. Below(ToSet(fdQueue'), AllWireFds') /\ Below(ToSet(fdQueue'), ToSet(outFds'))
    BY <1>1, <1>5, <1>6 DEF Below
  <2>4. Below(AllWireFds', ToSet(outFds'))
    <3>1. AllWireFds' \subseteq AllWireFds
      <4>1. \A k \in 2..Len(wire) : k \in DOMAIN wire
        BY <1>2
      <4> QED BY <1>3, <4>1 DEF AllWireFds
    <3> QED BY <1>1, <3>1 DEF FdsFit, FdsInOrder, Below
  <2>5. Increasing(outFds')
    BY <1>1 DEF FdsFit, FdsInOrder
  <2> QED BY <1>6, <2>1, <2>2, <2>3, <2>4, <2>5 DEF FdsInOrder
<1>8. OwnFds'
  BY <1>1, <1>4, <1>5, <1>6 DEF OwnFds
<1>9. ASSUME NEW n \in DOMAIN sent', n > Len(received'), sent'[n].fd PROVE FdAhead(n)'
  <2>1. FdAhead(n)
    <3>1. n \in DOMAIN sent /\ sent[n].fd /\ n \in Nat
      BY <1>1, <1>9, FdTypes
    <3>2. n > Len(received)
      BY <1>1, <1>6, <1>9, <3>1
    <3> QED BY <3>1, <3>2 DEF FdsFit
  <2>2. n \in ToSet(Arrived) => FdAhead(n)'
    BY <1>6, <1>9 DEF FdAhead
  <2>3. ASSUME NEW k \in DOMAIN wire, n \in WireFds(k), NoUnitBefore(n, k)
        PROVE  FdAhead(n)'
    <3>1. CASE k = 1
      BY <1>4, <2>2, <2>3, <3>1
    <3>2. CASE k # 1
      <4>1. k - 1 \in DOMAIN wire' /\ (k - 1) + 1 = k
        BY <1>2, <3>2
      <4>2. n \in WireFds(k - 1)'
        BY <1>2, <1>3, <2>3, <4>1
      <4>3. NoUnitBefore(n, k - 1)'
        <5>1. ASSUME NEW j \in DOMAIN wire', j < k - 1 PROVE wire'[j].unit.event # n
          <6>1. j + 1 \in DOMAIN wire /\ j + 1 < k /\ wire'[j] = wire[j + 1]
            BY <1>2, <5>1
          <6> QED BY <2>3, <6>1 DEF NoUnitBefore
        <5> QED BY <5>1 DEF NoUnitBefore
      <4> QED BY <4>1, <4>2, <4>3 DEF FdAhead
    <3> QED BY <3>1, <3>2
  <2>4. ASSUME n \in ToSet(outFds) \/ ~listed, NoUnitBefore(n, Len(wire) + 1)
        PROVE  FdAhead(n)'
    <3>1. ASSUME NEW j \in DOMAIN wire' PROVE wire'[j].unit.event # n
      <4>1. j + 1 \in DOMAIN wire /\ j + 1 < Len(wire) + 1 /\ wire'[j] = wire[j + 1]
        BY <1>2
      <4> QED BY <2>4, <4>1 DEF NoUnitBefore
    <3> QED BY <1>1, <2>4, <3>1 DEF FdAhead, NoUnitBefore
  <2> QED BY <1>4, <2>1, <2>2, <2>3, <2>4 DEF FdAhead
<1> QED BY <1>1, <1>7, <1>8, <1>9 DEF FdsFit

LEMMA FdsStep ==
  ASSUME TypeOK, TypeOK', WaitingFit, AliveIsListed, InOrder, PartialIsBeginning, FdsInv,
         [Next]_vars
  PROVE  FdsInv'
<1> SUFFICES ASSUME Easy' PROVE FdsFit'
  BY DEF FdsInv
<1>1. environment' = environment /\ (peerOpen' => peerOpen)
  <2>1. environment' = environment
    BY DEF Next, SendEvent, SendError, FlushSent, FlushRefused, HangUp, Reap, Read, CloseClient,
           vars
  <2>2. peerOpen' = peerOpen \/ peerOpen' = FALSE
    BY DEF Next, SendEvent, SendError, FlushSent, FlushRefused, HangUp, Reap, Read, CloseClient,
           vars
  <2> QED BY <2>1, <2>2
<1>2. Easy /\ FdsFit /\ peerOpen'
  BY <1>1 DEF Easy, EasyRun, FdsInv
<1>3. ASSUME NEW size \in 1..MaxUnits, NEW fd \in BOOLEAN, SendEvent(size, fd)
      PROVE  FdsFit'
  BY <1>2, <1>3, MarshalFds DEF SendEvent, client
<1>4. CASE SendError
  <2>1. 1 \in 1..MaxUnits /\ FALSE \in BOOLEAN
    OBVIOUS
  <2> QED BY <1>2, <1>4, <2>1, MarshalFds DEF SendError, client
<1>5. CASE FlushSent
  BY <1>2, <1>5, FlushFds
<1>6. CASE FlushRefused
  BY <1>2, <1>6 DEF FlushRefused, Easy, EasyRun, Environments
<1>7. CASE HangUp \/ CloseClient
  BY <1>2, <1>7 DEF HangUp, CloseClient, Easy
<1>8. CASE Reap
  <2>1. /\ UNCHANGED <<sent, wire, fdQueue, received>> /\ ~listed'
        /\ outFds' = <<>> /\ pendingOutFds' = <<>>
    BY <1>8 DEF Reap, client
  <2>2. /\ AllWireFds' = AllWireFds /\ \A k \in DOMAIN wire : WireFds(k)' = WireFds(k)
    BY <2>1 DEF AllWireFds, WireFds
  <2>3. FdsInOrder'
    BY <1>2, <2>1, <2>2, IncreasingNone, EmptySet DEF FdsFit, FdsInOrder, Below
  <2>4. OwnFds'
    BY <1>2, <2>1, <2>2, EmptySet DEF FdsFit, OwnFds
  <2>5. \A n \in DOMAIN sent : n > Len(received) /\ sent[n].fd => FdAhead(n)'
    BY <1>2, <2>1, <2>2 DEF FdsFit, FdAhead, NoUnitBefore
  <2> QED BY <2>1, <2>3, <2>4, <2>5 DEF FdsFit
<1>9. CASE Read
  BY <1>2, <1>9, ReadFds
<1>10. CASE UNCHANGED vars
  <2>1. UNCHANGED <<sent, wire, fdQueue, received, outFds, pendingOutFds, listed>>
    BY <1>10 DEF vars, queues, client
  <2>2. /\ AllWireFds' = AllWireFds /\ \A k \in DOMAIN wire : WireFds(k)' = WireFds(k)
    BY <2>1 DEF AllWireFds, WireFds
  <2>3. FdsInOrder' /\ OwnFds'
    BY <1>2, <2>1, <2>2 DEF FdsFit, FdsInOrder, Below, OwnFds
  <2>4. \A n \in DOMAIN sent : n > Len(received) /\ sent[n].fd => FdAhead(n)'
    BY <1>2, <2>1, <2>2 DEF FdsFit, FdAhead, NoUnitBefore
  <2> QED BY <1>2, <2>1, <2>3, <2>4 DEF FdsFit
<1> QED BY <1>3, <1>4, <1>5, <1>6, <1>7, <1>8, <1>9, <1>10 DEF Next

----------------------------------------------------------------------------
(* Theorems.                                                               *)

LEMMA InitIInv == Init => IInv
<1> SUFFICES ASSUME Init PROVE IInv
  OBVIOUS
<1>1. TypeOK
  BY DEF Init, TypeOK
<1>2. OpenAreSent /\ WaitingFit /\ ClosedOnlyWhenSent
  BY DEF Init, OpenAreSent, WaitingFit, Waiting, ClosedOnlyWhenSent
<1>3. FdsHeldOnce
  <2>1. <<>> \o <<>> = <<>> /\ IsInjective(<<>>)
    BY DEF IsInjective
  <2> QED BY <2>1, EmptySet DEF Init, FdsHeldOnce
<1>4. AliveIsListed /\ PartialIsBeginning
  BY DEF Init, AliveIsListed, PartialIsBeginning, Decoding
<1>5. InOrder
  <2>1. FlowLen = 0 /\ Len(sent) = 0 /\ Len(received) = 0 /\ Len(partial) = 0
    BY DEF Init, FlowLen
  <2>2. AfterFlow(0) = FirstOf(Len(sent) + 1)
    BY <2>1 DEF AfterFlow, Expected, Decoding, FirstOf
  <2> QED BY <2>1, <2>2 DEF InOrder
<1>6. FdsInv
  <2>1. /\ DOMAIN wire = {} /\ DOMAIN sent = {}
        /\ ToSet(fdQueue) = {} /\ ToSet(outFds) = {} /\ AllWireFds = {}
    BY EmptySet DEF Init, AllWireFds
  <2> QED BY <2>1, IncreasingNone
          DEF Init, FdsInv, FdsFit, FdsInOrder, OwnFds, Below
<1> QED BY <1>1, <1>2, <1>3, <1>4, <1>5, <1>6 DEF IInv

LEMMA NextIInv == IInv /\ [Next]_vars => IInv'
BY TypeStep, HeldStep, WaitingStep, ClosedStep, ListedStep, OrderStep, FdsStep DEF IInv

\* The inductive invariant holds in every reachable state.
THEOREM Invariant == Spec => []IInv
BY InitIInv, NextIInv, PTL DEF Spec

\* sendEvent, flushClient and the client's reader never mix up bytes,
\* descriptors and events.
THEOREM TypeCorrect == Spec => []TypeOK
<1>1. IInv => TypeOK
  BY DEF IInv
<1> QED BY <1>1, Invariant, PTL

\* However sends are refused or cut short, the descriptors of queued events
\* are open, queued once, and closed with the connection.
THEOREM HeldOnce == Spec => []FdsHeldOnce
<1>1. IInv => FdsHeldOnce
  BY DEF IInv
<1> QED BY <1>1, Invariant, PTL

\* While no more descriptors wait than a send carries, flushClient closes
\* only those the socket took.
THEOREM SentBeforeClosed == Spec => []ClosedOnlyWhenSent
<1>1. IInv => ClosedOnlyWhenSent
  BY DEF IInv
<1> QED BY <1>1, Invariant, PTL

----------------------------------------------------------------------------
(* The safety half of both refinements of Channel.                         *)

SentUnits == [n \in DOMAIN sent |-> UnitsOf(n, sent[n].size)]
GivenUnits == [k \in DOMAIN received |-> received[k].units]

SentWithFds == [n \in DOMAIN sent |-> [units |-> UnitsOf(n, sent[n].size),
                                       fd |-> IF sent[n].fd THEN n ELSE NoFd]]

UnitsAndFd == [units : Seq(Unit), fd : Numbers \cup {NoFd}]

\* A sequence one longer than another and equal up to there.
LEMMA GrownIsAppend ==
  ASSUME NEW S, NEW m \in Nat, NEW f \in [1..m -> S], NEW g \in [1..m + 1 -> S],
         \A n \in 1..m : g[n] = f[n]
  PROVE  g = Append(f, g[m + 1])
<1>1. m + 1 \in 1..m + 1 /\ m + 1 \in Nat
  OBVIOUS
<1>2. PICK x \in S : x = g[m + 1]
  BY <1>1
<1>3. f \in Seq(S) /\ Len(f) = m
  OBVIOUS
<1>4. PICK h : h = Append(f, x)
  OBVIOUS
<1>5. /\ h \in Seq(S) /\ Len(h) = m + 1 /\ h[m + 1] = x
      /\ \A i \in 1..m : h[i] = f[i]
  BY <1>2, <1>3, <1>4
<1>6. h \in [1..m + 1 -> S]
  BY <1>5
<1>7. \A i \in 1..m + 1 : h[i] = g[i]
  <2> TAKE i \in 1..m + 1
  <2>1. i \in 1..m \/ i = m + 1
    OBVIOUS
  <2> QED BY <1>2, <1>5, <2>1
<1>8. h = g
  BY <1>6, <1>7
<1> QED BY <1>2, <1>4, <1>8

\* One more event sent, by either thread.
LEMMA SentOne ==
  ASSUME TypeOK, NEW size \in 1..MaxUnits, NEW fd \in BOOLEAN, Marshal(size, fd)
  PROVE  \E n \in Numbers :
           /\ SentUnits' = Append(SentUnits, UnitsOf(n, size))
           /\ SentWithFds' = Append(SentWithFds, [units |-> UnitsOf(n, size),
                                                  fd |-> IF fd THEN n ELSE NoFd])
<1>m. PICK m : m = Len(sent)
  OBVIOUS
<1>1. /\ m \in Nat /\ DOMAIN sent = 1..m /\ DOMAIN sent' = 1..m + 1 /\ m + 1 \in Numbers
      /\ m + 1 \in 1..m + 1 /\ (\A n \in 1..m : n \in 1..m + 1)
      /\ \A n \in 1..m : sent'[n] = sent[n]
  <2>1. sent \in Seq(Event) /\ m \in Nat /\ DOMAIN sent = 1..m
    BY <1>m DEF TypeOK
  <2>2. /\ sent' \in Seq(Event) /\ Len(sent') = m + 1 /\ m + 1 \in Numbers
        /\ \A n \in DOMAIN sent : sent'[n] = sent[n]
    BY <1>m, MarshalType
  <2> QED BY <2>1, <2>2
<1>2. sent'[m + 1] = [size |-> size, fd |-> fd]
  <2>1. PICK n \in Nat : n = Len(sent) + 1
    BY <1>1, <1>m
  <2> QED BY <1>m, <2>1, MarshalUnits
<1>3. SentUnits' = Append(SentUnits, UnitsOf(m + 1, size))
  <2>1. PICK f : f = SentUnits
    OBVIOUS
  <2>2. PICK g : g = SentUnits'
    OBVIOUS
  <2>3. /\ f = [n \in 1..m |-> f[n]]
        /\ \A n \in 1..m : f[n] = UnitsOf(n, sent[n].size)
    BY <1>1, <2>1 DEF SentUnits
  <2>4. /\ g = [n \in 1..m + 1 |-> g[n]]
        /\ \A n \in 1..m + 1 : g[n] = UnitsOf(n, sent'[n].size)
    BY <1>1, <2>2 DEF SentUnits
  <2>5. \A n \in 1..m : g[n] = f[n]
    BY <1>1, <2>3, <2>4
  <2>6. g[m + 1] = UnitsOf(m + 1, size)
    <3>1. sent'[m + 1].size = size
      BY <1>2
    <3> QED BY <1>1, <2>4, <3>1
  <2>7. g = Append(f, UnitsOf(m + 1, size))
    <3> DEFINE S == {f[n] : n \in 1..m} \cup {g[n] : n \in 1..m + 1}
    <3>1. f \in [1..m -> S] /\ g \in [1..m + 1 -> S]
      BY <2>3, <2>4
    <3> HIDE DEF S
    <3>2. g = Append(f, g[m + 1])
      BY <1>1, <2>5, <3>1, GrownIsAppend
    <3> QED BY <2>6, <3>2
  <2> QED BY <2>1, <2>2, <2>7
<1>4. SentWithFds' = Append(SentWithFds, [units |-> UnitsOf(m + 1, size),
                                          fd |-> IF fd THEN m + 1 ELSE NoFd])
  <2>1. PICK f : f = SentWithFds
    OBVIOUS
  <2>2. PICK g : g = SentWithFds'
    OBVIOUS
  <2>3. /\ f = [n \in 1..m |-> f[n]]
        /\ \A n \in 1..m : f[n] = [units |-> UnitsOf(n, sent[n].size),
                                   fd |-> IF sent[n].fd THEN n ELSE NoFd]
    BY <1>1, <2>1 DEF SentWithFds
  <2>4. /\ g = [n \in 1..m + 1 |-> g[n]]
        /\ \A n \in 1..m + 1 : g[n] = [units |-> UnitsOf(n, sent'[n].size),
                                       fd |-> IF sent'[n].fd THEN n ELSE NoFd]
    BY <1>1, <2>2 DEF SentWithFds
  <2>5. \A n \in 1..m : g[n] = f[n]
    BY <1>1, <2>3, <2>4
  <2>6. PICK x : x = [units |-> UnitsOf(m + 1, size), fd |-> IF fd THEN m + 1 ELSE NoFd]
    OBVIOUS
  <2>7. g[m + 1] = x
    <3>1. sent'[m + 1].size = size /\ sent'[m + 1].fd = fd
      <4>1. PICK e : e = sent'[m + 1]
        OBVIOUS
      <4>2. e = [size |-> size, fd |-> fd]
        BY <1>2, <4>1
      <4>3. e.size = size /\ e.fd = fd
        BY <4>2
      <4> QED BY <4>1, <4>3
    <3>2. g[m + 1] = [units |-> UnitsOf(m + 1, sent'[m + 1].size),
                      fd |-> IF sent'[m + 1].fd THEN m + 1 ELSE NoFd]
      BY <1>1, <2>4
    <3> QED BY <2>6, <3>1, <3>2
  <2>8. g = Append(f, x)
    <3> DEFINE S == {f[n] : n \in 1..m} \cup {g[n] : n \in 1..m + 1}
    <3>1. f \in [1..m -> S] /\ g \in [1..m + 1 -> S]
      BY <2>3, <2>4
    <3> HIDE DEF S
    <3>2. g = Append(f, g[m + 1])
      BY <1>1, <2>5, <3>1, GrownIsAppend
    <3> QED BY <2>7, <3>2
  <2> QED BY <2>1, <2>2, <2>6, <2>8
<1> QED BY <1>1, <1>3, <1>4

DecodesOne == Read /\ received' # received

\* The client decodes the next of the events sent.
LEMMA DecodedOne ==
  ASSUME IInv, DecodesOne
  PROVE  /\ GivenUnits' = Append(GivenUnits, SentUnits[Len(GivenUnits) + 1])
         /\ Len(GivenUnits) < Len(SentUnits)
         /\ Len(received) < Len(SentWithFds)
         /\ EasyRun => received' = Append(received, SentWithFds[Len(received) + 1])
         /\ UNCHANGED <<alive, environment, SentUnits, SentWithFds>>
<1>1. /\ TypeOK /\ InOrder /\ PartialIsBeginning /\ FdsInv /\ Read
      /\ UNCHANGED <<alive, environment, sent>> /\ peerOpen
  BY DEF IInv, DecodesOne, Read
<1>d. PICK d : d = Len(received)
  OBVIOUS
<1>2. /\ d + 1 \in DOMAIN sent /\ d \in Nat /\ DOMAIN sent = 1..Len(sent) /\ Len(sent) \in Nat
      /\ received' = Append(received, [units |-> UnitsOf(d + 1, sent[d + 1].size),
                                       fd |-> OwnFd])
  BY <1>1, <1>d, ReadGoesOn, FdTypes DEF DecodesOne, Decoding
<1>u. PICK u : u = UnitsOf(d + 1, sent[d + 1].size)
  OBVIOUS
<1>3. /\ SentUnits[d + 1] = u /\ Len(SentUnits) = Len(sent) /\ Len(SentWithFds) = Len(sent)
      /\ d < Len(sent)
      /\ SentWithFds[d + 1] = [units |-> u, fd |-> IF sent[d + 1].fd THEN d + 1 ELSE NoFd]
  BY <1>2, <1>u DEF SentUnits, SentWithFds
<1>h. PICK h : h = [units |-> u, fd |-> OwnFd]
  OBVIOUS
<1>4. /\ DOMAIN received = 1..d /\ DOMAIN received' = 1..d + 1
      /\ \A k \in 1..d : received'[k] = received[k]
      /\ received'[d + 1] = h /\ h.units = u
  <2>1. received' = Append(received, h) /\ h.units = u
    BY <1>2, <1>u, <1>h
  <2>2. received \in Seq(UnitsAndFd)
    BY <1>1 DEF TypeOK, UnitsAndFd
  <2> DEFINE S == UnitsAndFd \cup {h}
  <2>3. received \in Seq(S) /\ h \in S
    BY <2>2
  <2> HIDE DEF S
  <2> QED BY <1>2, <1>d, <2>1, <2>3
<1>5. /\ \A k \in 1..d : received[k].units \in Seq(Unit)
      /\ \A k \in 1..d + 1 : received'[k].units \in Seq(Unit)
  <2>1. received \in Seq(UnitsAndFd) /\ received' \in Seq(UnitsAndFd)
    BY <1>1, ReadType DEF TypeOK, UnitsAndFd
  <2>2. /\ \A k \in 1..d : received[k] \in UnitsAndFd
        /\ \A k \in 1..d + 1 : received'[k] \in UnitsAndFd
    <3>1. ASSUME NEW q \in Seq(UnitsAndFd) PROVE \A k \in DOMAIN q : q[k] \in UnitsAndFd
      OBVIOUS
    <3>2. /\ \A k \in DOMAIN received : received[k] \in UnitsAndFd
          /\ \A k \in DOMAIN received' : received'[k] \in UnitsAndFd
      BY <2>1, <3>1
    <3> QED BY <1>4, <3>2
  <2> QED BY <2>2 DEF UnitsAndFd
<1>6. GivenUnits' = Append(GivenUnits, u) /\ Len(GivenUnits) = d
  <2>1. PICK f : f = GivenUnits
    OBVIOUS
  <2>2. PICK g : g = GivenUnits'
    OBVIOUS
  <2>3. f = [k \in 1..d |-> received[k].units]
    BY <1>4, <2>1 DEF GivenUnits
  <2>4. g = [k \in 1..d + 1 |-> received'[k].units]
    BY <1>4, <2>2 DEF GivenUnits
  <2>5. /\ d + 1 \in 1..d + 1 /\ \A k \in 1..d : k \in 1..d + 1
    BY <1>2
  <2>6. \A n \in 1..d : g[n] = f[n]
    BY <1>4, <2>3, <2>4, <2>5
  <2>7. g[d + 1] = u
    BY <1>4, <2>4, <2>5
  <2>8. f = [n \in 1..d |-> f[n]] /\ g = [n \in 1..d + 1 |-> g[n]]
    BY <2>3, <2>4
  <2>9. g = Append(f, u)
    <3>1. d \in Nat
      BY <1>2
    <3>2. f \in [1..d -> Seq(Unit)] /\ g \in [1..d + 1 -> Seq(Unit)]
      BY <1>5, <2>3, <2>4
    <3>3. g = Append(f, g[d + 1])
      BY <2>6, <3>1, <3>2, GrownIsAppend
    <3> QED BY <2>7, <3>3
  <2>10. Len(f) = d
    BY <1>2, <2>3
  <2> QED BY <2>1, <2>2, <2>9, <2>10
<1>7. EasyRun => received' = Append(received, SentWithFds[d + 1])
  <2> SUFFICES ASSUME EasyRun PROVE received' = Append(received, SentWithFds[d + 1])
    OBVIOUS
  <2>1. FdsFit
    BY <1>1 DEF FdsInv, Easy
  <2>2. OwnFd = IF sent[d + 1].fd THEN d + 1 ELSE NoFd
    BY <1>1, <1>d, <2>1, FirstIsOwn DEF Decoding
  <2> QED BY <1>2, <1>3, <1>u, <2>2
<1>8. UNCHANGED <<SentUnits, SentWithFds>>
  BY <1>1 DEF SentUnits, SentWithFds
<1> QED BY <1>1, <1>3, <1>6, <1>7, <1>8, <1>d

\* The other steps send and decode nothing, and at most end the connection.
LEMMA OthersKeep ==
  ASSUME TypeOK, [Next]_vars, ~DecodesOne, ~SendError,
         ~\E size \in 1..MaxUnits, fd \in BOOLEAN : SendEvent(size, fd)
  PROVE  /\ UNCHANGED <<received, SentUnits, SentWithFds, GivenUnits>>
         /\ alive' = alive \/ (alive /\ alive' = FALSE)
<1>1. UNCHANGED <<received, sent>>
  BY DEF Next, FlushSent, FlushRefused, HangUp, Reap, Read, CloseClient, DecodesOne, vars,
         client
<1>2. alive' = alive \/ (alive /\ alive' = FALSE)
  BY DEF Next, FlushSent, FlushRefused, HangUp, Reap, Read, CloseClient, vars
<1> QED BY <1>1, <1>2 DEF SentUnits, SentWithFds, GivenUnits

LEMMA BytesStep ==
  ASSUME IInv, [Next]_vars
  PROVE  [Bytes!Next]_<<alive, SentUnits, GivenUnits>>
<1>0. TypeOK
  BY DEF IInv
<1>1. ASSUME NEW size \in 1..MaxUnits, NEW fd \in BOOLEAN, Marshal(size, fd), alive,
             UNCHANGED received, alive' = alive \/ alive' = FALSE
      PROVE  Bytes!Next
  <2>1. PICK n \in Numbers : SentUnits' = Append(SentUnits, UnitsOf(n, size))
    BY <1>0, <1>1, SentOne
  <2>2. GivenUnits' = GivenUnits
    BY <1>1 DEF GivenUnits
  <2>3. Bytes!Put(UnitsOf(n, size)) \/ Bytes!PutLast(UnitsOf(n, size))
    BY <1>1, <2>1, <2>2 DEF Bytes!Put, Bytes!PutLast, SentUnits, GivenUnits
  <2>4. UnitsOf(n, size) \in {UnitsOf(i, l) : i \in Numbers, l \in 1..MaxUnits}
    OBVIOUS
  <2> QED BY <2>3, <2>4 DEF Bytes!Next
<1>2. ASSUME NEW size \in 1..MaxUnits, NEW fd \in BOOLEAN, SendEvent(size, fd)
      PROVE  Bytes!Next
  BY <1>1, <1>2 DEF SendEvent, client
<1>3. CASE SendError
  <2>1. 1 \in 1..MaxUnits /\ FALSE \in BOOLEAN
    OBVIOUS
  <2> QED BY <1>1, <1>3, <2>1 DEF SendError, client
<1>4. CASE DecodesOne
  <2>1. /\ GivenUnits' = Append(GivenUnits, SentUnits[Len(GivenUnits) + 1])
        /\ Len(GivenUnits) < Len(SentUnits)
        /\ UNCHANGED <<alive, SentUnits>>
    BY <1>4, DecodedOne
  <2>2. Bytes!Deliver
    BY <2>1 DEF Bytes!Deliver, SentUnits, GivenUnits
  <2> QED BY <2>2 DEF Bytes!Next
<1>5. CASE ~DecodesOne /\ ~SendError
           /\ ~\E size \in 1..MaxUnits, fd \in BOOLEAN : SendEvent(size, fd)
  <2>1. UNCHANGED <<SentUnits, GivenUnits>> /\ (alive' = alive \/ (alive /\ alive' = FALSE))
    BY <1>0, <1>5, OthersKeep
  <2>2. CASE alive /\ alive' = FALSE
    <3>1. Bytes!Close
      BY <2>1, <2>2 DEF Bytes!Close, SentUnits, GivenUnits
    <3> QED BY <3>1 DEF Bytes!Next
  <2> QED BY <2>1, <2>2
<1> QED BY <1>2, <1>3, <1>4, <1>5

(***************************************************************************)
(* Whatever the socket takes of each flush and refuses, the client decodes *)
(* the events of sendEvent and sendError whole, in order and once each:    *)
(* the safety half of DeliversBytes.                                       *)
(***************************************************************************)
THEOREM DeliveredInOrder ==
  Spec => Bytes!Init /\ [][Bytes!Next]_<<alive, SentUnits, GivenUnits>>
<1>1. Init => Bytes!Init
  BY DEF Init, Bytes!Init
<1>2. IInv /\ [Next]_vars => [Bytes!Next]_<<alive, SentUnits, GivenUnits>>
  BY BytesStep
<1> QED BY <1>1, <1>2, Invariant, PTL DEF Spec

EasySent == IF EasyRun THEN SentWithFds ELSE <<>>
EasyGiven == IF EasyRun THEN received ELSE <<>>

LEMMA WithFdsStep ==
  ASSUME IInv, [Next]_vars
  PROVE  [WithFds!Next]_<<EasyRun => alive, EasySent, EasyGiven>>
<1>0. TypeOK /\ alive \in BOOLEAN
  BY DEF IInv, TypeOK
<1>e. environment' = environment
  BY DEF Next, SendEvent, SendError, FlushSent, FlushRefused, HangUp, Reap, Read, CloseClient,
         vars
<1>f. EasyRun' = EasyRun /\ EasyRun \in BOOLEAN
  BY <1>e DEF EasyRun
<1>1. CASE ~EasyRun
  <2>1. EasySent = <<>> /\ EasyGiven = <<>> /\ EasySent' = <<>> /\ EasyGiven' = <<>>
    BY <1>1, <1>f DEF EasySent, EasyGiven
  <2>2. (EasyRun => alive)' = (EasyRun => alive)
    BY <1>1, <1>f
  <2> QED BY <2>1, <2>2
<1>2. CASE EasyRun
  <2>1. /\ EasySent = SentWithFds /\ EasyGiven = received
        /\ EasySent' = SentWithFds' /\ EasyGiven' = received'
    BY <1>2, <1>f DEF EasySent, EasyGiven
  <2>2. ASSUME NEW size \in 1..MaxUnits, NEW fd \in BOOLEAN, Marshal(size, fd), alive,
               UNCHANGED received, alive' = alive \/ alive' = FALSE
        PROVE  WithFds!Next
    <3>1. PICK n \in Numbers :
            SentWithFds' = Append(SentWithFds, [units |-> UnitsOf(n, size),
                                                fd |-> IF fd THEN n ELSE NoFd])
      BY <1>0, <2>2, SentOne
    <3>2. PICK m : m = [units |-> UnitsOf(n, size), fd |-> IF fd THEN n ELSE NoFd]
      OBVIOUS
    <3>3. m \in [units : {UnitsOf(i, l) : i \in Numbers, l \in 1..MaxUnits},
                 fd : Numbers \cup {NoFd}]
      BY <3>2
    <3>4. /\ EasySent' = Append(EasySent, m) /\ EasyGiven' = EasyGiven /\ (EasyRun => alive)
      BY <2>1, <2>2, <3>1, <3>2
    <3>5. CASE alive' = alive
      <4>1. (EasyRun => alive)' = (EasyRun => alive)
        BY <1>f, <3>5
      <4>2. WithFds!Put(m)
        BY <3>4, <4>1 DEF WithFds!Put, EasySent, EasyGiven, SentWithFds
      <4> QED BY <3>3, <4>2 DEF WithFds!Next
    <3>6. CASE alive' = FALSE
      <4>1. (EasyRun => alive)' = FALSE
        BY <1>2, <1>f, <3>6
      <4>2. WithFds!PutLast(m)
        BY <3>4, <4>1 DEF WithFds!PutLast, EasySent, EasyGiven, SentWithFds
      <4> QED BY <3>3, <4>2 DEF WithFds!Next
    <3> QED BY <2>2, <3>5, <3>6
  <2>3. ASSUME NEW size \in 1..MaxUnits, NEW fd \in BOOLEAN, SendEvent(size, fd)
        PROVE  WithFds!Next
    BY <2>2, <2>3 DEF SendEvent, client
  <2>4. CASE SendError
    <3>1. 1 \in 1..MaxUnits /\ FALSE \in BOOLEAN
      OBVIOUS
    <3> QED BY <2>2, <2>4, <3>1 DEF SendError, client
  <2>5. CASE DecodesOne
    <3>1. /\ Len(received) < Len(SentWithFds)
          /\ received' = Append(received, SentWithFds[Len(received) + 1])
          /\ UNCHANGED <<alive, SentWithFds>>
      BY <1>2, <2>5, DecodedOne
    <3>2. /\ Len(EasyGiven) < Len(EasySent)
          /\ EasyGiven' = Append(EasyGiven, EasySent[Len(EasyGiven) + 1])
          /\ EasySent' = EasySent
          /\ (EasyRun => alive)' = (EasyRun => alive)
      BY <1>f, <2>1, <3>1
    <3>3. WithFds!Deliver
      BY <3>2 DEF WithFds!Deliver, EasySent, EasyGiven, SentWithFds
    <3> QED BY <3>3 DEF WithFds!Next
  <2>6. CASE ~DecodesOne /\ ~SendError
             /\ ~\E size \in 1..MaxUnits, fd \in BOOLEAN : SendEvent(size, fd)
    <3>1. /\ UNCHANGED <<SentWithFds, received>>
          /\ alive' = alive \/ (alive /\ alive' = FALSE)
      BY <1>0, <2>6, OthersKeep
    <3>2. UNCHANGED <<EasySent, EasyGiven>>
      BY <2>1, <3>1
    <3>3. CASE alive' = alive
      <4>1. (EasyRun => alive)' = (EasyRun => alive)
        BY <1>f, <3>3
      <4> QED BY <3>2, <4>1
    <3>4. CASE alive /\ alive' = FALSE
      <4>1. (EasyRun => alive) /\ (EasyRun => alive)' = FALSE
        BY <1>2, <1>f, <3>4
      <4>2. WithFds!Close
        BY <3>2, <4>1 DEF WithFds!Close, EasySent, EasyGiven, SentWithFds
      <4> QED BY <4>2 DEF WithFds!Next
    <3> QED BY <3>1, <3>3, <3>4
  <2> QED BY <2>3, <2>4, <2>5, <2>6
<1> QED BY <1>1, <1>2

(***************************************************************************)
(* While the client reads in time and no more descriptors wait than one    *)
(* send carries, each event comes with its own: the safety half of         *)
(* DeliversWithFds.                                                        *)
(***************************************************************************)
THEOREM DeliveredWithFds ==
  Spec => WithFds!Init /\ [][WithFds!Next]_<<EasyRun => alive, EasySent, EasyGiven>>
<1>1. Init => WithFds!Init
  BY DEF Init, WithFds!Init
<1>2. IInv /\ [Next]_vars => [WithFds!Next]_<<EasyRun => alive, EasySent, EasyGiven>>
  BY WithFdsStep
<1> QED BY <1>1, <1>2, Invariant, PTL DEF Spec
=============================================================================
