--------------------------- MODULE IncomingProofs ---------------------------
(***************************************************************************)
(* Requests reach their handlers whole, in order and each with its own     *)
(* descriptor, for any number and size of requests, any buffer and any     *)
(* bound on the descriptors of one read.                                   *)
(***************************************************************************)
EXTENDS Incoming, SequenceTheorems, WellFoundedInduction, TLAPS

LEMMA Bounds ==
  /\ MaxRequests \in Nat
  /\ MaxUnits \in Nat \ {0} /\ BufferSize \in Nat \ {0}
  /\ MaxIncoming \in Nat \ {0} /\ MaxFds \in Nat \ {0}
BY BoundsAssumption

USE Bounds DEF NoFd

----------------------------------------------------------------------------
(* The inductive invariant.                                                *)

(***************************************************************************)
(* Bytes. The units under way, from the oldest the loop has not dispatched *)
(* to the youngest the client has not sent, are those of the requests not  *)
(* dispatched yet, one request behind the other: request n behind its      *)
(* first start[n] units.                                                   *)
(***************************************************************************)
Stream == in \o [k \in DOMAIN wire |-> wire[k].unit] \o clientOut

Waiting == Len(handled) + 1 .. Len(requests)

Laid(start, stream, first, sizes) ==
  /\ first <= Len(sizes) + 1
  /\ start[first] = 0
  /\ start[Len(sizes) + 1] = Len(stream)
  /\ \A n \in first..Len(sizes) :
       /\ start[n + 1] = start[n] + sizes[n].size
       /\ start[n] >= 0
       /\ start[n] + sizes[n].size <= Len(stream)
       /\ \A k \in 1..sizes[n].size :
            stream[start[n] + k] = [request |-> n, part |-> k]
       /\ \A m \in first..Len(sizes) : n < m => start[n] + sizes[n].size <= start[m]

(***************************************************************************)
(* Descriptors. Every one is younger than those before it, on the way from *)
(* the client to the handlers.                                             *)
(***************************************************************************)
Increasing(s) == \A i, j \in DOMAIN s : i < j => s[i] < s[j]
Below(A, B) == \A x \in A, y \in B : x < y

WireFds(k) == ToSet(wire[k].fds)
OnWire == UNION {WireFds(k) : k \in DOMAIN wire}

FdsInOrder ==
  /\ Increasing(Queued) /\ Increasing(clientFds)
  /\ \A k \in DOMAIN wire : Increasing(wire[k].fds)
  /\ \A k, l \in DOMAIN wire : k < l => Below(WireFds(k), WireFds(l))
  /\ Below(Kept, ToSet(Queued)) /\ Below(Kept, OnWire) /\ Below(Kept, ToSet(clientFds))
  /\ Below(ToSet(Queued), OnWire) /\ Below(ToSet(Queued), ToSet(clientFds))
  /\ Below(OnWire, ToSet(clientFds))
  /\ Kept \cup ToSet(Queued) \cup OnWire \cup ToSet(clientFds) \subseteq DOMAIN requests

(***************************************************************************)
(* A chunk ends before another that has descriptors begins.                *)
(***************************************************************************)
ChunksEnd ==
  /\ wire # <<>> => wire[Len(wire)].end
  /\ \A i, j \in DOMAIN wire :
       i < j /\ wire[i].fds # <<>> /\ wire[j].fds # <<>> =>
         \E k \in i..j-1 : wire[k].end

(***************************************************************************)
(* While few descriptors are sent at once none is lost: each is queued, or *)
(* on the wire no later than the first unit of its request, or not yet     *)
(* sent and neither is that unit.                                          *)
(***************************************************************************)
Few == "fewFds" \in environment

FewAtOnce ==
  Few => /\ Len(clientFds) <= MaxFds
         /\ \A k \in DOMAIN wire : Len(wire[k].fds) <= MaxFds

OwnFds ==
  Few /\ alive =>
    \A n \in ToSet(Queued) \cup OnWire \cup ToSet(clientFds) :
      n \in Waiting /\ requests[n].fd

FdsAhead(start) ==
  Few /\ alive =>
    \A n \in Waiting : requests[n].fd =>
      \/ n \in ToSet(Queued)
      \/ \E j \in DOMAIN wire : n \in WireFds(j) /\ Len(in) + j <= start[n] + 1
      \/ n \in ToSet(clientFds) /\ Len(in) + Len(wire) <= start[n]

\* A read and the longest request begun before it: 16384 and 65535 bytes in
\* the code, of the 4 MiB a client may have waiting.
RoomForRead == MaxUnits + BufferSize <= MaxIncoming + 2

\* Short reads leave no descriptor behind when the connection is killed.
Short == "shortReads" \in environment /\ RoomForRead

AtRest ==
  /\ pc = "poll" /\ alive => inFds = <<>>
  /\ Short => /\ Len(wire) < BufferSize
              /\ pc # "reading"
              /\ pc = "poll" /\ alive => Len(in) < MaxUnits
              /\ ~alive => inFds = <<>>

OpenHeld == listed \/ Short => open = ToSet(Queued) \cup Kept

Starts == [1..MaxRequests + 1 -> Int]

LaidOut ==
  /\ Len(requests) <= MaxRequests
  /\ \E start \in Starts :
       Laid(start, Stream, Len(handled) + 1, requests) /\ FdsAhead(start)

FdsInv == FdsInOrder /\ ChunksEnd /\ FewAtOnce /\ OwnFds

IInv == TypeOK /\ LaidOut /\ FdsInv /\ AtRest /\ OpenHeld /\ KilledForCause

----------------------------------------------------------------------------
(* Facts about minima and sequences.                                       *)

LEMMA LeastOf ==
  ASSUME NEW S \in SUBSET Nat, S # {}
  PROVE  /\ Min(S) \in S
         /\ \A y \in S : Min(S) <= y
<1> DEFINE R == OpToRel(<, Nat)
<1>1. IsWellFoundedOn(R, Nat)
  BY NatLessThanWellFounded
<1>2. \A x, y \in Nat : x < y => <<x, y>> \in R
  BY DEF OpToRel
<1> HIDE DEF R
<1>3. PICK x \in S : \A y \in S : <<y, x>> \notin R
  BY <1>1, WFMin
<1>4. \A y \in S : x <= y
  <2> TAKE y \in S
  <2>1. x \in Nat /\ y \in Nat
    OBVIOUS
  <2>2. ~(y < x)
    BY <1>2, <1>3, <2>1, Zenon
  <2> QED BY <2>1, <2>2
<1> QED BY <1>3, <1>4 DEF Min

LEMMA ToSetOf ==
  ASSUME NEW S, NEW s \in Seq(S)
  PROVE  /\ ToSet(s) \subseteq S
         /\ \A x : x \in ToSet(s) <=> \E i \in 1..Len(s) : s[i] = x
BY DEF ToSet

LEMMA ToSetOfNone == ToSet(<<>>) = {}
BY DEF ToSet

LEMMA ToSetOfConcat ==
  ASSUME NEW S, NEW p \in Seq(S), NEW q \in Seq(S)
  PROVE  ToSet(p \o q) = ToSet(p) \cup ToSet(q)
<1>1. /\ p \o q \in Seq(S)
      /\ Len(p \o q) = Len(p) + Len(q)
      /\ \A i \in 1..Len(p) : (p \o q)[i] = p[i]
      /\ \A i \in 1..Len(q) : (p \o q)[Len(p) + i] = q[i]
      /\ DOMAIN (p \o q) = 1..Len(p \o q)
  OBVIOUS
<1>2. ASSUME NEW x \in ToSet(p \o q) PROVE x \in ToSet(p) \cup ToSet(q)
  <2>1. PICK i \in 1..Len(p \o q) : x = (p \o q)[i]
    BY <1>1 DEF ToSet
  <2>2. CASE i <= Len(p)
    BY <1>1, <2>1, <2>2 DEF ToSet
  <2>3. CASE i > Len(p)
    <3>1. i - Len(p) \in 1..Len(q) /\ i = Len(p) + (i - Len(p))
      BY <1>1, <2>1, <2>3
    <3>2. x = q[i - Len(p)]
      BY <1>1, <2>1, <3>1
    <3> QED BY <3>1, <3>2 DEF ToSet
  <2> QED BY <1>1, <2>1, <2>2, <2>3
<1>3. ASSUME NEW x \in ToSet(p) PROVE x \in ToSet(p \o q)
  BY <1>1 DEF ToSet
<1>4. ASSUME NEW x \in ToSet(q) PROVE x \in ToSet(p \o q)
  <2>1. PICK i \in 1..Len(q) : x = q[i]
    BY DEF ToSet
  <2>2. Len(p) + i \in DOMAIN (p \o q) /\ x = (p \o q)[Len(p) + i]
    BY <1>1, <2>1
  <2> QED BY <2>2 DEF ToSet
<1> QED BY <1>2, <1>3, <1>4

LEMMA NumbersConcat3 ==
  ASSUME NEW p \in Seq(Numbers), NEW q \in Seq(Numbers), NEW r \in Seq(Numbers)
  PROVE  p \o (q \o r) = (p \o q) \o r
BY ConcatAssociative, SMTT(30)

LEMMA IncreasingConcat ==
  ASSUME NEW p \in Seq(Numbers), NEW q \in Seq(Numbers),
         Increasing(p), Increasing(q), Below(ToSet(p), ToSet(q))
  PROVE  Increasing(p \o q)
<1>1. \A i \in DOMAIN p, j \in DOMAIN q : p[i] < q[j]
  BY DEF Below, ToSet
<1>2. ASSUME NEW i \in 1..Len(p) + Len(q), NEW j \in 1..Len(p) + Len(q), i < j
      PROVE  (p \o q)[i] < (p \o q)[j]
  <2>1. CASE j <= Len(p)
    BY <1>2, <2>1 DEF Increasing
  <2>2. CASE i > Len(p)
    <3>1. i - Len(p) \in DOMAIN q /\ j - Len(p) \in DOMAIN q
      BY <1>2, <2>2
    <3>2. (p \o q)[i] = q[i - Len(p)] /\ (p \o q)[j] = q[j - Len(p)]
      BY <1>2, <2>2
    <3> QED BY <1>2, <3>1, <3>2 DEF Increasing
  <2>3. CASE i <= Len(p) /\ j > Len(p)
    <3>1. i \in DOMAIN p /\ j - Len(p) \in DOMAIN q
      BY <2>3
    <3>2. (p \o q)[i] = p[i] /\ (p \o q)[j] = q[j - Len(p)]
      BY <2>3
    <3> QED BY <1>1, <3>1, <3>2
  <2> QED BY <2>1, <2>2, <2>3
<1>3. DOMAIN (p \o q) = 1..Len(p) + Len(q)
  OBVIOUS
<1> QED BY <1>2, <1>3 DEF Increasing

LEMMA HeadAndTail ==
  ASSUME NEW s \in Seq(Numbers), s # <<>>, Increasing(s)
  PROVE  /\ Head(s) \in Numbers /\ Tail(s) \in Seq(Numbers)
         /\ Increasing(Tail(s))
         /\ ToSet(s) = {Head(s)} \cup ToSet(Tail(s))
         /\ \A x \in ToSet(Tail(s)) : Head(s) < x
<1>1. /\ Tail(s) \in Seq(Numbers) /\ Len(Tail(s)) = Len(s) - 1
      /\ \A i \in 1..Len(Tail(s)) : Tail(s)[i] = s[i + 1]
      /\ Head(s) = s[1] /\ Len(s) \in Nat \ {0}
      /\ DOMAIN Tail(s) = 1..Len(Tail(s))
  OBVIOUS
<1>2. Increasing(Tail(s))
  BY <1>1 DEF Increasing
<1>3. ASSUME NEW x \in ToSet(Tail(s)) PROVE x \in ToSet(s) /\ Head(s) < x
  <2>1. PICK i \in 1..Len(Tail(s)) : x = s[i + 1]
    BY <1>1 DEF ToSet
  <2>2. i + 1 \in DOMAIN s /\ 1 \in DOMAIN s /\ 1 < i + 1
    BY <1>1
  <2> QED BY <1>1, <2>1, <2>2 DEF ToSet, Increasing
<1>4. ASSUME NEW x \in ToSet(s) PROVE x = Head(s) \/ x \in ToSet(Tail(s))
  <2>1. PICK i \in 1..Len(s) : x = s[i]
    BY DEF ToSet
  <2>2. CASE i = 1
    BY <1>1, <2>1, <2>2
  <2>3. CASE i # 1
    <3>1. i - 1 \in 1..Len(Tail(s)) /\ x = Tail(s)[i - 1]
      BY <1>1, <2>1, <2>3
    <3>2. x \in ToSet(Tail(s))
      BY <1>1, <3>1 DEF ToSet
    <3> QED BY <3>2
  <2> QED BY <2>2, <2>3
<1>5. Head(s) \in ToSet(s)
  BY <1>1 DEF ToSet
<1> QED BY <1>1, <1>2, <1>3, <1>4, <1>5

----------------------------------------------------------------------------
(* How requests lie behind one another in a stream of units.               *)

LEMMA UnitsTyped ==
  ASSUME NEW n \in Numbers, NEW size \in 1..MaxUnits
  PROVE  /\ UnitsOf(n, size) \in Seq(Unit)
         /\ Len(UnitsOf(n, size)) = size
         /\ \A k \in 1..size : UnitsOf(n, size)[k] = [request |-> n, part |-> k]
BY DEF UnitsOf, Unit, Numbers

LEMMA UnitsConcat ==
  ASSUME NEW p \in Seq(Unit), NEW q \in Seq(Unit)
  PROVE  /\ p \o q \in Seq(Unit)
         /\ Len(p \o q) = Len(p) + Len(q)
         /\ \A i \in 1..Len(p) : (p \o q)[i] = p[i]
         /\ \A i \in 1..Len(q) : (p \o q)[Len(p) + i] = q[i]
OBVIOUS

LEMMA UnitsConcat3 ==
  ASSUME NEW p \in Seq(Unit), NEW q \in Seq(Unit), NEW r \in Seq(Unit)
  PROVE  (p \o q) \o r = p \o (q \o r)
BY ConcatAssociative, SMTT(30)

\* A new request lies behind all others.
LEMMA LaidGrows ==
  ASSUME NEW s \in Seq(Unit), NEW R \in Seq(Request), NEW first \in Nat \ {0},
         NEW start \in Starts, Laid(start, s, first, R),
         NEW r \in Request, Len(R) < MaxRequests,
         NEW next, next = [start EXCEPT ![Len(R) + 2] = Len(s) + r.size]
  PROVE  /\ next \in Starts
         /\ Laid(next, s \o UnitsOf(Len(R) + 1, r.size), first, Append(R, r))
<1>m. PICK m : m = Len(R)
  OBVIOUS
<1>z. PICK z : z = r.size
  OBVIOUS
<1>l. PICK length : length = Len(s)
  OBVIOUS
<1>u. PICK u : u = UnitsOf(m + 1, z)
  OBVIOUS
<1>t. PICK t : t = s \o u
  OBVIOUS
<1>1. /\ m \in Nat /\ m + 1 \in Numbers /\ z \in 1..MaxUnits
      /\ z \in Nat \ {0} /\ m < MaxRequests /\ length \in Nat
  BY <1>m, <1>z, <1>l DEF Numbers, Request
<1>2. /\ u \in Seq(Unit) /\ Len(u) = z
      /\ \A k \in 1..z : u[k] = [request |-> m + 1, part |-> k]
  BY <1>1, <1>u, UnitsTyped
<1>3. /\ Len(t) = length + z
      /\ \A i \in 1..length : t[i] = s[i]
      /\ \A k \in 1..z : t[length + k] = [request |-> m + 1, part |-> k]
  <2>1. /\ Len(t) = Len(s) + Len(u)
        /\ \A i \in 1..Len(s) : t[i] = s[i]
        /\ \A i \in 1..Len(u) : t[Len(s) + i] = u[i]
    BY <1>2, <1>t, UnitsConcat, ZenonT(40)
  <2> QED BY <1>2, <1>l, <2>1
<1>4. /\ next \in Starts
      /\ \A n \in 1..MaxRequests + 1 : n # m + 2 => next[n] = start[n]
      /\ next[m + 2] = length + z
  BY <1>1, <1>m, <1>z, <1>l, SMTT(30) DEF Starts
<1>q. PICK Q : Q = Append(R, r)
  OBVIOUS
<1>5. /\ Len(Q) = m + 1
      /\ \A n \in 1..m : Q[n] = R[n]
      /\ Q[m + 1].size = z
  BY <1>1, <1>m, <1>q, <1>z
<1>6. /\ first <= m + 1 /\ start[first] = 0 /\ start[m + 1] = length
      /\ \A n \in first..m : /\ start[n + 1] = start[n] + R[n].size
                             /\ start[n] >= 0
                             /\ start[n] + R[n].size <= length
      /\ \A n \in first..m : \A k \in 1..R[n].size :
           s[start[n] + k] = [request |-> n, part |-> k]
      /\ \A n, l \in first..m : n < l => start[n] + R[n].size <= start[l]
  BY <1>m, <1>l DEF Laid
<1>7. \A n \in first..m : R[n].size \in 1..MaxUnits
  <2>1. \A n \in first..m : R[n] \in Request
    BY <1>m
  <2> QED BY <2>1 DEF Request
<1>8. /\ first <= m + 2 /\ next[first] = 0 /\ next[m + 2] = Len(t)
  BY <1>1, <1>3, <1>4, <1>6
<1>9. ASSUME NEW n \in first..m + 1
      PROVE  /\ next[n + 1] = next[n] + Q[n].size
             /\ next[n] >= 0
             /\ next[n] + Q[n].size <= Len(t)
             /\ \A k \in 1..Q[n].size :
                  t[next[n] + k] = [request |-> n, part |-> k]
             /\ \A l \in first..m + 1 :
                  n < l => next[n] + Q[n].size <= next[l]
  <2>0. n \in Nat
    OBVIOUS
  <2>1. CASE n <= m
    <3>1. /\ Q[n] = R[n] /\ next[n] = start[n] /\ next[n + 1] = start[n + 1]
          /\ n \in first..m
      BY <1>1, <1>4, <1>5, <2>0, <2>1
    <3>2. start[n] \in Int
      BY <1>1, <2>0, <2>1 DEF Starts
    <3>3. \A k \in 1..R[n].size :
            t[next[n] + k] = [request |-> n, part |-> k]
      <4> TAKE k \in 1..R[n].size
      <4>1. k \in Nat /\ R[n].size \in Nat
        BY <1>7, <3>1
      <4>2. /\ s[start[n] + k] = [request |-> n, part |-> k]
            /\ start[n] >= 0 /\ start[n] + R[n].size <= length
        BY <1>6, <3>1
      <4>3. start[n] + k \in 1..length
        BY <1>1, <3>2, <4>1, <4>2, SMTT(30)
      <4> QED BY <1>3, <3>1, <4>2, <4>3
    <3>4. \A l \in first..m + 1 : n < l => next[n] + R[n].size <= next[l]
      <4> TAKE l \in first..m + 1
      <4>1. CASE l = m + 1
        BY <1>1, <1>4, <1>6, <3>1, <4>1
      <4>2. CASE l # m + 1
        <5>1. l \in first..m /\ next[l] = start[l]
          BY <1>1, <1>4, <4>2
        <5> QED BY <1>6, <3>1, <5>1
      <4> QED BY <4>1, <4>2
    <3>5. /\ next[n + 1] = next[n] + R[n].size
          /\ next[n] >= 0
          /\ next[n] + R[n].size <= Len(t)
      BY <1>1, <1>3, <1>6, <1>7, <2>0, <3>1, <3>2, SMTT(30)
    <3> QED BY <3>1, <3>3, <3>4, <3>5
  <2>2. CASE n = m + 1
    <3>1. next[n] = length /\ Q[n].size = z
      BY <1>1, <1>4, <1>5, <1>6, <2>2
    <3> QED BY <1>1, <1>2, <1>3, <1>4, <2>0, <2>2, <3>1, SMTT(30)
  <2> QED BY <1>1, <2>0, <2>1, <2>2
<1>10. Laid(next, t, first, Q)
  BY <1>1, <1>5, <1>8, <1>9 DEF Laid
<1> QED BY <1>4, <1>10, <1>m, <1>z, <1>u, <1>t, <1>q

\* The first request lies at the start of the stream.
LEMMA LaidFirst ==
  ASSUME NEW s \in Seq(Unit), NEW R \in Seq(Request), NEW first \in Nat \ {0},
         NEW start \in Starts, Laid(start, s, first, R), Len(R) <= MaxRequests,
         s # <<>>
  PROVE  /\ first \in DOMAIN R
         /\ R[first] \in Request
         /\ R[first].size \in 1..MaxUnits
         /\ R[first].size <= Len(s)
         /\ s[1] = [request |-> first, part |-> 1]
         /\ SubSeq(s, 1, R[first].size) = UnitsOf(first, R[first].size)
<1>1. /\ first <= Len(R) + 1 /\ start[first] = 0 /\ start[Len(R) + 1] = Len(s)
  BY DEF Laid
<1>2. ASSUME first <= Len(R)
      PROVE  /\ R[first] \in Request
             /\ R[first].size \in 1..MaxUnits
             /\ R[first].size <= Len(s)
             /\ \A k \in 1..R[first].size : s[k] = [request |-> first, part |-> k]
  <2>1. first \in first..Len(R) /\ first \in 1..Len(R)
    BY <1>2
  <2>2. R[first] \in Request
    BY <2>1
  <2>3. R[first].size \in 1..MaxUnits
    BY <2>2 DEF Request
  <2>4. /\ start[first] + R[first].size <= Len(s)
        /\ \A k \in 1..R[first].size :
             s[start[first] + k] = [request |-> first, part |-> k]
    BY <2>1 DEF Laid
  <2> QED BY <1>1, <2>2, <2>3, <2>4
<1>4. first <= Len(R)
  BY <1>1
<1>5. ASSUME first <= Len(R)
      PROVE  SubSeq(s, 1, R[first].size) = UnitsOf(first, R[first].size)
  <2>1. first \in Numbers
    BY <1>5 DEF Numbers
  <2>2. /\ R[first].size \in 1..MaxUnits /\ R[first].size <= Len(s)
        /\ \A k \in 1..R[first].size : s[k] = [request |-> first, part |-> k]
    BY <1>2, <1>5
  <2>3. PICK u : u = UnitsOf(first, R[first].size)
    OBVIOUS
  <2>4. /\ u \in Seq(Unit) /\ Len(u) = R[first].size
        /\ \A k \in 1..R[first].size : u[k] = [request |-> first, part |-> k]
    BY <2>1, <2>2, <2>3, UnitsTyped
  <2>5. PICK v : v = SubSeq(s, 1, R[first].size)
    OBVIOUS
  <2>6. /\ v \in Seq(Unit) /\ Len(v) = R[first].size
        /\ \A k \in 1..R[first].size : v[k] = s[k]
    BY <2>2, <2>5
  <2>7. v = u
    <3>1. \A k \in 1..Len(u) : u[k] = v[k]
      BY <2>2, <2>4, <2>6
    <3> QED BY <2>4, <2>6, <3>1, SeqEqual, Zenon
  <2> QED BY <2>3, <2>5, <2>7
<1>6. first \in DOMAIN R /\ s[1] = [request |-> first, part |-> 1]
  <2>1. 1 \in 1..R[first].size
    BY <1>2, <1>4
  <2> QED BY <1>2, <1>4, <2>1
<1> QED BY <1>2, <1>4, <1>5, <1>6

\* What is left when the first request is taken away lies as before.
LEMMA LaidShrinks ==
  ASSUME NEW s \in Seq(Unit), NEW R \in Seq(Request), NEW first \in Nat \ {0},
         NEW start \in Starts, Laid(start, s, first, R), Len(R) <= MaxRequests,
         first <= Len(R)
  PROVE  LET size == R[first].size
             next == [n \in 1..MaxRequests + 1 |-> start[n] - size]
         IN  /\ next \in Starts
             /\ Laid(next, SubSeq(s, size + 1, Len(s)), first + 1, R)
<1>z. PICK size : size = R[first].size
  OBVIOUS
<1>n. PICK next : next = [n \in 1..MaxRequests + 1 |-> start[n] - size]
  OBVIOUS
<1>m. PICK m : m = Len(R)
  OBVIOUS
<1>l. PICK length : length = Len(s)
  OBVIOUS
<1>t. PICK t : t = SubSeq(s, size + 1, Len(s))
  OBVIOUS
<1>1. /\ m \in Nat /\ length \in Nat /\ m <= MaxRequests /\ first <= m
      /\ size \in Nat \ {0}
  <2>1. R[first] \in Request
    OBVIOUS
  <2> QED BY <1>m, <1>l, <1>z, <2>1 DEF Request
<1>2. /\ next \in Starts
      /\ \A n \in 1..MaxRequests + 1 : next[n] = start[n] - size /\ start[n] \in Int
  <2>1. \A n \in 1..MaxRequests + 1 : start[n] \in Int
    BY DEF Starts
  <2>2. \A n \in 1..MaxRequests + 1 : start[n] - size \in Int
    BY <1>1, <2>1
  <2>3. \A n \in 1..MaxRequests + 1 : next[n] = start[n] - size
    BY <1>n
  <2>4. next \in [1..MaxRequests + 1 -> Int]
    BY <1>n, <2>2
  <2> QED BY <2>1, <2>3, <2>4 DEF Starts
<1>3. /\ start[first] = 0 /\ start[m + 1] = length
      /\ \A n \in first..m : /\ start[n + 1] = start[n] + R[n].size
                             /\ start[n] >= 0
                             /\ start[n] + R[n].size <= length
      /\ \A n \in first..m : \A k \in 1..R[n].size :
           s[start[n] + k] = [request |-> n, part |-> k]
      /\ \A n, l \in first..m : n < l => start[n] + R[n].size <= start[l]
  BY <1>m, <1>l DEF Laid
<1>4. \A n \in first..m : R[n].size \in 1..MaxUnits
  <2>1. \A n \in first..m : R[n] \in Request
    BY <1>m
  <2> QED BY <2>1 DEF Request
<1>5. size <= length /\ start[first + 1] = size
  <2>1. first \in first..m
    BY <1>1
  <2> QED BY <1>1, <1>3, <1>z, <2>1
<1>6. /\ Len(t) = length - size
      /\ \A i \in 1..length - size : t[i] = s[size + i]
  <2>1. t = SubSeq(s, size + 1, length) /\ Len(s) = length
    BY <1>l, <1>t
  <2>2. size \in 1..length
    BY <1>1, <1>5
  <2> HIDE <1>t, <1>l, <1>n
  <2> QED BY <1>1, <2>1, <2>2
<1>7. \A n \in first + 1..m : n \in first..m /\ n \in 1..MaxRequests + 1 /\ n \in Nat
                              /\ n + 1 \in 1..MaxRequests + 1 /\ start[n] >= size
  <2> TAKE n \in first + 1..m
  <2>1. n \in first..m /\ first \in first..m /\ first < n /\ n \in Nat
    BY <1>1
  <2>2. start[n] >= size
    BY <1>1, <1>3, <1>z, <2>1
  <2> QED BY <1>1, <2>1, <2>2
<1>8. ASSUME NEW n \in first + 1..m
      PROVE  /\ next[n + 1] = next[n] + R[n].size
             /\ next[n] >= 0
             /\ next[n] + R[n].size <= Len(t)
             /\ \A k \in 1..R[n].size : t[next[n] + k] = [request |-> n, part |-> k]
             /\ \A l \in first + 1..m : n < l => next[n] + R[n].size <= next[l]
  <2>z. PICK z : z = R[n].size
    OBVIOUS
  <2>a. PICK a : a = start[n]
    OBVIOUS
  <2>1. /\ next[n] = a - size /\ next[n + 1] = start[n + 1] - size
        /\ a \in Int /\ start[n + 1] \in Int /\ z \in Nat
        /\ a >= size /\ n \in first..m
    BY <1>2, <1>4, <1>7, <2>z, <2>a, SMTT(30)
  <2>2. start[n + 1] = a + z /\ a + z <= length
    BY <1>3, <2>1, <2>z, <2>a
  <2>3. next[n + 1] = next[n] + z /\ next[n] >= 0 /\ next[n] + z <= Len(t)
    BY <1>1, <1>6, <2>1, <2>2, SMTT(30)
  <2>4. ASSUME NEW k \in 1..z
        PROVE  t[next[n] + k] = [request |-> n, part |-> k]
    <3>1. s[a + k] = [request |-> n, part |-> k]
      BY <1>3, <2>1, <2>z, <2>a
    <3>2. a - size + k \in 1..length - size /\ size + (a - size + k) = a + k
      BY <1>1, <2>1, <2>2
    <3>3. t[a - size + k] = s[a + k]
      BY <1>6, <3>2
    <3> QED BY <2>1, <3>1, <3>3
  <2>5. ASSUME NEW l \in first + 1..m, n < l
        PROVE  next[n] + z <= next[l]
    <3>1. l \in first..m /\ next[l] = start[l] - size /\ start[l] \in Int
      BY <1>2, <1>7
    <3>2. a + z <= start[l]
      BY <1>3, <2>1, <2>5, <2>z, <2>a, <3>1
    <3> QED BY <1>1, <2>1, <3>1, <3>2
  <2> QED BY <2>z, <2>3, <2>4, <2>5
<1>9. next[first + 1] = 0 /\ next[m + 1] = Len(t)
  <2>1. first + 1 \in 1..MaxRequests + 1 /\ m + 1 \in 1..MaxRequests + 1
    BY <1>1
  <2> QED BY <1>1, <1>2, <1>3, <1>5, <1>6, <2>1
<1>10. Laid(next, t, first + 1, R)
  BY <1>1, <1>8, <1>9, <1>m DEF Laid
<1> QED BY <1>2, <1>10, <1>n, <1>t, <1>z

----------------------------------------------------------------------------
(* What one read takes.                                                    *)

LEMMA TakenIs ==
  ASSUME TypeOK, wire # <<>>
  PROVE  /\ Taken \in 1..Len(wire)
         /\ Taken <= BufferSize
         /\ \A k \in Stops : Taken <= k
<1> DEFINE S == {BufferSize, Len(wire)} \cup Stops
<1>1. wire \in Seq(Carried) /\ Len(wire) \in Nat \ {0} /\ DOMAIN wire = 1..Len(wire)
  BY DEF TypeOK
<1>2. S \in SUBSET (Nat \ {0}) /\ BufferSize \in S /\ Len(wire) \in S
  BY <1>1 DEF Stops
<1>3. Taken = Min(S)
  BY DEF Taken
<1> HIDE DEF S
<1>4. Min(S) \in S /\ \A y \in S : Min(S) <= y
  BY <1>2, LeastOf
<1>5. \A k \in Stops : k \in S
  BY DEF S
<1>6. PICK x : x = Min(S)
  OBVIOUS
<1>7. x \in Nat \ {0} /\ x <= Len(wire) /\ x <= BufferSize
  BY <1>2, <1>4, <1>6
<1>8. \A k \in Stops : x <= k
  BY <1>4, <1>5, <1>6
<1> QED BY <1>1, <1>3, <1>6, <1>7, <1>8

LEMMA CarriedIs ==
  ASSUME TypeOK
  PROVE  /\ wire \in Seq(Carried) /\ Len(wire) \in Nat /\ DOMAIN wire = 1..Len(wire)
         /\ \A k \in 1..Len(wire) : /\ wire[k].unit \in Unit
                                    /\ wire[k].fds \in Seq(Numbers)
                                    /\ wire[k].end \in BOOLEAN
<1>1. wire \in Seq(Carried)
  BY DEF TypeOK
<1>2. \A k \in 1..Len(wire) : wire[k] \in Carried
  BY <1>1
<1> QED BY <1>1, <1>2 DEF Carried

\* The descriptors that ride on what is taken are those of one unit.
LEMMA RidingIs ==
  ASSUME TypeOK, wire # <<>>
  PROVE  \/ /\ Riding = <<>>
            /\ \A j \in 1..Taken : wire[j].fds = <<>>
         \/ \E j \in 1..Taken : wire[j].fds # <<>> /\ Riding = wire[j].fds
<1> DEFINE on == {j \in 1..Taken : wire[j].fds # <<>>}
<1>1. Riding = IF on = {} THEN <<>> ELSE wire[Min(on)].fds
  BY DEF Riding
<1>2. Taken \in Nat
  BY TakenIs, CarriedIs
<1>3. CASE on = {}
  BY <1>1, <1>3
<1>4. CASE on # {}
  <2>1. on \in SUBSET Nat
    BY <1>2
  <2>2. Min(on) \in on
    <3> HIDE DEF on
    <3> QED BY <1>4, <2>1, LeastOf
  <2>3. Riding = wire[Min(on)].fds
    BY <1>1, <1>4
  <2> QED BY <2>2, <2>3
<1> QED BY <1>3, <1>4

LEMMA MinOfTwo ==
  ASSUME NEW a \in Nat, NEW b \in Nat
  PROVE  /\ Min({a, b}) \in {a, b}
         /\ Min({a, b}) <= a /\ Min({a, b}) <= b
<1>1. {a, b} \in SUBSET Nat /\ {a, b} # {} /\ a \in {a, b} /\ b \in {a, b}
  OBVIOUS
<1> QED BY <1>1, LeastOf

\* The control buffer holds the oldest of them.
LEMMA TakenFdsIs ==
  ASSUME TypeOK, wire # <<>>
  PROVE  /\ Riding \in Seq(Numbers)
         /\ TakenFds \in Seq(Numbers)
         /\ ToSet(TakenFds) \subseteq ToSet(Riding)
         /\ Increasing(Riding) => Increasing(TakenFds)
         /\ Len(Riding) <= MaxFds => TakenFds = Riding
<1>1. Riding \in Seq(Numbers)
  <2>1. CASE Riding = <<>>
    BY <2>1
  <2>2. CASE \E j \in 1..Taken : Riding = wire[j].fds
    <3>1. PICK j \in 1..Taken : Riding = wire[j].fds
      BY <2>2
    <3>2. j \in 1..Len(wire)
      BY TakenIs, CarriedIs
    <3> QED BY <3>1, <3>2, CarriedIs
  <2> QED BY <2>1, <2>2, RidingIs
<1>2. PICK n : n = Min({MaxFds, Len(Riding)})
  OBVIOUS
<1>3. PICK r : r = Riding
  OBVIOUS
<1>4. r \in Seq(Numbers) /\ Len(r) \in Nat
  BY <1>1, <1>3
<1>5. n \in {MaxFds, Len(r)} /\ n <= MaxFds /\ n <= Len(r) /\ n \in Nat
  BY <1>2, <1>3, <1>4, MinOfTwo
<1>6. PICK t : t = SubSeq(r, 1, n)
  OBVIOUS
<1>7. TakenFds = t
  BY <1>2, <1>3, <1>6 DEF TakenFds
<1>8. /\ t \in Seq(Numbers) /\ Len(t) = n /\ DOMAIN t = 1..n
      /\ \A i \in 1..n : t[i] = r[i]
  BY <1>4, <1>5, <1>6
<1>9. ToSet(t) \subseteq ToSet(r)
  BY <1>4, <1>5, <1>8 DEF ToSet
<1>10. Increasing(r) => Increasing(t)
  BY <1>4, <1>5, <1>8 DEF Increasing
<1>11. ASSUME Len(r) <= MaxFds PROVE t = r
  <2>1. n = Len(r)
    BY <1>4, <1>5, <1>11
  <2> QED BY <1>4, <1>6, <2>1
<1> QED BY <1>1, <1>3, <1>7, <1>8, <1>9, <1>10, <1>11

----------------------------------------------------------------------------
(* The stream of units under way.                                          *)

UnitsOn(w) == [k \in DOMAIN w |-> w[k].unit]

LEMMA UnitsOnWire ==
  ASSUME TypeOK
  PROVE  /\ UnitsOn(wire) \in Seq(Unit)
         /\ Len(UnitsOn(wire)) = Len(wire)
         /\ \A k \in 1..Len(wire) : UnitsOn(wire)[k] = wire[k].unit
<1>1. \A k \in 1..Len(wire) : wire[k].unit \in Unit
  BY CarriedIs
<1>2. DOMAIN wire = 1..Len(wire) /\ Len(wire) \in Nat
  BY CarriedIs
<1> QED BY <1>1, <1>2 DEF UnitsOn

LEMMA StreamIs ==
  ASSUME TypeOK
  PROVE  /\ Stream = in \o UnitsOn(wire) \o clientOut
         /\ Stream = in \o (UnitsOn(wire) \o clientOut)
         /\ UnitsOn(wire) \o clientOut \in Seq(Unit)
         /\ Stream \in Seq(Unit)
         /\ Len(Stream) = Len(in) + Len(wire) + Len(clientOut)
<1>1. in \in Seq(Unit) /\ clientOut \in Seq(Unit)
  BY DEF TypeOK
<1>2. PICK w : w = UnitsOn(wire)
  OBVIOUS
<1>3. w \in Seq(Unit) /\ Len(w) = Len(wire)
  BY <1>2, UnitsOnWire
<1>4. (in \o w) \o clientOut = in \o (w \o clientOut)
  BY <1>1, <1>3, UnitsConcat3
<1>5. Stream = (in \o w) \o clientOut
  BY <1>2 DEF Stream, UnitsOn
<1>6. /\ in \o w \in Seq(Unit) /\ w \o clientOut \in Seq(Unit)
      /\ Len(in \o w) = Len(in) + Len(wire)
  BY <1>1, <1>3, UnitsConcat, ZenonT(40)
<1>7. /\ (in \o w) \o clientOut \in Seq(Unit)
      /\ Len((in \o w) \o clientOut) = Len(in \o w) + Len(clientOut)
  BY <1>1, <1>6, UnitsConcat
<1> QED BY <1>2, <1>4, <1>5, <1>6, <1>7

LEMMA UnitsSplit ==
  ASSUME NEW s \in Seq(Unit), NEW n \in 0..Len(s)
  PROVE  /\ SubSeq(s, 1, n) \in Seq(Unit) /\ SubSeq(s, n + 1, Len(s)) \in Seq(Unit)
         /\ Len(SubSeq(s, 1, n)) = n /\ Len(SubSeq(s, n + 1, Len(s))) = Len(s) - n
         /\ s = SubSeq(s, 1, n) \o SubSeq(s, n + 1, Len(s))
<1>1. /\ SubSeq(s, 1, n) \in Seq(Unit) /\ SubSeq(s, n + 1, Len(s)) \in Seq(Unit)
      /\ Len(SubSeq(s, 1, n)) = n /\ Len(SubSeq(s, n + 1, Len(s))) = Len(s) - n
  OBVIOUS
<1>2. 1 \in 1..Len(s) + 1 /\ n \in 1 - 1..Len(s) /\ Len(s) \in n..Len(s)
  OBVIOUS
<1>3. SubSeq(s, 1, n) \o SubSeq(s, n + 1, Len(s)) = SubSeq(s, 1, Len(s))
  BY <1>2, ConcatAdjacentSubSeq, Zenon
<1>4. SubSeq(s, 1, Len(s)) = s
  BY SubSeqFull, Zenon
<1> QED BY <1>1, <1>3, <1>4

\* Taking away from a part at the front takes away from the whole.
LEMMA UnitsDrop ==
  ASSUME NEW p \in Seq(Unit), NEW q \in Seq(Unit), NEW n \in 0..Len(p)
  PROVE  SubSeq(p \o q, n + 1, Len(p \o q)) = SubSeq(p, n + 1, Len(p)) \o q
<1>1. PICK a : a = SubSeq(p, n + 1, Len(p))
  OBVIOUS
<1>2. a \in Seq(Unit) /\ Len(a) = Len(p) - n /\ \A i \in 1..Len(p) - n : a[i] = p[n + i]
  BY <1>1
<1>3. PICK t : t = p \o q
  OBVIOUS
<1>4. /\ t \in Seq(Unit) /\ Len(t) = Len(p) + Len(q)
      /\ \A i \in 1..Len(p) : t[i] = p[i]
      /\ \A i \in 1..Len(q) : t[Len(p) + i] = q[i]
  BY <1>3, UnitsConcat
<1>5. PICK l : l = SubSeq(t, n + 1, Len(t))
  OBVIOUS
<1>6. /\ l \in Seq(Unit) /\ Len(l) = Len(p) + Len(q) - n
      /\ \A i \in 1..Len(p) + Len(q) - n : l[i] = t[n + i]
  BY <1>4, <1>5
<1>7. PICK r : r = a \o q
  OBVIOUS
<1>8. /\ r \in Seq(Unit) /\ Len(r) = Len(p) - n + Len(q)
      /\ \A i \in 1..Len(p) - n : r[i] = a[i]
      /\ \A i \in 1..Len(q) : r[Len(p) - n + i] = q[i]
  <2>1. /\ r \in Seq(Unit) /\ Len(r) = Len(a) + Len(q)
        /\ \A i \in 1..Len(a) : r[i] = a[i]
        /\ \A i \in 1..Len(q) : r[Len(a) + i] = q[i]
    BY <1>2, <1>7, UnitsConcat, ZenonT(40)
  <2>2. Len(a) = Len(p) - n
    BY <1>2
  <2> QED BY <2>1, <2>2
<1>9. ASSUME NEW i \in 1..Len(l) PROVE l[i] = r[i]
  <2>1. CASE i <= Len(p) - n
    <3>1. i \in 1..Len(p) - n /\ n + i \in 1..Len(p)
      BY <2>1
    <3> QED BY <1>2, <1>4, <1>6, <1>8, <3>1
  <2>2. CASE i > Len(p) - n
    <3>1. PICK j : j = i - (Len(p) - n)
      OBVIOUS
    <3>2. j \in 1..Len(q) /\ i = Len(p) - n + j /\ n + i = Len(p) + j
      BY <1>6, <2>2, <3>1
    <3>3. r[i] = q[j]
      BY <1>8, <3>2
    <3>4. t[n + i] = q[j]
      BY <1>4, <3>2
    <3>5. l[i] = t[n + i]
      BY <1>6
    <3> QED BY <3>3, <3>4, <3>5
  <2> QED BY <1>6, <2>1, <2>2
<1>10. Len(l) = Len(r)
  BY <1>6, <1>8
<1>11. l = r
  BY <1>6, <1>8, <1>9, <1>10, SeqEqual, Zenon
<1> QED BY <1>1, <1>3, <1>5, <1>7, <1>11

\* The oldest unit in_ holds begins the oldest request not yet dispatched.
LEMMA FirstIs ==
  ASSUME TypeOK, LaidOut, in # <<>>
  PROVE  /\ Len(handled) + 1 \in DOMAIN requests
         /\ in[1].request = Len(handled) + 1
         /\ First = requests[Len(handled) + 1]
         /\ First \in Request
         /\ First.size \in 1..MaxUnits
         /\ Len(in) >= First.size =>
              SubSeq(in, 1, First.size) = UnitsOf(Len(handled) + 1, First.size)
<1>1. /\ in \in Seq(Unit) /\ handled \in Seq([units : Seq(Unit), fd : Numbers \cup {NoFd}])
      /\ requests \in Seq(Request) /\ Len(requests) <= MaxRequests
  BY DEF TypeOK, LaidOut
<1>2. PICK first : first = Len(handled) + 1
  OBVIOUS
<1>3. first \in Nat \ {0}
  BY <1>1, <1>2
<1>4. PICK s : s = Stream
  OBVIOUS
<1>5. PICK q : q = UnitsOn(wire) \o clientOut
  OBVIOUS
<1>6. s \in Seq(Unit) /\ q \in Seq(Unit) /\ s = in \o q
  BY <1>4, <1>5, StreamIs
<1>7. PICK start \in Starts : Laid(start, s, first, requests)
  BY <1>2, <1>4 DEF LaidOut
<1>8. /\ Len(in) \in Nat \ {0} /\ Len(s) = Len(in) + Len(q)
      /\ \A i \in 1..Len(in) : s[i] = in[i]
  BY <1>1, <1>6, UnitsConcat
<1>9. s # <<>>
  BY <1>6, <1>8
<1>10. /\ first \in DOMAIN requests
       /\ requests[first] \in Request
       /\ requests[first].size \in 1..MaxUnits
       /\ requests[first].size <= Len(s)
       /\ s[1] = [request |-> first, part |-> 1]
       /\ SubSeq(s, 1, requests[first].size) = UnitsOf(first, requests[first].size)
  BY <1>1, <1>3, <1>6, <1>7, <1>9, LaidFirst, ZenonT(40)
<1>11. in[1] = [request |-> first, part |-> 1]
  BY <1>8, <1>10
<1>12. First = requests[first]
  BY <1>11 DEF First
<1>13. ASSUME Len(in) >= requests[first].size
       PROVE  SubSeq(in, 1, requests[first].size) = SubSeq(s, 1, requests[first].size)
  <2>1. PICK size : size = requests[first].size
    OBVIOUS
  <2>2. size \in 1..Len(in)
    BY <1>10, <1>13, <2>1
  <2>3. PICK a : a = SubSeq(in, 1, size)
    OBVIOUS
  <2>4. PICK b : b = SubSeq(s, 1, size)
    OBVIOUS
  <2>5. a \in Seq(Unit) /\ Len(a) = size /\ \A i \in 1..size : a[i] = in[i]
    BY <1>1, <2>2, <2>3
  <2>6. b \in Seq(Unit) /\ Len(b) = size /\ \A i \in 1..size : b[i] = s[i]
    BY <1>6, <1>8, <2>2, <2>4
  <2>7. \A i \in 1..Len(a) : a[i] = b[i]
    BY <1>8, <2>2, <2>5, <2>6
  <2>8. a = b
    BY <2>5, <2>6, <2>7, SeqEqual, Zenon
  <2> QED BY <2>1, <2>3, <2>4, <2>8
<1> QED BY <1>2, <1>10, <1>11, <1>12, <1>13

----------------------------------------------------------------------------
(* Types.                                                                  *)

LEMMA QueuedIs ==
  ASSUME TypeOK
  PROVE  /\ Queued \in Seq(Numbers)
         /\ FrontFd \in Numbers \cup {NoFd}
         /\ Queued # <<>> => FrontFd = Head(Queued) /\ FrontFd \in Numbers
         /\ BehindFront \in Seq(Numbers)
<1>1. Queued \in Seq(Numbers)
  BY DEF TypeOK, Queued
<1>2. PICK q : q = Queued
  OBVIOUS
<1>3. q # <<>> => Head(q) \in Numbers /\ Tail(q) \in Seq(Numbers)
  BY <1>1, <1>2
<1> QED BY <1>1, <1>2, <1>3 DEF FrontFd, BehindFront

LEMMA TypeMake ==
  ASSUME TypeOK, NEW r \in Asked, MakeRequest(r)
  PROVE  TypeOK'
<1>1. r \in Request /\ r.size \in 1..MaxUnits
  BY DEF Asked, Request
<1>2. PICK n : n = Len(requests) + 1
  OBVIOUS
<1>3. n \in Numbers
  BY <1>2 DEF TypeOK, MakeRequest, Numbers
<1>4. UnitsOf(n, r.size) \in Seq(Unit)
  BY <1>1, <1>3, UnitsTyped
<1>5. clientOut' \in Seq(Unit)
  <2>1. clientOut' = clientOut \o UnitsOf(n, r.size)
    BY <1>2 DEF MakeRequest
  <2> QED BY <1>4, <2>1 DEF TypeOK
<1>6. requests' \in Seq(Request)
  BY <1>1 DEF TypeOK, MakeRequest
<1>7. clientFds' \in Seq(Numbers)
  <2>1. clientFds' = IF r.fd THEN Append(clientFds, n) ELSE clientFds
    BY <1>2 DEF MakeRequest
  <2> QED BY <1>3, <2>1 DEF TypeOK
<1>8. UNCHANGED <<environment, peerOpen, wire, pc, received, alive, listed, open, handled>>
  BY DEF MakeRequest
<1>9. UNCHANGED <<in, inFds, msgFds>>
  BY <1>8 DEF received
<1> QED BY <1>5, <1>6, <1>7, <1>8, <1>9 DEF TypeOK

LEMMA ChunkIs ==
  ASSUME NEW units \in Seq(Unit), NEW fds \in Seq(Numbers)
  PROVE  /\ ChunkOf(units, fds) \in Seq(Carried)
         /\ Len(ChunkOf(units, fds)) = Len(units)
         /\ \A k \in 1..Len(units) :
              /\ ChunkOf(units, fds)[k].unit = units[k]
              /\ ChunkOf(units, fds)[k].fds = IF k = 1 THEN fds ELSE <<>>
              /\ ChunkOf(units, fds)[k].end <=> k = Len(units)
<1>1. DOMAIN units = 1..Len(units) /\ Len(units) \in Nat
  OBVIOUS
<1>2. \A k \in 1..Len(units) :
        [unit |-> units[k], fds |-> IF k = 1 THEN fds ELSE <<>>, end |-> k = Len(units)]
          \in Carried
  <2> TAKE k \in 1..Len(units)
  <2>1. units[k] \in Unit
    OBVIOUS
  <2>2. (IF k = 1 THEN fds ELSE <<>>) \in Seq(Numbers)
    OBVIOUS
  <2>3. (k = Len(units)) \in BOOLEAN
    OBVIOUS
  <2> QED BY <2>1, <2>2, <2>3 DEF Carried
<1>3. PICK c : c = ChunkOf(units, fds)
  OBVIOUS
<1>4. PICK l : l = Len(units)
  OBVIOUS
<1>5. c = [k \in 1..l |-> [unit |-> units[k],
                           fds |-> IF k = 1 THEN fds ELSE <<>>,
                           end |-> k = l]]
  BY <1>1, <1>3, <1>4 DEF ChunkOf
<1>6. \A k \in 1..l : c[k] = [unit |-> units[k],
                              fds |-> IF k = 1 THEN fds ELSE <<>>,
                              end |-> k = l]
  BY <1>5, Zenon
<1>7. \A k \in 1..l : c[k] \in Carried
  BY <1>2, <1>4, <1>6, ZenonT(40)
<1>8. c \in [1..l -> Carried]
  BY <1>5, <1>7
<1>9. l \in Nat
  BY <1>1, <1>4
<1>10. c \in Seq(Carried) /\ Len(c) = l
  BY <1>8, <1>9
<1>11. ASSUME NEW k \in 1..l
       PROVE  /\ c[k].unit = units[k]
              /\ c[k].fds = IF k = 1 THEN fds ELSE <<>>
              /\ c[k].end <=> k = l
  <2>1. PICK f : f = IF k = 1 THEN fds ELSE <<>>
    OBVIOUS
  <2>2. PICK e : e = (k = l)
    OBVIOUS
  <2>3. c[k] = [unit |-> units[k], fds |-> f, end |-> e]
    BY <1>6, <2>1, <2>2, Zenon
  <2>4. c[k].unit = units[k] /\ c[k].fds = f /\ c[k].end = e
    BY <2>3
  <2>5. c[k].end <=> k = l
    BY <2>2, <2>4, Zenon
  <2> QED BY <2>1, <2>4, <2>5
<1> QED BY <1>3, <1>4, <1>10, <1>11

LEMMA TypeSend ==
  ASSUME TypeOK, NEW n \in Nat, SendChunk(n)
  PROVE  TypeOK'
<1>1. n \in 1..Len(clientOut) /\ clientOut \in Seq(Unit) /\ clientFds \in Seq(Numbers)
  BY DEF TypeOK, SendChunk
<1>2. /\ SubSeq(clientOut, 1, n) \in Seq(Unit)
      /\ SubSeq(clientOut, n + 1, Len(clientOut)) \in Seq(Unit)
  BY <1>1, UnitsSplit
<1>3. ChunkOf(SubSeq(clientOut, 1, n), clientFds) \in Seq(Carried)
  BY <1>1, <1>2, ChunkIs
<1>4. wire' \in Seq(Carried)
  BY <1>3 DEF TypeOK, SendChunk
<1>5. clientOut' \in Seq(Unit) /\ clientFds' \in Seq(Numbers)
  BY <1>2 DEF SendChunk
<1>6. UNCHANGED <<environment, requests, peerOpen, pc, in, inFds, msgFds, alive,
                  listed, open, handled>>
  BY DEF SendChunk, received
<1> QED BY <1>4, <1>5, <1>6 DEF TypeOK

LEMMA TakenUnitsIs ==
  ASSUME TypeOK, wire # <<>>
  PROVE  /\ TakenUnits \in Seq(Unit)
         /\ Len(TakenUnits) = Taken
         /\ \A k \in 1..Taken : TakenUnits[k] = wire[k].unit
         /\ LeftWire \in Seq(Carried)
         /\ Len(LeftWire) = Len(wire) - Taken
         /\ \A k \in 1..Len(wire) - Taken : LeftWire[k] = wire[Taken + k]
<1>1. PICK t : t = Taken
  OBVIOUS
<1>2. t \in 1..Len(wire) /\ Len(wire) \in Nat /\ wire \in Seq(Carried)
  BY <1>1, TakenIs, CarriedIs
<1>3. \A k \in 1..t : wire[k].unit \in Unit
  BY <1>2, CarriedIs
<1>4. PICK u : u = [k \in 1..t |-> wire[k].unit]
  OBVIOUS
<1>5. u \in Seq(Unit) /\ Len(u) = t /\ \A k \in 1..t : u[k] = wire[k].unit
  BY <1>2, <1>3, <1>4
<1>6. PICK l : l = SubSeq(wire, t + 1, Len(wire))
  OBVIOUS
<1>7. /\ l \in Seq(Carried) /\ Len(l) = Len(wire) - t
      /\ \A k \in 1..Len(wire) - t : l[k] = wire[t + k]
  BY <1>2, <1>6
<1> QED BY <1>1, <1>4, <1>5, <1>6, <1>7 DEF TakenUnits, LeftWire

LEMMA TypeReceive ==
  ASSUME TypeOK, Receive
  PROVE  TypeOK'
<1>1. wire # <<>>
  BY DEF Receive
<1>2. TakenUnits \in Seq(Unit) /\ LeftWire \in Seq(Carried) /\ TakenFds \in Seq(Numbers)
  BY <1>1, TakenUnitsIs, TakenFdsIs
<1>3. /\ in' = in \o TakenUnits /\ inFds' = inFds \o TakenFds /\ wire' = LeftWire
      /\ open' = open \cup ToSet(TakenFds)
      /\ alive' = ~(Len(in') > MaxIncoming)
      /\ pc' \in {"poll", "reading", "dispatching"}
      /\ UNCHANGED <<environment, requests, clientOut, clientFds, peerOpen, msgFds,
                     listed, handled>>
  BY DEF Receive, clientSide
<1>4. ToSet(TakenFds) \subseteq Numbers
  BY <1>2, ToSetOf
<1>5. in' \in Seq(Unit) /\ inFds' \in Seq(Numbers) /\ open' \subseteq Numbers
  BY <1>2, <1>3, <1>4 DEF TypeOK
<1>6. alive' \in BOOLEAN
  BY <1>3, Zenon
<1>7. wire' \in Seq(Carried)
  BY <1>2, <1>3
<1> QED BY <1>3, <1>5, <1>6, <1>7 DEF TypeOK

LEMMA TypeDispatch ==
  ASSUME TypeOK, LaidOut, Dispatch
  PROVE  TypeOK'
<1>1. /\ in # <<>> /\ Len(in) >= First.size
      /\ First.fd => Queued # <<>>
      /\ inFds' = <<>>
      /\ handled' = Append(handled, [units |-> SubSeq(in, 1, First.size),
                                     fd |-> IF First.fd THEN FrontFd ELSE NoFd])
      /\ in' = SubSeq(in, First.size + 1, Len(in))
      /\ msgFds' = IF First.fd THEN BehindFront ELSE Queued
      /\ UNCHANGED <<environment, requests, clientOut, clientFds, peerOpen, wire, pc,
                     alive, listed, open>>
  BY DEF Dispatch, Complete, clientSide
<1>2. First.size \in 1..MaxUnits
  BY <1>1, FirstIs
<1>3. in \in Seq(Unit)
  BY DEF TypeOK
<1>4. SubSeq(in, 1, First.size) \in Seq(Unit) /\ in' \in Seq(Unit)
  <2>1. First.size \in 0..Len(in)
    BY <1>1, <1>2, <1>3
  <2> QED BY <1>1, <1>3, <2>1, UnitsSplit
<1>5. msgFds' \in Seq(Numbers) /\ inFds' \in Seq(Numbers)
  BY <1>1, QueuedIs
<1>6. (IF First.fd THEN FrontFd ELSE NoFd) \in Numbers \cup {NoFd}
  BY QueuedIs
<1>7. handled' \in Seq([units : Seq(Unit), fd : Numbers \cup {NoFd}])
  <2>1. PICK h : h = [units |-> SubSeq(in, 1, First.size),
                      fd |-> IF First.fd THEN FrontFd ELSE NoFd]
    OBVIOUS
  <2>2. h \in [units : Seq(Unit), fd : Numbers \cup {NoFd}]
    BY <1>4, <1>6, <2>1
  <2>3. handled' = Append(handled, h)
    BY <1>1, <2>1
  <2> QED BY <2>2, <2>3 DEF TypeOK
<1> QED BY <1>1, <1>4, <1>5, <1>7 DEF TypeOK

LEMMA TypeRefused ==
  ASSUME TypeOK, DispatchRefused
  PROVE  TypeOK'
<1>1. /\ alive' = FALSE /\ pc' = "poll" /\ inFds' = <<>>
      /\ msgFds' = IF First.fd THEN BehindFront ELSE Queued
      /\ open' = IF First.fd THEN open \ {FrontFd} ELSE open
      /\ UNCHANGED <<environment, requests, clientOut, clientFds, peerOpen, wire, in,
                     listed, handled>>
  BY DEF DispatchRefused, clientSide
<1>2. msgFds' \in Seq(Numbers) /\ inFds' \in Seq(Numbers)
  BY <1>1, QueuedIs
<1> QED BY <1>1, <1>2 DEF TypeOK

LEMMA TypeOthers ==
  ASSUME TypeOK,
         CloseClient \/ ReceiveNothing \/ ReceiveEnd \/ DispatchEnd \/ Reap
         \/ UNCHANGED vars
  PROVE  TypeOK'
<1>1. CASE CloseClient
  BY <1>1 DEF TypeOK, CloseClient, received
<1>2. CASE ReceiveNothing
  BY <1>2 DEF TypeOK, ReceiveNothing, received, clientSide
<1>3. CASE ReceiveEnd
  BY <1>3 DEF TypeOK, ReceiveEnd, received, clientSide
<1>4. CASE DispatchEnd
  <2>1. msgFds' \in Seq(Numbers) /\ inFds' \in Seq(Numbers)
    BY <1>4, QueuedIs DEF DispatchEnd
  <2> QED BY <1>4, <2>1 DEF TypeOK, DispatchEnd, clientSide
<1>5. CASE Reap
  <2>1. /\ inFds' = <<>> /\ msgFds' = <<>> /\ listed' = FALSE
        /\ open' = open \ ToSet(msgFds)
        /\ UNCHANGED <<environment, requests, clientOut, clientFds, peerOpen, wire, pc,
                       in, alive, handled>>
    BY <1>5 DEF Reap, Destruct, clientSide
  <2>2. inFds' \in Seq(Numbers) /\ msgFds' \in Seq(Numbers) /\ open' \subseteq Numbers
    BY <2>1 DEF TypeOK
  <2> QED BY <2>1, <2>2 DEF TypeOK
<1>6. CASE UNCHANGED vars
  BY <1>6 DEF TypeOK, vars, received, clientSide
<1> QED BY <1>1, <1>2, <1>3, <1>4, <1>5, <1>6

----------------------------------------------------------------------------
(* Descriptors stay in order.                                              *)

LEMMA NoneBelow ==
  ASSUME NEW A
  PROVE  Below(A, {}) /\ Below({}, A)
BY DEF Below

LEMMA CarriedConcat ==
  ASSUME NEW p \in Seq(Carried), NEW q \in Seq(Carried)
  PROVE  /\ p \o q \in Seq(Carried)
         /\ Len(p \o q) = Len(p) + Len(q)
         /\ \A i \in 1..Len(p) : (p \o q)[i] = p[i]
         /\ \A i \in 1..Len(q) : (p \o q)[Len(p) + i] = q[i]
OBVIOUS

\* What is on the wire behind a chunk, and behind a read.
LEMMA WireAfterSend ==
  ASSUME TypeOK, NEW n \in Nat, SendChunk(n)
  PROVE  /\ n \in 1..Len(clientOut)
         /\ Len(wire') = Len(wire) + n
         /\ \A k \in 1..Len(wire) : wire'[k] = wire[k]
         /\ \A k \in 1..n :
              /\ wire'[Len(wire) + k].unit = clientOut[k]
              /\ wire'[Len(wire) + k].fds = IF k = 1 THEN clientFds ELSE <<>>
              /\ wire'[Len(wire) + k].end <=> k = n
<1>1. n \in 1..Len(clientOut) /\ clientOut \in Seq(Unit) /\ clientFds \in Seq(Numbers)
  BY DEF TypeOK, SendChunk
<1>2. PICK u : u = SubSeq(clientOut, 1, n)
  OBVIOUS
<1>3. u \in Seq(Unit) /\ Len(u) = n /\ \A k \in 1..n : u[k] = clientOut[k]
  BY <1>1, <1>2
<1>4. PICK c : c = ChunkOf(u, clientFds)
  OBVIOUS
<1>5. /\ c \in Seq(Carried) /\ Len(c) = n
      /\ \A k \in 1..n : /\ c[k].unit = u[k]
                         /\ c[k].fds = IF k = 1 THEN clientFds ELSE <<>>
                         /\ c[k].end <=> k = n
  <2>1. /\ c \in Seq(Carried) /\ Len(c) = Len(u)
        /\ \A k \in 1..Len(u) : /\ c[k].unit = u[k]
                                /\ c[k].fds = IF k = 1 THEN clientFds ELSE <<>>
                                /\ c[k].end <=> k = Len(u)
    <3>1. u \in Seq(Unit) /\ clientFds \in Seq(Numbers)
      BY <1>1, <1>3
    <3>2. /\ ChunkOf(u, clientFds) \in Seq(Carried)
          /\ Len(ChunkOf(u, clientFds)) = Len(u)
          /\ \A k \in 1..Len(u) :
               /\ ChunkOf(u, clientFds)[k].unit = u[k]
               /\ ChunkOf(u, clientFds)[k].fds = IF k = 1 THEN clientFds ELSE <<>>
               /\ ChunkOf(u, clientFds)[k].end <=> k = Len(u)
      BY <3>1, ChunkIs
    <3> QED BY <1>4, <3>2, Zenon
  <2>2. \A k \in 1..n : k \in 1..Len(u)
    BY <1>3
  <2>3. \A k \in 1..n : c[k].end <=> k = n
    BY <1>3, <2>1, Zenon
  <2> QED BY <1>3, <2>1, <2>2, <2>3
<1>6. wire' = wire \o c /\ wire \in Seq(Carried)
  BY <1>2, <1>4 DEF SendChunk, TypeOK
<1>7. /\ Len(wire') = Len(wire) + n
      /\ \A k \in 1..Len(wire) : wire'[k] = wire[k]
      /\ \A k \in 1..n : wire'[Len(wire) + k] = c[k]
  <2>1. c \in Seq(Carried) /\ Len(c) = n
    BY <1>5
  <2> QED BY <1>6, <2>1, CarriedConcat
<1>8. ASSUME NEW k \in 1..n
      PROVE  /\ wire'[Len(wire) + k].unit = clientOut[k]
             /\ wire'[Len(wire) + k].fds = IF k = 1 THEN clientFds ELSE <<>>
             /\ wire'[Len(wire) + k].end <=> k = n
  <2>1. wire'[Len(wire) + k] = c[k]
    BY <1>7
  <2>2. c[k].unit = clientOut[k] /\ c[k].fds = IF k = 1 THEN clientFds ELSE <<>>
    BY <1>3, <1>5
  <2>3. c[k].end <=> k = n
    BY <1>5, Zenon
  <2> QED BY <2>1, <2>2, <2>3, Zenon
<1> QED BY <1>1, <1>7, <1>8

LEMMA OnWireIs ==
  ASSUME TypeOK
  PROVE  /\ \A x : x \in OnWire <=> \E k \in 1..Len(wire) : x \in WireFds(k)
         /\ \A k \in 1..Len(wire) : WireFds(k) \subseteq Numbers
         /\ OnWire \subseteq Numbers
<1>1. DOMAIN wire = 1..Len(wire)
  BY CarriedIs
<1>2. \A k \in 1..Len(wire) : WireFds(k) \subseteq Numbers
  <2> TAKE k \in 1..Len(wire)
  <2>1. wire[k].fds \in Seq(Numbers)
    BY CarriedIs
  <2> QED BY <2>1, ToSetOf DEF WireFds
<1> QED BY <1>1, <1>2 DEF OnWire

LEMMA KeptIs ==
  ASSUME TypeOK
  PROVE  Kept \subseteq Numbers
<1>1. handled \in Seq([units : Seq(Unit), fd : Numbers \cup {NoFd}])
  BY DEF TypeOK
<1>2. \A k \in DOMAIN handled : handled[k].fd \in Numbers \cup {NoFd}
  <2>1. \A k \in DOMAIN handled :
          handled[k] \in [units : Seq(Unit), fd : Numbers \cup {NoFd}]
    <3>1. PICK S : S = [units : Seq(Unit), fd : Numbers \cup {NoFd}]
      OBVIOUS
    <3>2. handled \in Seq(S)
      BY <1>1, <3>1
    <3>3. \A k \in DOMAIN handled : handled[k] \in S
      BY <3>2
    <3> QED BY <3>1, <3>3
  <2> QED BY <2>1
<1> QED BY <1>2 DEF Kept

LEMMA HandledAreMade ==
  ASSUME TypeOK, LaidOut
  PROVE  /\ Len(handled) \in Nat /\ Len(requests) \in Nat
         /\ Len(handled) <= Len(requests) /\ Len(requests) <= MaxRequests
<1>1. Len(handled) \in Nat /\ Len(requests) \in Nat
  BY DEF TypeOK
<1>2. Len(handled) + 1 <= Len(requests) + 1 /\ Len(requests) <= MaxRequests
  BY DEF LaidOut, Laid
<1> QED BY <1>1, <1>2

LEMMA FdsMake ==
  ASSUME TypeOK, LaidOut, FdsInv, NEW r \in Asked, MakeRequest(r)
  PROVE  FdsInv'
<1>1. PICK n : n = Len(requests) + 1
  OBVIOUS
<1>2. /\ n \in Numbers /\ DOMAIN requests = 1..Len(requests)
      /\ requests \in Seq(Request) /\ Len(requests) \in Nat
      /\ clientFds \in Seq(Numbers)
  BY <1>1 DEF TypeOK, MakeRequest, Numbers
<1>3. /\ clientFds' = IF r.fd THEN Append(clientFds, n) ELSE clientFds
      /\ requests' = Append(requests, r)
      /\ r.fd /\ "fewFds" \in environment => Len(clientFds) < MaxFds
      /\ UNCHANGED <<environment, wire, in, inFds, msgFds, handled, alive>>
  BY <1>1 DEF MakeRequest, received
<1>4. DOMAIN requests' = 1..Len(requests) + 1 /\ Len(requests') = Len(requests) + 1
  BY <1>2, <1>3
<1>5. /\ UNCHANGED <<Queued, Kept, OnWire>>
      /\ \A k \in DOMAIN wire : UNCHANGED WireFds(k)
  BY <1>3 DEF Queued, Kept, OnWire, WireFds
<1>6. Kept \cup ToSet(Queued) \cup OnWire \cup ToSet(clientFds) \subseteq 1..Len(requests)
  BY <1>2 DEF FdsInv, FdsInOrder
<1>7. /\ ToSet(clientFds') = IF r.fd THEN ToSet(clientFds) \cup {n} ELSE ToSet(clientFds)
      /\ Increasing(clientFds')
  <2>1. CASE ~r.fd
    BY <1>3, <2>1 DEF FdsInv, FdsInOrder
  <2>2. CASE r.fd
    <3>1. /\ clientFds' = Append(clientFds, n)
          /\ Len(clientFds') = Len(clientFds) + 1 /\ DOMAIN clientFds' = 1..Len(clientFds')
          /\ \A i \in 1..Len(clientFds) : clientFds'[i] = clientFds[i]
          /\ clientFds'[Len(clientFds) + 1] = n
          /\ Len(clientFds) \in Nat /\ DOMAIN clientFds = 1..Len(clientFds)
      BY <1>2, <1>3, <2>2
    <3>2. \A i \in DOMAIN clientFds : clientFds[i] < n /\ clientFds[i] \in Nat
      <4> TAKE i \in DOMAIN clientFds
      <4>1. clientFds[i] \in ToSet(clientFds)
        BY DEF ToSet
      <4>2. clientFds[i] \in 1..Len(requests)
        BY <1>6, <4>1
      <4> QED BY <1>1, <1>2, <4>2
    <3>3. Increasing(clientFds)
      BY DEF FdsInv, FdsInOrder
    <3>4. Increasing(clientFds')
      BY <3>1, <3>2, <3>3 DEF Increasing
    <3>5. ASSUME NEW x PROVE x \in ToSet(clientFds') <=> x \in ToSet(clientFds) \cup {n}
      <4>1. x \in ToSet(clientFds') <=> \E i \in 1..Len(clientFds) + 1 : clientFds'[i] = x
        BY <3>1 DEF ToSet
      <4>2. x \in ToSet(clientFds) <=> \E i \in 1..Len(clientFds) : clientFds[i] = x
        BY <3>1 DEF ToSet
      <4> QED BY <3>1, <4>1, <4>2
    <3> QED BY <2>2, <3>4, <3>5
  <2> QED BY <2>1, <2>2
<1>8. FdsInOrder'
  <2>1. n \in Nat /\ \A x \in 1..Len(requests) : x < n
    BY <1>1, <1>2
  <2>2. ASSUME NEW A, A \subseteq 1..Len(requests), Below(A, ToSet(clientFds))
        PROVE  Below(A, ToSet(clientFds'))
    BY <1>7, <2>1, <2>2 DEF Below
  <2>3. /\ Below(Kept, ToSet(clientFds')) /\ Below(ToSet(Queued), ToSet(clientFds'))
        /\ Below(OnWire, ToSet(clientFds'))
    BY <1>6, <2>2 DEF FdsInv, FdsInOrder
  <2>4. ToSet(clientFds') \subseteq 1..Len(requests) + 1
    BY <1>1, <1>2, <1>6, <1>7
  <2>5. Kept \cup ToSet(Queued) \cup OnWire \cup ToSet(clientFds') \subseteq DOMAIN requests'
    BY <1>2, <1>4, <1>6, <2>4
  <2>6. \A k \in DOMAIN wire : Increasing(wire[k].fds)'
    BY <1>3 DEF FdsInv, FdsInOrder, Increasing
  <2>7. Increasing(Queued)'
    BY <1>5 DEF FdsInv, FdsInOrder, Increasing
  <2> QED BY <1>3, <1>5, <1>7, <2>3, <2>5, <2>6, <2>7 DEF FdsInv, FdsInOrder
<1>9. ChunksEnd'
  BY <1>3 DEF FdsInv, ChunksEnd
<1>10. FewAtOnce'
  <2>1. Few' <=> Few
    BY <1>3 DEF Few
  <2>2. Few => Len(clientFds') <= MaxFds
    BY <1>2, <1>3 DEF FdsInv, FewAtOnce, Few
  <2> QED BY <1>3, <2>1, <2>2 DEF FdsInv, FewAtOnce
<1>11. OwnFds'
  <2> SUFFICES ASSUME Few, alive,
                      NEW x \in ToSet(Queued) \cup OnWire \cup ToSet(clientFds')
               PROVE  x \in Len(handled) + 1 .. Len(requests) + 1 /\ requests'[x].fd
    BY <1>3, <1>4, <1>5 DEF OwnFds, Few, Waiting
  <2>1. CASE x \in ToSet(Queued) \cup OnWire \cup ToSet(clientFds)
    <3>1. x \in Waiting /\ requests[x].fd
      BY <2>1 DEF FdsInv, OwnFds
    <3>2. x \in 1..Len(requests)
      BY <1>6, <2>1
    <3>3. requests'[x] = requests[x]
      BY <1>2, <1>3, <3>2
    <3> QED BY <1>2, <3>1, <3>2, <3>3 DEF Waiting
  <2>2. CASE r.fd /\ x = n
    <3>1. requests'[n] = r
      BY <1>1, <1>2, <1>3
    <3>2. Len(handled) \in Nat /\ Len(handled) <= Len(requests)
      BY HandledAreMade
    <3> QED BY <1>1, <1>2, <2>2, <3>1, <3>2
  <2> QED BY <1>7, <2>1, <2>2
<1> QED BY <1>8, <1>9, <1>10, <1>11 DEF FdsInv

LEMMA FdsSend ==
  ASSUME TypeOK, FdsInv, NEW n \in Nat, SendChunk(n)
  PROVE  FdsInv'
<1>1. PICK l : l = Len(wire)
  OBVIOUS
<1>2. /\ n \in 1..Len(clientOut) /\ Len(wire') = l + n
      /\ \A k \in 1..l : wire'[k] = wire[k]
      /\ \A k \in 1..n : wire'[l + k].fds = IF k = 1 THEN clientFds ELSE <<>>
      /\ wire'[l + n].end
  <2>1. /\ n \in 1..Len(clientOut) /\ Len(wire') = l + n
        /\ \A k \in 1..l : wire'[k] = wire[k]
        /\ \A k \in 1..n : wire'[l + k].fds = IF k = 1 THEN clientFds ELSE <<>>
    BY <1>1, WireAfterSend
  <2>2. n \in 1..n
    BY <2>1
  <2>3. wire'[Len(wire) + n].end
    BY <2>2, WireAfterSend
  <2> QED BY <1>1, <2>1, <2>3
<1>3. /\ l \in Nat /\ n \in Nat \ {0} /\ DOMAIN wire = 1..l /\ DOMAIN wire' = 1..l + n
      /\ \A k \in 1..l : wire[k].fds \in Seq(Numbers)
      /\ clientFds \in Seq(Numbers)
  <2>1. wire' \in Seq(Carried)
    BY TypeSend DEF TypeOK
  <2>2. DOMAIN wire' = 1..Len(wire')
    BY <2>1
  <2> QED BY <1>1, <1>2, <2>2, CarriedIs DEF TypeOK
<1>4. /\ clientFds' = <<>>
      /\ UNCHANGED <<environment, requests, in, inFds, msgFds, alive, handled>>
  BY DEF SendChunk, received
<1>5. UNCHANGED <<Queued, Kept>>
  BY <1>4 DEF Queued, Kept
<1>6. PICK F : F = ToSet(clientFds)
  OBVIOUS
<1>7. /\ \A k \in 1..l : WireFds(k)' = WireFds(k)
      /\ WireFds(l + 1)' = F
      /\ \A k \in 1..l + n : k > l + 1 => WireFds(k)' = {}
  <2>1. \A k \in 1..l : WireFds(k)' = WireFds(k)
    BY <1>2 DEF WireFds
  <2>2. wire'[l + 1].fds = clientFds
    BY <1>2, <1>3
  <2>3. WireFds(l + 1)' = F
    <3>1. WireFds(l + 1)' = ToSet(wire'[(l + 1)'].fds)
      BY DEF WireFds
    <3> QED BY <1>6, <2>2 DEF WireFds
  <2>4. ASSUME NEW k \in 1..l + n, k > l + 1
        PROVE  WireFds(k)' = {}
    <3>1. k - l \in 1..n /\ k - l # 1 /\ k = l + (k - l)
      BY <1>3, <2>4
    <3>2. wire'[k].fds = <<>>
      BY <1>2, <3>1
    <3> QED BY <3>2, ToSetOfNone DEF WireFds
  <2> QED BY <2>1, <2>3, <2>4
<1>8. OnWire' = OnWire \cup F
  <2>1. OnWire = UNION {WireFds(k) : k \in 1..l}
    BY <1>3 DEF OnWire
  <2>2. OnWire' = UNION {WireFds(k)' : k \in 1..l + n}
    BY <1>3 DEF OnWire, WireFds
  <2>3. ASSUME NEW x \in OnWire' PROVE x \in OnWire \cup F
    <3>1. PICK k \in 1..l + n : x \in WireFds(k)'
      BY <2>2, <2>3
    <3>2. k \in 1..l \/ k = l + 1 \/ k > l + 1
      BY <1>3
    <3> QED BY <1>7, <2>1, <3>1, <3>2
  <2>4. ASSUME NEW x \in OnWire PROVE x \in OnWire'
    <3>1. PICK k \in 1..l : x \in WireFds(k)
      BY <2>1, <2>4
    <3>2. k \in 1..l + n
      BY <1>3
    <3> QED BY <1>7, <2>2, <3>1, <3>2
  <2>5. l + 1 \in 1..l + n
    BY <1>3
  <2>6. F \subseteq OnWire'
    BY <1>7, <2>2, <2>5
  <2> QED BY <2>3, <2>4, <2>6
<1>9. ToSet(clientFds') = {}
  BY <1>4, ToSetOfNone
<1>10. /\ Increasing(Queued) /\ Increasing(clientFds)
       /\ \A k \in 1..l : Increasing(wire[k].fds)
       /\ \A i, j \in 1..l : i < j => Below(WireFds(i), WireFds(j))
       /\ Below(Kept, ToSet(Queued)) /\ Below(Kept, OnWire) /\ Below(Kept, F)
       /\ Below(ToSet(Queued), OnWire) /\ Below(ToSet(Queued), F)
       /\ Below(OnWire, F)
       /\ Kept \cup ToSet(Queued) \cup OnWire \cup F \subseteq DOMAIN requests
  BY <1>3, <1>6 DEF FdsInv, FdsInOrder
<1>11. \A k \in 1..l + n : Increasing(wire'[k].fds)
  <2> TAKE k \in 1..l + n
  <2>1. CASE k \in 1..l
    BY <1>2, <1>10, <2>1
  <2>2. CASE k = l + 1
    <3>1. 1 \in 1..n
      BY <1>3
    <3> QED BY <1>2, <1>10, <2>2, <3>1
  <2>3. CASE k > l + 1
    <3>1. k - l \in 1..n /\ k - l # 1 /\ k = l + (k - l)
      BY <1>3, <2>3
    <3>2. wire'[k].fds = <<>>
      BY <1>2, <3>1
    <3> QED BY <3>2 DEF Increasing
  <2> QED BY <1>3, <2>1, <2>2, <2>3
<1>12. ASSUME NEW i \in 1..l + n, NEW j \in 1..l + n, i < j
       PROVE  Below(WireFds(i)', WireFds(j)')
  <2>1. CASE j \in 1..l
    <3>1. i \in 1..l
      BY <1>3, <1>12, <2>1
    <3> QED BY <1>7, <1>10, <1>12, <2>1, <3>1
  <2>2. CASE j = l + 1
    <3>1. i \in 1..l
      BY <1>3, <1>12, <2>2
    <3>2. WireFds(i) \subseteq OnWire
      BY <1>3, <3>1 DEF OnWire
    <3>3. WireFds(i)' = WireFds(i) /\ WireFds(j)' = F
      BY <1>7, <2>2, <3>1
    <3> QED BY <1>10, <3>2, <3>3 DEF Below
  <2>3. CASE j > l + 1
    BY <1>7, <2>3 DEF Below
  <2> QED BY <1>3, <2>1, <2>2, <2>3
<1>13. FdsInOrder'
  <2>1. /\ Increasing(Queued)' /\ Increasing(clientFds')
        /\ \A k \in DOMAIN wire' : Increasing(wire'[k].fds)
    BY <1>3, <1>4, <1>5, <1>10, <1>11 DEF Increasing
  <2>2. /\ Below(Kept, OnWire') /\ Below(ToSet(Queued), OnWire')
    BY <1>8, <1>10 DEF Below
  <2>3. \A i, j \in DOMAIN wire' : i < j => Below(WireFds(i)', WireFds(j)')
    BY <1>3, <1>12
  <2>4. \A A : Below(A, {})
    BY DEF Below
  <2> QED BY <1>4, <1>5, <1>8, <1>9, <1>10, <2>1, <2>2, <2>3, <2>4
          DEF FdsInOrder, Below, WireFds
<1>14. ChunksEnd'
  <2>1. wire'[Len(wire')].end
    BY <1>2
  <2>2. ASSUME NEW i \in 1..l + n, NEW j \in 1..l + n, i < j,
               wire'[i].fds # <<>>, wire'[j].fds # <<>>
        PROVE  \E k \in i..j-1 : wire'[k].end
    <3>1. CASE j \in 1..l
      <4>1. i \in 1..l /\ i..j-1 \subseteq 1..l
        BY <1>3, <2>2, <3>1
      <4>2. wire[i].fds # <<>> /\ wire[j].fds # <<>>
        BY <1>2, <2>2, <3>1, <4>1
      <4>3. \E k \in i..j-1 : wire[k].end
        BY <1>3, <2>2, <3>1, <4>1, <4>2 DEF FdsInv, ChunksEnd
      <4> QED BY <1>2, <4>1, <4>3
    <3>2. CASE j = l + 1
      <4>1. l \in i..j-1 /\ l \in 1..l /\ wire # <<>>
        BY <1>1, <1>3, <2>2, <3>2
      <4>2. wire[l].end
        BY <1>1, <4>1 DEF FdsInv, ChunksEnd
      <4> QED BY <1>2, <4>1, <4>2
    <3>3. CASE j > l + 1
      <4>1. j - l \in 1..n /\ j - l # 1 /\ j = l + (j - l)
        BY <1>3, <3>3
      <4>2. wire'[j].fds = <<>>
        BY <1>2, <4>1
      <4> QED BY <2>2, <4>2
    <3> QED BY <1>3, <3>1, <3>2, <3>3
  <2> QED BY <1>3, <2>1, <2>2 DEF ChunksEnd
<1>15. FewAtOnce'
  <2>1. ASSUME Few, NEW k \in 1..l + n
        PROVE  Len(wire'[k].fds) <= MaxFds
    <3>1. CASE k \in 1..l
      BY <1>2, <1>3, <2>1, <3>1 DEF FdsInv, FewAtOnce
    <3>2. CASE k > l
      <4>1. k - l \in 1..n /\ k = l + (k - l)
        BY <1>3, <3>2
      <4>2. wire'[k].fds \in {clientFds, <<>>}
        BY <1>2, <4>1
      <4>3. Len(clientFds) <= MaxFds /\ Len(<<>>) = 0
        BY <2>1 DEF FdsInv, FewAtOnce
      <4> QED BY <4>2, <4>3
    <3> QED BY <1>3, <3>1, <3>2
  <2>2. Len(clientFds') = 0
    BY <1>4
  <2> QED BY <1>3, <1>4, <2>1, <2>2 DEF FewAtOnce, Few
<1>16. OwnFds'
  <2>1. ToSet(Queued') \cup OnWire' \cup ToSet(clientFds')
          = ToSet(Queued) \cup OnWire \cup F
    BY <1>5, <1>8, <1>9
  <2> QED BY <1>4, <1>6, <2>1 DEF FdsInv, OwnFds, Few, Waiting
<1> QED BY <1>13, <1>14, <1>15, <1>16 DEF FdsInv

LEMMA FdsReceive ==
  ASSUME TypeOK, FdsInv, Receive
  PROVE  FdsInv'
<1>1. wire # <<>>
  BY DEF Receive
<1>2. PICK l : l = Len(wire)
  OBVIOUS
<1>3. PICK t : t = Taken
  OBVIOUS
<1>4. /\ t \in 1..l /\ l \in Nat /\ DOMAIN wire = 1..l
      /\ \A k \in 1..l : wire[k].fds \in Seq(Numbers)
  BY <1>1, <1>2, <1>3, TakenIs, CarriedIs
<1>5. /\ Len(wire') = l - t /\ DOMAIN wire' = 1..l - t
      /\ \A k \in 1..l - t : wire'[k] = wire[t + k] /\ t + k \in 1..l
  <2>1. wire' = LeftWire
    BY DEF Receive
  <2>2. /\ LeftWire \in Seq(Carried) /\ Len(LeftWire) = l - t
        /\ \A k \in 1..l - t : LeftWire[k] = wire[t + k]
    BY <1>1, <1>2, <1>3, TakenUnitsIs
  <2>3. DOMAIN LeftWire = 1..Len(LeftWire)
    BY <2>2
  <2> QED BY <1>4, <2>1, <2>2, <2>3
<1>6. PICK new : new = TakenFds
  OBVIOUS
<1>7. /\ new \in Seq(Numbers) /\ Increasing(new)
      /\ ToSet(new) = {} \/ \E j \in 1..t : ToSet(new) \subseteq WireFds(j)
  <2>1. /\ new \in Seq(Numbers) /\ ToSet(new) \subseteq ToSet(Riding)
        /\ Increasing(Riding) => Increasing(new)
    BY <1>1, <1>6, TakenFdsIs
  <2>2. CASE Riding = <<>>
    BY <2>1, <2>2, ToSetOfNone DEF Increasing
  <2>3. CASE \E j \in 1..t : Riding = wire[j].fds
    <3>1. PICK j \in 1..t : Riding = wire[j].fds
      BY <2>3
    <3>2. Increasing(Riding)
      BY <1>4, <3>1 DEF FdsInv, FdsInOrder
    <3> QED BY <2>1, <3>1, <3>2 DEF WireFds
  <2> QED BY <1>1, <1>3, <2>2, <2>3, RidingIs
<1>8. /\ inFds' = inFds \o new
      /\ UNCHANGED <<environment, requests, clientOut, clientFds, msgFds, handled>>
      /\ alive /\ alive' = ~(Len(in') > MaxIncoming)
  BY <1>6 DEF Receive, clientSide, Reading
<1>9. /\ Queued' = Queued \o new /\ Queued \in Seq(Numbers)
      /\ ToSet(Queued') = ToSet(Queued) \cup ToSet(new)
  <2>1. msgFds \in Seq(Numbers) /\ inFds \in Seq(Numbers)
    BY DEF TypeOK
  <2>2. msgFds \o (inFds \o new) = (msgFds \o inFds) \o new
    BY <1>7, <2>1, NumbersConcat3
  <2>3. Queued' = Queued \o new
    BY <1>8, <2>2 DEF Queued
  <2>4. Queued \in Seq(Numbers)
    BY QueuedIs
  <2>5. ToSet(Queued \o new) = ToSet(Queued) \cup ToSet(new)
    BY <1>7, <2>4, ToSetOfConcat
  <2> QED BY <2>3, <2>4, <2>5
<1>10. Kept' = Kept
  BY <1>8 DEF Kept
<1>11. \A k \in 1..l : WireFds(k) \subseteq OnWire
  BY <1>4 DEF OnWire
<1>12. ToSet(new) \subseteq OnWire
  BY <1>4, <1>7, <1>11
<1>13. \A k \in 1..l - t : WireFds(k)' = WireFds(t + k)
  BY <1>5 DEF WireFds
<1>14. /\ OnWire' \subseteq OnWire
       /\ \A x \in OnWire' : \E k \in 1..l - t : x \in WireFds(t + k)
  <2>1. OnWire' = UNION {WireFds(k)' : k \in 1..l - t}
    BY <1>5 DEF OnWire, WireFds
  <2>2. \A x \in OnWire' : \E k \in 1..l - t : x \in WireFds(t + k)
    BY <1>13, <2>1
  <2> QED BY <1>5, <1>11, <2>2
<1>15. /\ Increasing(Queued) /\ Increasing(clientFds)
       /\ \A k \in 1..l : Increasing(wire[k].fds)
       /\ \A i, j \in 1..l : i < j => Below(WireFds(i), WireFds(j))
       /\ Below(Kept, ToSet(Queued)) /\ Below(Kept, OnWire) /\ Below(Kept, ToSet(clientFds))
       /\ Below(ToSet(Queued), OnWire) /\ Below(ToSet(Queued), ToSet(clientFds))
       /\ Below(OnWire, ToSet(clientFds))
       /\ Kept \cup ToSet(Queued) \cup OnWire \cup ToSet(clientFds) \subseteq DOMAIN requests
  BY <1>4 DEF FdsInv, FdsInOrder
<1>16. Below(ToSet(new), OnWire')
  <2> SUFFICES ASSUME NEW x \in ToSet(new), NEW y \in OnWire' PROVE x < y
    BY DEF Below
  <2>1. PICK j \in 1..t : x \in WireFds(j)
    BY <1>7
  <2>2. PICK k \in 1..l - t : y \in WireFds(t + k)
    BY <1>14
  <2>3. j \in 1..l /\ t + k \in 1..l /\ j < t + k
    BY <1>4, <1>5
  <2> QED BY <1>15, <2>1, <2>2, <2>3 DEF Below
<1>17. FdsInOrder'
  <2>1. Increasing(Queued')
    <3>1. Below(ToSet(Queued), ToSet(new))
      BY <1>12, <1>15 DEF Below
    <3> QED BY <1>7, <1>9, <1>15, <3>1, IncreasingConcat
  <2>2. \A k \in DOMAIN wire' : Increasing(wire'[k].fds)
    BY <1>5, <1>15
  <2>3. \A i, j \in DOMAIN wire' : i < j => Below(WireFds(i)', WireFds(j)')
    <3> SUFFICES ASSUME NEW i \in 1..l - t, NEW j \in 1..l - t, i < j
                 PROVE  Below(WireFds(i)', WireFds(j)')
      BY <1>5
    <3>1. t + i \in 1..l /\ t + j \in 1..l /\ t + i < t + j
      BY <1>4, <1>5
    <3> QED BY <1>13, <1>15, <3>1
  <2>4. /\ Below(Kept, ToSet(Queued')) /\ Below(Kept, OnWire')
        /\ Below(ToSet(Queued'), OnWire') /\ Below(ToSet(Queued'), ToSet(clientFds))
        /\ Below(OnWire', ToSet(clientFds))
    BY <1>9, <1>12, <1>14, <1>15, <1>16 DEF Below
  <2>5. Kept \cup ToSet(Queued') \cup OnWire' \cup ToSet(clientFds) \subseteq DOMAIN requests
    BY <1>9, <1>12, <1>14, <1>15
  <2>6. Increasing(clientFds')
    BY <1>8, <1>15
  <2> QED BY <1>8, <1>10, <1>15, <2>1, <2>2, <2>3, <2>4, <2>5, <2>6
          DEF FdsInOrder, Increasing, WireFds
<1>18. ChunksEnd'
  <2>1. wire' # <<>> => wire'[Len(wire')].end
    <3> SUFFICES ASSUME wire' # <<>> PROVE wire'[Len(wire')].end
      OBVIOUS
    <3>1. wire' \in Seq(Carried)
      BY TypeReceive DEF TypeOK
    <3>2. l - t \in 1..l - t /\ t + (l - t) = l
      BY <1>4, <1>5, <3>1
    <3>3. wire'[l - t] = wire[l]
      BY <1>5, <3>2
    <3>4. wire[l].end
      BY <1>1, <1>2 DEF FdsInv, ChunksEnd
    <3> QED BY <1>5, <3>3, <3>4
  <2>2. ASSUME NEW i \in 1..l - t, NEW j \in 1..l - t, i < j,
               wire'[i].fds # <<>>, wire'[j].fds # <<>>
        PROVE  \E k \in i..j-1 : wire'[k].end
    <3>1. /\ t + i \in 1..l /\ t + j \in 1..l /\ t + i < t + j
          /\ wire[t + i].fds # <<>> /\ wire[t + j].fds # <<>>
      BY <1>4, <1>5, <2>2
    <3>0. \A a, b \in 1..l :
            a < b /\ wire[a].fds # <<>> /\ wire[b].fds # <<>> =>
              \E k \in a..b-1 : wire[k].end
      BY <1>4 DEF FdsInv, ChunksEnd
    <3>a. PICK a : a = t + i
      OBVIOUS
    <3>b. PICK b : b = t + j
      OBVIOUS
    <3>2. PICK k \in a..b-1 : wire[k].end
      BY <3>0, <3>1, <3>a, <3>b
    <3>3. k - t \in i..j-1 /\ k - t \in 1..l - t /\ t + (k - t) = k
      BY <1>4, <3>2, <3>a, <3>b
    <3>4. wire'[k - t] = wire[k]
      BY <1>5, <3>3
    <3> QED BY <3>2, <3>3, <3>4
  <2> QED BY <1>5, <2>1, <2>2 DEF ChunksEnd
<1>19. FewAtOnce'
  BY <1>4, <1>5, <1>8 DEF FdsInv, FewAtOnce, Few
<1>20. OwnFds'
  <2>1. ToSet(Queued') \cup OnWire' \cup ToSet(clientFds')
          \subseteq ToSet(Queued) \cup OnWire \cup ToSet(clientFds)
    BY <1>8, <1>9, <1>12, <1>14
  <2> QED BY <1>8, <2>1 DEF FdsInv, OwnFds, Few, Waiting
<1> QED BY <1>17, <1>18, <1>19, <1>20 DEF FdsInv

\* A request that reaches its handler finds its own descriptor in front.
LEMMA FrontIsFirst ==
  ASSUME TypeOK, LaidOut, FdsInv, Few, alive, in # <<>>, First.fd
  PROVE  Queued # <<>> /\ FrontFd = Len(handled) + 1
<1>1. PICK d : d = Len(handled) + 1
  OBVIOUS
<1>2. /\ d \in DOMAIN requests /\ requests[d].fd
  BY <1>1, FirstIs
<1>3. d \in Waiting /\ d \in Nat \ {0}
  <2>1. Len(requests) \in Nat /\ Len(handled) \in Nat /\ DOMAIN requests = 1..Len(requests)
    BY DEF TypeOK
  <2> QED BY <1>1, <1>2, <2>1 DEF Waiting
<1>4. PICK start \in Starts :
        Laid(start, Stream, Len(handled) + 1, requests) /\ FdsAhead(start)
  BY DEF LaidOut
<1>5. start[d] = 0
  BY <1>1, <1>4 DEF Laid
<1>6. Len(in) \in Nat \ {0} /\ Len(wire) \in Nat /\ DOMAIN wire = 1..Len(wire)
  BY CarriedIs DEF TypeOK
<1>7. d \in ToSet(Queued)
  <2>1. \/ d \in ToSet(Queued)
        \/ \E j \in DOMAIN wire : d \in WireFds(j) /\ Len(in) + j <= start[d] + 1
        \/ d \in ToSet(clientFds) /\ Len(in) + Len(wire) <= start[d]
    BY <1>2, <1>3, <1>4 DEF FdsAhead
  <2>2. ~\E j \in DOMAIN wire : d \in WireFds(j) /\ Len(in) + j <= start[d] + 1
    BY <1>5, <1>6
  <2>3. ~(Len(in) + Len(wire) <= start[d])
    BY <1>5, <1>6
  <2> QED BY <2>1, <2>2, <2>3
<1>8. PICK q : q = Queued
  OBVIOUS
<1>9. q \in Seq(Numbers) /\ q # <<>> /\ Increasing(q)
  <2>1. q \in Seq(Numbers) /\ Increasing(q)
    BY <1>8, QueuedIs DEF FdsInv, FdsInOrder
  <2>2. q # <<>>
    BY <1>7, <1>8, ToSetOfNone
  <2> QED BY <2>1, <2>2
<1>10. /\ Head(q) \in Numbers
       /\ ToSet(q) = {Head(q)} \cup ToSet(Tail(q))
       /\ \A x \in ToSet(Tail(q)) : Head(q) < x
  BY <1>9, HeadAndTail
<1>11. Head(q) \in Waiting
  BY <1>8, <1>10 DEF FdsInv, OwnFds
<1>12. Head(q) = d
  <2>1. Head(q) >= d /\ Head(q) \in Nat
    BY <1>1, <1>3, <1>11 DEF Waiting, TypeOK
  <2>2. d = Head(q) \/ Head(q) < d
    BY <1>7, <1>8, <1>10
  <2> QED BY <1>3, <2>1, <2>2
<1> QED BY <1>1, <1>8, <1>9, <1>12 DEF FrontFd

\* Both ways of dispatching leave the queue as it is or take its front.
LEMMA FdsQueue ==
  ASSUME TypeOK, FdsInv, Queued' \in {Queued, BehindFront},
         Kept' \subseteq Kept \cup (IF Queued' = Queued THEN {} ELSE {FrontFd}),
         UNCHANGED <<environment, requests, wire, clientFds>>
  PROVE  FdsInOrder' /\ ChunksEnd' /\ FewAtOnce'
<1>1. UNCHANGED OnWire /\ \A k \in DOMAIN wire : UNCHANGED WireFds(k)
  BY DEF OnWire, WireFds
<1>2. ChunksEnd' /\ FewAtOnce'
  BY DEF FdsInv, ChunksEnd, FewAtOnce, Few
<1>3. PICK q : q = Queued
  OBVIOUS
<1>4. q \in Seq(Numbers) /\ Increasing(q)
  BY <1>3, QueuedIs DEF FdsInv, FdsInOrder
<1>5. /\ Increasing(Queued)' /\ ToSet(Queued') \subseteq ToSet(q)
      /\ \A x \in Kept' : x \in Kept
           \/ (x \in ToSet(q) /\ \A y \in ToSet(Queued') : x < y)
  <2>1. CASE Queued' = Queued
    BY <1>3, <1>4, <2>1 DEF Increasing
  <2>2. CASE Queued' # Queued
    <3>1. Queued' = BehindFront
      BY <2>2
    <3>2. q # <<>>
      BY <1>3, <2>2, <3>1 DEF BehindFront
    <3>3. /\ Queued' = Tail(q) /\ FrontFd = Head(q)
      BY <1>3, <3>1, <3>2 DEF BehindFront, FrontFd
    <3>4. /\ Increasing(Tail(q))
          /\ ToSet(q) = {Head(q)} \cup ToSet(Tail(q))
          /\ \A x \in ToSet(Tail(q)) : Head(q) < x
      BY <1>4, <3>2, HeadAndTail
    <3>5. \A x \in Kept' : x \in Kept \/ x = Head(q)
      BY <2>2, <3>3
    <3>6. Increasing(Queued)'
      BY <3>3, <3>4 DEF Increasing
    <3>7. ToSet(Queued') = ToSet(Tail(q))
      BY <3>3
    <3> QED BY <3>4, <3>5, <3>6, <3>7
  <2> QED BY <2>1, <2>2
<1>6. /\ Below(Kept, ToSet(q)) /\ Below(Kept, OnWire) /\ Below(Kept, ToSet(clientFds))
      /\ Below(ToSet(q), OnWire) /\ Below(ToSet(q), ToSet(clientFds))
      /\ Below(OnWire, ToSet(clientFds))
      /\ Kept \cup ToSet(q) \cup OnWire \cup ToSet(clientFds) \subseteq DOMAIN requests
      /\ Increasing(clientFds)
      /\ \A k \in DOMAIN wire : Increasing(wire[k].fds)
      /\ \A k, l \in DOMAIN wire : k < l => Below(WireFds(k), WireFds(l))
  BY <1>3 DEF FdsInv, FdsInOrder
<1>7. /\ Below(Kept', ToSet(Queued')) /\ Below(Kept', OnWire) /\ Below(Kept', ToSet(clientFds))
      /\ Below(ToSet(Queued'), OnWire) /\ Below(ToSet(Queued'), ToSet(clientFds))
  BY <1>5, <1>6 DEF Below
<1>8. Kept' \cup ToSet(Queued') \cup OnWire \cup ToSet(clientFds) \subseteq DOMAIN requests
  BY <1>5, <1>6
<1>9. FdsInOrder'
  BY <1>1, <1>5, <1>6, <1>7, <1>8 DEF FdsInOrder, Increasing, Below, WireFds
<1> QED BY <1>2, <1>9

\* What a handler is given, if anything, it keeps.
LEMMA KeptAfter ==
  ASSUME TypeOK, NEW h, h.fd \in Numbers \cup {NoFd}, handled' = Append(handled, h)
  PROVE  Kept' = Kept \cup ({h.fd} \ {NoFd})
<1>1. PICK d : d = Len(handled)
  OBVIOUS
<1>2. /\ d \in Nat /\ DOMAIN handled = 1..d /\ DOMAIN handled' = 1..d + 1
      /\ \A k \in 1..d : handled'[k] = handled[k]
      /\ handled'[d + 1] = h
  BY <1>1 DEF TypeOK
<1>3. Kept = {handled[k].fd : k \in 1..d} \ {NoFd}
  BY <1>2 DEF Kept
<1>4. Kept' = {handled'[k].fd : k \in 1..d + 1} \ {NoFd}
  BY <1>2 DEF Kept
<1>5. 1..d + 1 = 1..d \cup {d + 1}
  BY <1>2
<1> QED BY <1>2, <1>3, <1>4, <1>5

LEMMA FdsDispatch ==
  ASSUME TypeOK, LaidOut, FdsInv, Dispatch
  PROVE  /\ FdsInv'
         /\ ToSet(Queued') \cup Kept' = ToSet(Queued) \cup Kept
         /\ Queued' = IF First.fd THEN BehindFront ELSE Queued
<1>1. /\ in # <<>> /\ alive
      /\ First.fd => Queued # <<>>
      /\ inFds' = <<>>
      /\ msgFds' = IF First.fd THEN BehindFront ELSE Queued
      /\ UNCHANGED <<environment, requests, clientFds, wire, alive>>
  BY DEF Dispatch, Complete, clientSide
<1>2. PICK h : h = [units |-> SubSeq(in, 1, First.size),
                    fd |-> IF First.fd THEN FrontFd ELSE NoFd]
  OBVIOUS
<1>3. /\ handled' = Append(handled, h)
      /\ h.fd = IF First.fd THEN FrontFd ELSE NoFd
      /\ h.fd \in Numbers \cup {NoFd}
  <2>1. handled' = Append(handled, h)
    BY <1>2 DEF Dispatch
  <2> QED BY <1>2, <2>1, QueuedIs
<1>4. Queued' = IF First.fd THEN BehindFront ELSE Queued
  <2>1. msgFds' \in Seq(Numbers)
    BY <1>1, QueuedIs
  <2> QED BY <1>1, <2>1 DEF Queued
<1>5. Kept' = Kept \cup ({h.fd} \ {NoFd})
  BY <1>3, KeptAfter
<1>6. NoFd \notin Numbers
  BY DEF Numbers
<1>7. PICK q : q = Queued
  OBVIOUS
<1>8. q \in Seq(Numbers) /\ Increasing(q)
  BY <1>7, QueuedIs DEF FdsInv, FdsInOrder
<1>9. ASSUME First.fd
      PROVE  /\ Queued' = Tail(q) /\ FrontFd = Head(q) /\ Head(q) \in Numbers
             /\ q # <<>> /\ Queued' # q
             /\ ToSet(q) = {Head(q)} \cup ToSet(Tail(q))
             /\ \A x \in ToSet(Tail(q)) : Head(q) < x
             /\ Kept' = Kept \cup {Head(q)}
  <2>1. q # <<>>
    BY <1>1, <1>7, <1>9
  <2>2. Queued' = Tail(q) /\ FrontFd = Head(q)
    BY <1>4, <1>7, <1>9, <2>1 DEF BehindFront, FrontFd
  <2>3. /\ Head(q) \in Numbers
        /\ ToSet(q) = {Head(q)} \cup ToSet(Tail(q))
        /\ \A x \in ToSet(Tail(q)) : Head(q) < x
    BY <1>8, <2>1, HeadAndTail
  <2>4. Tail(q) # q
    BY <1>8, <2>1
  <2>5. Kept' = Kept \cup {Head(q)}
    BY <1>3, <1>5, <1>6, <1>9, <2>2, <2>3
  <2> QED BY <2>1, <2>2, <2>3, <2>4, <2>5
<1>10. ASSUME ~First.fd
       PROVE  Queued' = q /\ Kept' = Kept
  BY <1>3, <1>4, <1>5, <1>7, <1>10
<1>11. ToSet(Queued') \cup Kept' = ToSet(Queued) \cup Kept
  BY <1>7, <1>9, <1>10
<1>12. FdsInOrder' /\ ChunksEnd' /\ FewAtOnce'
  <2>1. Queued' \in {Queued, BehindFront}
    BY <1>4
  <2>2. Kept' \subseteq Kept \cup (IF Queued' = Queued THEN {} ELSE {FrontFd})
    BY <1>7, <1>9, <1>10
  <2> QED BY <1>1, <2>1, <2>2, FdsQueue
<1>13. OwnFds'
  <2>1. PICK d : d = Len(handled)
    OBVIOUS
  <2>2. d \in Nat /\ Len(handled') = d + 1 /\ Len(requests) \in Nat
    BY <1>3, <2>1 DEF TypeOK
  <2> SUFFICES ASSUME Few, NEW x \in ToSet(Queued') \cup OnWire \cup ToSet(clientFds)
               PROVE  x \in d + 2 .. Len(requests) /\ requests[x].fd
    <3>1. OnWire' = OnWire
      BY <1>1 DEF OnWire, WireFds
    <3>2. Waiting' = d + 2 .. Len(requests)
      BY <1>1, <2>2 DEF Waiting
    <3> QED BY <1>1, <3>1, <3>2 DEF OwnFds, Few
  <2>3. x \in ToSet(q) \cup OnWire \cup ToSet(clientFds)
    BY <1>7, <1>9, <1>10
  <2>4. x \in d + 1 .. Len(requests) /\ requests[x].fd
    BY <1>1, <1>7, <2>1, <2>3 DEF FdsInv, OwnFds, Waiting
  <2>5. First = requests[d + 1]
    BY <1>1, <2>1, FirstIs
  <2>6. x # d + 1
    <3>1. CASE ~First.fd
      BY <2>4, <2>5, <3>1
    <3>2. CASE First.fd
      <4>1. Head(q) = d + 1
        BY <1>1, <1>9, <2>1, <3>2, FrontIsFirst
      <4>2. /\ Below(ToSet(q), OnWire) /\ Below(ToSet(q), ToSet(clientFds))
            /\ Head(q) \in ToSet(q)
        BY <1>7, <1>9, <3>2 DEF FdsInv, FdsInOrder
      <4>3. d + 1 < x
        BY <1>9, <3>2, <4>1, <4>2 DEF Below
      <4> QED BY <2>2, <4>3
    <3> QED BY <3>1, <3>2
  <2> QED BY <2>2, <2>4, <2>6
<1> QED BY <1>4, <1>11, <1>12, <1>13 DEF FdsInv

LEMMA FdsRefused ==
  ASSUME TypeOK, FdsInv, DispatchRefused
  PROVE  /\ FdsInv'
         /\ Kept' = Kept /\ Queued' = IF First.fd THEN BehindFront ELSE Queued
<1>1. /\ alive' = FALSE /\ inFds' = <<>>
      /\ msgFds' = IF First.fd THEN BehindFront ELSE Queued
      /\ UNCHANGED <<environment, requests, clientFds, wire, handled>>
  BY DEF DispatchRefused, clientSide
<1>2. Queued' = IF First.fd THEN BehindFront ELSE Queued
  <2>1. msgFds' \in Seq(Numbers)
    BY <1>1, QueuedIs
  <2> QED BY <1>1, <2>1 DEF Queued
<1>3. Kept' = Kept
  BY <1>1 DEF Kept
<1>4. FdsInOrder' /\ ChunksEnd' /\ FewAtOnce'
  <2>1. Queued' \in {Queued, BehindFront}
    BY <1>2
  <2>2. Kept' \subseteq Kept \cup (IF Queued' = Queued THEN {} ELSE {FrontFd})
    BY <1>3
  <2> QED BY <1>1, <2>1, <2>2, FdsQueue
<1>5. OwnFds'
  BY <1>1 DEF OwnFds
<1> QED BY <1>2, <1>3, <1>4, <1>5 DEF FdsInv

LEMMA FdsOthers ==
  ASSUME TypeOK, FdsInv,
         CloseClient \/ ReceiveNothing \/ ReceiveEnd \/ DispatchEnd \/ Reap
         \/ UNCHANGED vars
  PROVE  FdsInv'
<1>1. UNCHANGED <<environment, requests, clientFds, wire, handled>>
  BY DEF CloseClient, ReceiveNothing, ReceiveEnd, DispatchEnd, Reap, vars, clientSide
<1>2. Kept' = Kept /\ OnWire' = OnWire /\ \A k \in DOMAIN wire : WireFds(k)' = WireFds(k)
  BY <1>1 DEF Kept, OnWire, WireFds
<1>3. Queued' = Queued \/ (Queued' = <<>> /\ ~alive')
  <2>1. CASE CloseClient \/ ReceiveNothing \/ ReceiveEnd \/ UNCHANGED vars
    BY <2>1 DEF CloseClient, ReceiveNothing, ReceiveEnd, vars, received, Queued
  <2>2. CASE DispatchEnd
    <3>1. msgFds' = Queued /\ inFds' = <<>>
      BY <2>2 DEF DispatchEnd
    <3>2. Queued \in Seq(Numbers)
      BY QueuedIs
    <3> QED BY <3>1, <3>2 DEF Queued
  <2>3. CASE Reap
    BY <2>3 DEF Reap, Destruct, Queued
  <2> QED BY <2>1, <2>2, <2>3
<1>4. ChunksEnd' /\ FewAtOnce'
  BY <1>1 DEF FdsInv, ChunksEnd, FewAtOnce, Few
<1>5. CASE Queued' = Queued
  <2>1. FdsInOrder'
    BY <1>1, <1>2, <1>5 DEF FdsInv, FdsInOrder, Increasing, Below, WireFds
  <2>2. alive' => alive
    BY DEF CloseClient, ReceiveNothing, ReceiveEnd, DispatchEnd, Reap, vars
  <2>3. OwnFds'
    BY <1>1, <1>2, <1>5, <2>2 DEF FdsInv, OwnFds, Few, Waiting
  <2> QED BY <1>4, <2>1, <2>3 DEF FdsInv
<1>6. CASE Queued' = <<>> /\ ~alive'
  <2>1. ToSet(Queued') = {}
    BY <1>6, ToSetOfNone
  <2>2. Increasing(Queued)'
    BY <1>6 DEF Increasing
  <2>3. FdsInOrder'
    BY <1>1, <1>2, <2>1, <2>2 DEF FdsInv, FdsInOrder, Increasing, Below, WireFds
  <2>4. OwnFds'
    BY <1>6 DEF OwnFds
  <2> QED BY <1>4, <2>3, <2>4 DEF FdsInv
<1> QED BY <1>3, <1>5, <1>6

----------------------------------------------------------------------------
(* The stream stays laid out, and descriptors ahead of their requests.     *)

LEMMA ToSetOfAppend ==
  ASSUME NEW s \in Seq(Numbers), NEW n \in Numbers
  PROVE  ToSet(Append(s, n)) = ToSet(s) \cup {n}
<1>1. PICK t : t = Append(s, n)
  OBVIOUS
<1>2. /\ DOMAIN t = 1..Len(s) + 1 /\ DOMAIN s = 1..Len(s) /\ Len(s) \in Nat
      /\ \A i \in 1..Len(s) : t[i] = s[i]
      /\ t[Len(s) + 1] = n
  BY <1>1
<1>3. ASSUME NEW x PROVE x \in ToSet(t) <=> x \in ToSet(s) \cup {n}
  <2>1. x \in ToSet(t) <=> \E i \in 1..Len(s) + 1 : t[i] = x
    BY <1>2 DEF ToSet
  <2>2. x \in ToSet(s) <=> \E i \in 1..Len(s) : s[i] = x
    BY <1>2 DEF ToSet
  <2> QED BY <1>2, <2>1, <2>2
<1> QED BY <1>1, <1>3

LEMMA LaidMake ==
  ASSUME TypeOK, LaidOut, NEW r \in Asked, MakeRequest(r)
  PROVE  LaidOut'
<1>1. PICK start \in Starts :
        Laid(start, Stream, Len(handled) + 1, requests) /\ FdsAhead(start)
  BY DEF LaidOut
<1>m. PICK m : m = Len(requests)
  OBVIOUS
<1>d. PICK d : d = Len(handled)
  OBVIOUS
<1>2. /\ r \in Request /\ r.size \in 1..MaxUnits
      /\ m \in Nat /\ m < MaxRequests /\ d \in Nat /\ d <= m
      /\ requests \in Seq(Request) /\ m + 1 \in Numbers
      /\ in \in Seq(Unit) /\ clientOut \in Seq(Unit) /\ clientFds \in Seq(Numbers)
  <2>1. r \in Request /\ r.size \in 1..MaxUnits
    BY DEF Asked, Request
  <2>2. m \in Nat /\ d \in Nat /\ d <= m
    BY <1>m, <1>d, HandledAreMade
  <2>3. m + 1 <= MaxRequests
    BY <1>m DEF MakeRequest
  <2>4. m < MaxRequests /\ m + 1 \in Numbers
    BY <2>2, <2>3 DEF Numbers
  <2> QED BY <2>1, <2>2, <2>4 DEF TypeOK
<1>3. /\ requests' = Append(requests, r) /\ clientOut' = clientOut \o UnitsOf(m + 1, r.size)
      /\ clientFds' = IF r.fd THEN Append(clientFds, m + 1) ELSE clientFds
      /\ UNCHANGED <<environment, wire, in, inFds, msgFds, handled, alive>>
  BY <1>m DEF MakeRequest, received
<1>4. /\ Len(requests') = m + 1
      /\ \A n \in 1..m : requests'[n] = requests[n]
      /\ requests'[m + 1] = r
  BY <1>m, <1>2, <1>3
<1>u. PICK u : u = UnitsOf(m + 1, r.size)
  OBVIOUS
<1>s. PICK s : s = Stream
  OBVIOUS
<1>5. /\ s \in Seq(Unit) /\ Len(s) \in Nat /\ Stream' = s \o u
      /\ Len(in) \in Nat /\ Len(wire) \in Nat
      /\ Len(s) >= Len(in) + Len(wire)
  <2>1. u \in Seq(Unit)
    BY <1>2, <1>u, UnitsTyped
  <2>2. PICK w : w = UnitsOn(wire)
    OBVIOUS
  <2>3. w \in Seq(Unit)
    BY <2>2, UnitsOnWire
  <2>4. PICK p : p = in \o w
    OBVIOUS
  <2>5. p \in Seq(Unit)
    BY <1>2, <2>3, <2>4, UnitsConcat
  <2>6. s = p \o clientOut
    BY <1>s, <2>2, <2>4, StreamIs
  <2>7. UnitsOn(wire') = UnitsOn(wire)
    BY <1>3
  <2>8. Stream' = p \o (clientOut \o u)
    BY <1>3, <1>u, <2>2, <2>4, <2>7 DEF Stream, UnitsOn
  <2>9. (p \o clientOut) \o u = p \o (clientOut \o u)
    BY <1>2, <2>1, <2>5, UnitsConcat3
  <2>10. /\ s \in Seq(Unit) /\ Len(s) = Len(in) + Len(wire) + Len(clientOut)
    BY <1>s, StreamIs
  <2>11. Len(in) \in Nat /\ Len(wire) \in Nat /\ Len(clientOut) \in Nat
    BY <1>2, CarriedIs
  <2> QED BY <2>6, <2>8, <2>9, <2>10, <2>11
<1>n. PICK next : next = [start EXCEPT ![m + 2] = Len(s) + r.size]
  OBVIOUS
<1>6. /\ next \in Starts
      /\ Laid(next, s \o u, d + 1, Append(requests, r))
  <2>1. next = [start EXCEPT ![Len(requests) + 2] = Len(s) + r.size]
    BY <1>m, <1>n
  <2>2. Laid(start, s, d + 1, requests) /\ d + 1 \in Nat \ {0} /\ Len(requests) < MaxRequests
    BY <1>1, <1>d, <1>s, <1>m, <1>2
  <2>3. /\ next \in Starts
        /\ Laid(next, s \o UnitsOf(Len(requests) + 1, r.size), d + 1, Append(requests, r))
    BY <1>2, <1>5, <2>1, <2>2, LaidGrows
  <2> QED BY <2>3, <1>m, <1>u
<1>7. /\ \A n \in 1..m + 1 : next[n] = start[n]
      /\ start[m + 1] = Len(s)
  <2>1. \A n \in 1..m + 1 : next[n] = start[n]
    BY <1>2, <1>n DEF Starts
  <2>2. start[m + 1] = Len(s)
    BY <1>1, <1>m, <1>s DEF Laid
  <2> QED BY <2>1, <2>2
<1>8. /\ r.fd => ToSet(clientFds') = ToSet(clientFds) \cup {m + 1}
      /\ ~r.fd => clientFds' = clientFds
  BY <1>2, <1>3, ToSetOfAppend
<1>9. FdsAhead(next)'
  <2> SUFFICES ASSUME Few, alive, NEW n \in d + 1 .. m + 1, requests'[n].fd
               PROVE  \/ n \in ToSet(Queued)
                      \/ \E j \in DOMAIN wire : n \in WireFds(j) /\ Len(in) + j <= next[n] + 1
                      \/ n \in ToSet(clientFds') /\ Len(in) + Len(wire) <= next[n]
    BY <1>3, <1>4, <1>d DEF FdsAhead, Waiting, Few, Queued, WireFds
  <2>1. CASE n = m + 1
    BY <1>2, <1>4, <1>5, <1>7, <1>8, <2>1
  <2>2. CASE n # m + 1
    <3>1. n \in Waiting /\ requests[n].fd /\ next[n] = start[n]
      BY <1>2, <1>4, <1>7, <1>d, <1>m, <2>2, SMTT(30) DEF Waiting
    <3>2. \/ n \in ToSet(Queued)
          \/ \E j \in DOMAIN wire : n \in WireFds(j) /\ Len(in) + j <= start[n] + 1
          \/ n \in ToSet(clientFds) /\ Len(in) + Len(wire) <= start[n]
      BY <1>1, <3>1 DEF FdsAhead
    <3>3. ToSet(clientFds) \subseteq ToSet(clientFds')
      BY <1>8
    <3> QED BY <3>1, <3>2, <3>3
  <2> QED BY <2>1, <2>2
<1>10. m + 1 <= MaxRequests
  BY <1>2
<1>11. /\ Laid(next, Stream', Len(handled') + 1, requests')
       /\ Len(requests') <= MaxRequests
  BY <1>3, <1>4, <1>5, <1>6, <1>d, <1>10
<1> QED BY <1>6, <1>9, <1>11 DEF LaidOut

LEMMA LaidSend ==
  ASSUME TypeOK, LaidOut, NEW k \in Nat, SendChunk(k)
  PROVE  LaidOut'
<1>1. PICK start \in Starts :
        Laid(start, Stream, Len(handled) + 1, requests) /\ FdsAhead(start)
  BY DEF LaidOut
<1>2. PICK l : l = Len(wire)
  OBVIOUS
<1>3. /\ k \in 1..Len(clientOut) /\ Len(wire') = l + k
      /\ \A i \in 1..l : wire'[i] = wire[i]
      /\ \A i \in 1..k : /\ wire'[l + i].unit = clientOut[i]
                         /\ wire'[l + i].fds = IF i = 1 THEN clientFds ELSE <<>>
  BY <1>2, WireAfterSend
<1>4. /\ l \in Nat /\ k \in Nat \ {0} /\ DOMAIN wire = 1..l /\ DOMAIN wire' = 1..l + k
      /\ in \in Seq(Unit) /\ clientOut \in Seq(Unit)
  <2>1. wire' \in Seq(Carried)
    BY TypeSend DEF TypeOK
  <2>2. DOMAIN wire' = 1..Len(wire')
    BY <2>1
  <2> QED BY <1>2, <1>3, <2>2, CarriedIs DEF TypeOK
<1>5. /\ clientFds' = <<>>
      /\ clientOut' = SubSeq(clientOut, k + 1, Len(clientOut))
      /\ UNCHANGED <<environment, requests, in, inFds, msgFds, alive, handled>>
  BY DEF SendChunk, received
<1>6. Stream' = Stream
  <2>1. PICK a : a = SubSeq(clientOut, 1, k)
    OBVIOUS
  <2>2. PICK b : b = SubSeq(clientOut, k + 1, Len(clientOut))
    OBVIOUS
  <2>3. a \in Seq(Unit) /\ b \in Seq(Unit) /\ Len(a) = k /\ clientOut = a \o b
    <3>1. k \in 0..Len(clientOut)
      BY <1>3
    <3> QED BY <1>4, <2>1, <2>2, <3>1, UnitsSplit
  <2>4. PICK w : w = UnitsOn(wire)
    OBVIOUS
  <2>5. w \in Seq(Unit) /\ Len(w) = l /\ \A i \in 1..l : w[i] = wire[i].unit
    BY <1>2, <2>4, UnitsOnWire
  <2>6. PICK v : v = UnitsOn(wire')
    OBVIOUS
  <2>7. v \in Seq(Unit) /\ Len(v) = l + k /\ \A i \in 1..l + k : v[i] = wire'[i].unit
    <3>1. \A i \in 1..l + k : wire'[i].unit \in Unit
      <4>1. wire' \in Seq(Carried)
        BY TypeSend DEF TypeOK
      <4>2. \A i \in 1..l + k : wire'[i] \in Carried
        BY <1>3, <4>1
      <4> QED BY <4>2 DEF Carried
    <3>2. v = [i \in 1..l + k |-> wire'[i].unit]
      BY <1>4, <2>6 DEF UnitsOn
    <3> QED BY <1>4, <3>1, <3>2
  <2>8. PICK c : c = w \o a
    OBVIOUS
  <2>9. /\ c \in Seq(Unit) /\ Len(c) = l + k
        /\ \A i \in 1..l : c[i] = w[i]
        /\ \A i \in 1..k : c[l + i] = a[i]
    <3>1. /\ c \in Seq(Unit) /\ Len(c) = Len(w) + Len(a)
          /\ \A i \in 1..Len(w) : c[i] = w[i]
          /\ \A i \in 1..Len(a) : c[Len(w) + i] = a[i]
      BY <2>3, <2>5, <2>8, UnitsConcat, ZenonT(40)
    <3> QED BY <2>3, <2>5, <3>1
  <2>10. \A i \in 1..k : a[i] = clientOut[i]
    BY <1>3, <1>4, <2>1
  <2>11. ASSUME NEW i \in 1..Len(v) PROVE v[i] = c[i]
    <3>1. i \in 1..l + k
      BY <2>7
    <3>2. CASE i \in 1..l
      <4>1. v[i] = wire'[i].unit /\ wire'[i] = wire[i]
        BY <1>3, <2>7, <3>1, <3>2
      <4>2. c[i] = w[i] /\ w[i] = wire[i].unit
        BY <2>5, <2>9, <3>2
      <4> QED BY <4>1, <4>2
    <3>3. CASE i \notin 1..l
      <4>1. PICK j : j = i - l
        OBVIOUS
      <4>2. j \in 1..k /\ i = l + j
        BY <1>4, <3>1, <3>3, <4>1
      <4>3. wire'[l + j].unit = clientOut[j]
        BY <1>3, <4>2
      <4> QED BY <2>7, <2>9, <2>10, <3>1, <4>2, <4>3
    <3> QED BY <3>2, <3>3
  <2>12. v = c
    BY <2>7, <2>9, <2>11, SeqEqual, Zenon
  <2>13. PICK p : p = in \o w
    OBVIOUS
  <2>14. p \in Seq(Unit)
    BY <1>4, <2>5, <2>13, UnitsConcat
  <2>15. in \o c = p \o a
    BY <1>4, <2>3, <2>5, <2>8, <2>13, UnitsConcat3, SMTT(30)
  <2>16. (p \o a) \o b = p \o (a \o b)
    BY <2>3, <2>14, UnitsConcat3
  <2>17. Stream = p \o clientOut
    BY <2>4, <2>13, StreamIs
  <2>18. Stream' = (in \o v) \o b
    BY <1>5, <2>2, <2>6 DEF Stream, UnitsOn
  <2> QED BY <2>3, <2>12, <2>15, <2>16, <2>17, <2>18
<1>7. FdsAhead(start)'
  <2> SUFFICES ASSUME Few, alive, NEW n \in Waiting, requests[n].fd
               PROVE  \/ n \in ToSet(Queued)
                      \/ \E j \in DOMAIN wire' : n \in WireFds(j)' /\ Len(in) + j <= start[n] + 1
                      \/ n \in ToSet(clientFds') /\ Len(in) + Len(wire') <= start[n]
    BY <1>5 DEF FdsAhead, Waiting, Few, Queued, WireFds
  <2>1. \/ n \in ToSet(Queued)
        \/ \E j \in 1..l : n \in WireFds(j) /\ Len(in) + j <= start[n] + 1
        \/ n \in ToSet(clientFds) /\ Len(in) + l <= start[n]
    BY <1>1, <1>2, <1>4 DEF FdsAhead
  <2>2. CASE n \in ToSet(Queued)
    BY <2>2
  <2>3. ASSUME NEW j \in 1..l, n \in WireFds(j) /\ Len(in) + j <= start[n] + 1
        PROVE  \E i \in DOMAIN wire' : n \in WireFds(i)' /\ Len(in) + i <= start[n] + 1
    <3>1. j \in DOMAIN wire'
      BY <1>4
    <3>2. n \in WireFds(j)'
      BY <1>3, <2>3 DEF WireFds
    <3> QED BY <2>3, <3>1, <3>2
  <2>4. CASE n \in ToSet(clientFds) /\ Len(in) + l <= start[n]
    <3>1. 1 \in 1..k /\ l + 1 \in DOMAIN wire'
      BY <1>4
    <3>2. wire'[l + 1].fds = clientFds
      BY <1>3, <3>1
    <3>3. PICK j : j = l + 1
      OBVIOUS
    <3>4. n \in WireFds(j)'
      BY <2>4, <3>2, <3>3 DEF WireFds
    <3>5. Len(in) + j <= start[n] + 1
      <4>1. Len(in) \in Nat /\ start[n] \in Int
        <5>1. n \in 1..MaxRequests + 1
          BY HandledAreMade DEF Waiting
        <5> QED BY <1>4, <5>1 DEF Starts
      <4> QED BY <1>4, <2>4, <3>3, <4>1
    <3> QED BY <3>1, <3>3, <3>4, <3>5
  <2> QED BY <2>1, <2>2, <2>3, <2>4
<1> QED BY <1>1, <1>5, <1>6, <1>7 DEF LaidOut

LEMMA LaidReceive ==
  ASSUME TypeOK, LaidOut, FdsInv, Receive
  PROVE  LaidOut'
<1>1. PICK start \in Starts :
        Laid(start, Stream, Len(handled) + 1, requests) /\ FdsAhead(start)
  BY DEF LaidOut
<1>2. wire # <<>> /\ alive
  BY DEF Receive, Reading
<1>l. PICK l : l = Len(wire)
  OBVIOUS
<1>t. PICK t : t = Taken
  OBVIOUS
<1>3. /\ t \in 1..l /\ l \in Nat /\ t \in Nat /\ DOMAIN wire = 1..l
      /\ \A k \in Stops : t <= k
      /\ in \in Seq(Unit) /\ clientOut \in Seq(Unit) /\ Len(in) \in Nat
  BY <1>2, <1>l, <1>t, TakenIs, CarriedIs DEF TypeOK
<1>u. PICK u : u = TakenUnits
  OBVIOUS
<1>4. /\ u \in Seq(Unit) /\ Len(u) = t
      /\ \A k \in 1..t : u[k] = wire[k].unit
      /\ LeftWire \in Seq(Carried) /\ Len(LeftWire) = l - t
      /\ \A k \in 1..l - t : LeftWire[k] = wire[t + k]
  BY <1>2, <1>l, <1>t, <1>u, TakenUnitsIs
<1>5. /\ in' = in \o u /\ wire' = LeftWire /\ inFds' = inFds \o TakenFds
      /\ UNCHANGED <<environment, requests, clientOut, clientFds, msgFds, handled>>
  BY <1>u DEF Receive, clientSide
<1>6. /\ wire' \in Seq(Carried) /\ Len(wire') = l - t /\ DOMAIN wire' = 1..l - t
      /\ \A k \in 1..l - t : wire'[k] = wire[t + k]
  <2>1. DOMAIN LeftWire = 1..Len(LeftWire)
    BY <1>4
  <2> QED BY <1>4, <1>5, <2>1
<1>7. Len(in') = Len(in) + t
  <2>1. Len(in \o u) = Len(in) + Len(u)
    BY <1>3, <1>4, UnitsConcat
  <2> QED BY <1>4, <1>5, <2>1
<1>8. Stream' = Stream
  <2>1. PICK w : w = UnitsOn(wire)
    OBVIOUS
  <2>2. w \in Seq(Unit) /\ Len(w) = l /\ \A i \in 1..l : w[i] = wire[i].unit
    BY <1>l, <2>1, UnitsOnWire
  <2>3. PICK v : v = UnitsOn(wire')
    OBVIOUS
  <2>4. v \in Seq(Unit) /\ Len(v) = l - t /\ \A i \in 1..l - t : v[i] = wire'[i].unit
    <3>1. \A i \in 1..l - t : wire'[i].unit \in Unit
      <4>1. \A i \in 1..l - t : wire'[i] \in Carried
        BY <1>6
      <4> QED BY <4>1 DEF Carried
    <3>2. v = [i \in 1..l - t |-> wire'[i].unit]
      BY <1>6, <2>3 DEF UnitsOn
    <3> QED BY <1>3, <3>1, <3>2
  <2>5. PICK c : c = u \o v
    OBVIOUS
  <2>6. /\ c \in Seq(Unit) /\ Len(c) = l
        /\ \A i \in 1..t : c[i] = u[i]
        /\ \A i \in 1..l - t : c[t + i] = v[i]
    <3>1. /\ c \in Seq(Unit) /\ Len(c) = Len(u) + Len(v)
          /\ \A i \in 1..Len(u) : c[i] = u[i]
          /\ \A i \in 1..Len(v) : c[Len(u) + i] = v[i]
      BY <1>4, <2>4, <2>5, UnitsConcat
    <3>2. Len(u) = t /\ Len(v) = l - t /\ t + (l - t) = l
      BY <1>3, <1>4, <2>4
    <3> QED BY <3>1, <3>2
  <2>7. ASSUME NEW i \in 1..Len(w) PROVE w[i] = c[i]
    <3>1. CASE i \in 1..t
      <4>1. w[i] = wire[i].unit /\ c[i] = u[i] /\ u[i] = wire[i].unit
        BY <1>4, <2>2, <2>6, <3>1
      <4> QED BY <4>1
    <3>2. CASE i \notin 1..t
      <4>1. PICK j : j = i - t
        OBVIOUS
      <4>2. j \in 1..l - t /\ i = t + j /\ i \in 1..l
        BY <1>3, <2>2, <3>2, <4>1
      <4>3. wire'[j] = wire[i] /\ v[j] = wire'[j].unit
        BY <1>6, <2>4, <4>2
      <4>4. c[i] = v[j] /\ w[i] = wire[i].unit
        BY <2>2, <2>6, <4>2
      <4> QED BY <4>3, <4>4
    <3> QED BY <3>1, <3>2
  <2>8. w = c
    BY <2>2, <2>6, <2>7, SeqEqual, Zenon
  <2>9. in \o (u \o v) = (in \o u) \o v
    BY <1>3, <1>4, <2>4, UnitsConcat3, ZenonT(40)
  <2>10. Stream = (in \o w) \o clientOut
    BY <2>1, StreamIs
  <2>11. Stream' = ((in \o u) \o v) \o clientOut
    BY <1>5, <2>3 DEF Stream, UnitsOn
  <2> QED BY <2>5, <2>8, <2>9, <2>10, <2>11
<1>9. ASSUME Few, NEW j \in 1..t, wire[j].fds # <<>>
      PROVE  TakenFds = wire[j].fds
  <2>1. PICK i \in 1..t : wire[i].fds # <<>> /\ Riding = wire[i].fds
    BY <1>2, <1>9, <1>t, RidingIs
  <2>2. i \in 1..l /\ j \in 1..l
    BY <1>3
  <2>3. ASSUME NEW a \in 1..t, NEW b \in 1..t, a < b,
               wire[a].fds # <<>>, wire[b].fds # <<>>
        PROVE  FALSE
    <3>1. \A x, y \in 1..l :
            x < y /\ wire[x].fds # <<>> /\ wire[y].fds # <<>> =>
              \E k \in x..y-1 : wire[k].end
      BY <1>3 DEF FdsInv, ChunksEnd
    <3>2. a \in 1..l /\ b \in 1..l
      BY <1>3
    <3>3. PICK k \in a..b-1 : wire[k].end
      BY <2>3, <3>1, <3>2
    <3>4. k \in 1..l /\ a \in 1..k /\ k < t
      BY <1>3, <3>3
    <3>5. k \in Stops
      BY <1>3, <2>3, <3>3, <3>4 DEF Stops
    <3> QED BY <1>3, <3>4, <3>5
  <2>4. i = j
    <3>1. i < j \/ j < i \/ i = j
      BY <1>3
    <3> QED BY <1>9, <2>1, <2>3, <3>1
  <2>5. Len(wire[j].fds) <= MaxFds
    BY <1>3, <1>9, <2>2 DEF FdsInv, FewAtOnce
  <2> QED BY <1>2, <2>1, <2>4, <2>5, TakenFdsIs
<1>10. /\ ToSet(Queued') = ToSet(Queued) \cup ToSet(TakenFds)
  <2>1. /\ msgFds \in Seq(Numbers) /\ inFds \in Seq(Numbers) /\ TakenFds \in Seq(Numbers)
        /\ Queued \in Seq(Numbers)
    BY <1>2, TakenFdsIs, QueuedIs DEF TypeOK
  <2>2. msgFds \o (inFds \o TakenFds) = (msgFds \o inFds) \o TakenFds
    BY <2>1, NumbersConcat3
  <2>3. Queued' = Queued \o TakenFds
    BY <1>5, <2>2 DEF Queued
  <2> QED BY <2>1, <2>3, ToSetOfConcat
<1>11. FdsAhead(start)'
  <2> SUFFICES ASSUME Few, NEW n \in Waiting, requests[n].fd
               PROVE  \/ n \in ToSet(Queued')
                      \/ \E j \in 1..l - t : n \in WireFds(j)' /\ Len(in') + j <= start[n] + 1
                      \/ n \in ToSet(clientFds) /\ Len(in') + (l - t) <= start[n]
    BY <1>5, <1>6 DEF FdsAhead, Waiting, Few, WireFds
  <2>0. start[n] \in Int
    <3>1. n \in 1..MaxRequests + 1
      BY HandledAreMade DEF Waiting
    <3> QED BY <3>1 DEF Starts
  <2>1. \/ n \in ToSet(Queued)
        \/ \E j \in 1..l : n \in WireFds(j) /\ Len(in) + j <= start[n] + 1
        \/ n \in ToSet(clientFds) /\ Len(in) + l <= start[n]
    BY <1>1, <1>2, <1>3, <1>l DEF FdsAhead
  <2>2. CASE n \in ToSet(Queued)
    BY <1>10, <2>2
  <2>3. ASSUME NEW j \in 1..l, n \in WireFds(j), Len(in) + j <= start[n] + 1
        PROVE  \/ n \in ToSet(Queued')
               \/ \E i \in 1..l - t : n \in WireFds(i)' /\ Len(in') + i <= start[n] + 1
    <3>1. CASE j \in 1..t
      <4>1. wire[j].fds # <<>>
        BY <2>3, ToSetOfNone DEF WireFds
      <4>2. n \in ToSet(TakenFds)
        BY <1>9, <2>3, <3>1, <4>1 DEF WireFds
      <4> QED BY <1>10, <4>2
    <3>2. CASE j \notin 1..t
      <4>1. PICK i : i = j - t
        OBVIOUS
      <4>2. i \in 1..l - t /\ j = t + i /\ i \in Nat
        BY <1>3, <3>2, <4>1
      <4>3. n \in WireFds(i)'
        BY <1>6, <2>3, <4>2 DEF WireFds
      <4>4. Len(in') + i <= start[n] + 1
        BY <1>3, <1>7, <2>0, <2>3, <4>2
      <4> QED BY <4>2, <4>3, <4>4
    <3> QED BY <3>1, <3>2
  <2>4. CASE n \in ToSet(clientFds) /\ Len(in) + l <= start[n]
    <3>1. Len(in') + (l - t) <= start[n]
      BY <1>3, <1>7, <2>0, <2>4
    <3> QED BY <2>4, <3>1
  <2> QED BY <2>1, <2>2, <2>3, <2>4
<1> QED BY <1>1, <1>5, <1>8, <1>11 DEF LaidOut

LEMMA LaidDispatch ==
  ASSUME TypeOK, LaidOut, FdsInv, Dispatch
  PROVE  LaidOut'
<1>1. PICK start \in Starts :
        Laid(start, Stream, Len(handled) + 1, requests) /\ FdsAhead(start)
  BY DEF LaidOut
<1>d. PICK d : d = Len(handled)
  OBVIOUS
<1>z. PICK size : size = First.size
  OBVIOUS
<1>2. /\ alive /\ in # <<>> /\ Len(in) >= size
      /\ First.fd => Queued # <<>>
      /\ in' = SubSeq(in, size + 1, Len(in))
      /\ UNCHANGED <<environment, requests, wire, clientOut, clientFds>>
  BY <1>z DEF Dispatch, Complete, clientSide
<1>3. /\ d \in Nat /\ d + 1 \in DOMAIN requests /\ First = requests[d + 1]
      /\ size \in 1..MaxUnits /\ size \in Nat \ {0}
      /\ Len(requests) \in Nat /\ DOMAIN requests = 1..Len(requests)
      /\ Len(requests) <= MaxRequests /\ requests \in Seq(Request)
  <2>1. d + 1 \in DOMAIN requests /\ First = requests[d + 1] /\ First.size \in 1..MaxUnits
    BY <1>2, <1>d, FirstIs
  <2>2. d \in Nat /\ Len(requests) \in Nat /\ Len(requests) <= MaxRequests
    BY <1>d, HandledAreMade
  <2>3. requests \in Seq(Request)
    BY DEF TypeOK
  <2> QED BY <1>z, <2>1, <2>2, <2>3
<1>4. Len(handled') = d + 1
  <2>1. PICK h : handled' = Append(handled, h)
    BY DEF Dispatch
  <2> QED BY <1>d, <2>1 DEF TypeOK
<1>s. PICK s : s = Stream
  OBVIOUS
<1>5. s \in Seq(Unit) /\ Stream' = SubSeq(s, size + 1, Len(s))
      /\ Len(in) \in Nat /\ Len(in') = Len(in) - size
  <2>1. PICK q : q = UnitsOn(wire) \o clientOut
    OBVIOUS
  <2>2. q \in Seq(Unit) /\ s \in Seq(Unit) /\ s = in \o q /\ in \in Seq(Unit)
    BY <1>s, <2>1, StreamIs DEF TypeOK
  <2>3. size \in 0..Len(in) /\ Len(in) \in Nat
    BY <1>2, <1>3, <2>2
  <2>4. SubSeq(s, size + 1, Len(s)) = in' \o q
    BY <1>2, <2>2, <2>3, UnitsDrop
  <2>5. in' \in Seq(Unit) /\ Len(in') = Len(in) - size
    BY <1>2, <2>2, <2>3, UnitsSplit
  <2>6. UnitsOn(wire) \in Seq(Unit) /\ clientOut \in Seq(Unit)
    BY UnitsOnWire DEF TypeOK
  <2>7. in' \o (UnitsOn(wire) \o clientOut) = (in' \o UnitsOn(wire)) \o clientOut
    <3>1. PICK w : w = UnitsOn(wire)
      OBVIOUS
    <3>2. PICK i : i = in'
      OBVIOUS
    <3>3. (i \o w) \o clientOut = i \o (w \o clientOut)
      BY <2>5, <2>6, <3>1, <3>2, UnitsConcat3
    <3> QED BY <3>1, <3>2, <3>3
  <2>8. Stream' = (in' \o UnitsOn(wire)) \o clientOut
    BY <1>2 DEF Stream, UnitsOn
  <2> QED BY <2>1, <2>2, <2>3, <2>4, <2>5, <2>7, <2>8
<1>n. PICK next : next = [n \in 1..MaxRequests + 1 |-> start[n] - size]
  OBVIOUS
<1>6. next \in Starts /\ Laid(next, SubSeq(s, size + 1, Len(s)), d + 2, requests)
  <2>1. Laid(start, s, d + 1, requests) /\ d + 1 \in Nat \ {0} /\ d + 1 <= Len(requests)
    BY <1>1, <1>d, <1>s, <1>3
  <2>2. size = requests[d + 1].size
    BY <1>3, <1>z
  <2>3. /\ next \in Starts
        /\ Laid(next, SubSeq(s, size + 1, Len(s)), d + 1 + 1, requests)
    BY <1>3, <1>5, <2>1, <2>2, <1>n, LaidShrinks
  <2>4. d + 1 + 1 = d + 2
    BY <1>3
  <2> QED BY <2>3, <2>4
<1>7. FdsAhead(next)'
  <2> SUFFICES ASSUME Few, NEW n \in d + 2 .. Len(requests), requests[n].fd
               PROVE  \/ n \in ToSet(Queued')
                      \/ \E j \in DOMAIN wire : n \in WireFds(j) /\ Len(in') + j <= next[n] + 1
                      \/ n \in ToSet(clientFds) /\ Len(in') + Len(wire) <= next[n]
    <3>1. Waiting' = d + 2 .. Len(requests)
      BY <1>2, <1>3, <1>4 DEF Waiting
    <3> QED BY <1>2, <3>1 DEF FdsAhead, Few, WireFds
  <2>0. n \in Waiting /\ n \in Nat /\ n > d + 1 /\ start[n] \in Int /\ next[n] = start[n] - size
    <3>1. n \in Waiting /\ n \in 1..MaxRequests + 1 /\ n \in Nat /\ n > d + 1
      BY <1>3, <1>d DEF Waiting
    <3> QED BY <1>n, <3>1 DEF Starts
  <2>1. \/ n \in ToSet(Queued)
        \/ \E j \in DOMAIN wire : n \in WireFds(j) /\ Len(in) + j <= start[n] + 1
        \/ n \in ToSet(clientFds) /\ Len(in) + Len(wire) <= start[n]
    BY <1>1, <1>2, <2>0 DEF FdsAhead
  <2>w. Len(wire) \in Nat /\ DOMAIN wire = 1..Len(wire)
    BY CarriedIs
  <2>2. CASE n \in ToSet(Queued)
    <3>q. Queued' = IF First.fd THEN BehindFront ELSE Queued
      BY FdsDispatch
    <3>1. CASE ~First.fd
      BY <2>2, <3>1, <3>q
    <3>2. CASE First.fd
      <4>1. PICK q : q = Queued
        OBVIOUS
      <4>2. q \in Seq(Numbers) /\ Increasing(q) /\ q # <<>>
        BY <1>2, <3>2, <4>1, QueuedIs DEF FdsInv, FdsInOrder
      <4>3. Head(q) = d + 1
        BY <1>2, <1>d, <3>2, <4>1, <4>2, FrontIsFirst DEF FrontFd
      <4>4. ToSet(q) = {Head(q)} \cup ToSet(Tail(q))
        BY <4>2, HeadAndTail
      <4>5. Queued' = Tail(q)
        BY <3>2, <3>q, <4>1, <4>2 DEF BehindFront
      <4> QED BY <1>3, <2>0, <2>2, <4>1, <4>3, <4>4, <4>5
    <3> QED BY <3>1, <3>2
  <2>3. ASSUME NEW j \in DOMAIN wire, n \in WireFds(j), Len(in) + j <= start[n] + 1
        PROVE  n \in WireFds(j) /\ Len(in') + j <= next[n] + 1
    BY <1>3, <1>5, <2>0, <2>3, <2>w, SMTT(30)
  <2>4. CASE n \in ToSet(clientFds) /\ Len(in) + Len(wire) <= start[n]
    BY <1>3, <1>5, <2>0, <2>4, <2>w
  <2> QED BY <2>1, <2>2, <2>3, <2>4
<1>8. /\ Len(handled') + 1 = d + 2
      /\ Laid(next, Stream', Len(handled') + 1, requests')
  <2>1. Len(handled') + 1 = d + 2
    BY <1>3, <1>4
  <2> QED BY <1>2, <1>5, <1>6, <2>1
<1> QED BY <1>2, <1>3, <1>6, <1>7, <1>8 DEF LaidOut

LEMMA LaidOthers ==
  ASSUME TypeOK, LaidOut,
         CloseClient \/ ReceiveNothing \/ ReceiveEnd \/ DispatchRefused
         \/ DispatchEnd \/ Reap \/ UNCHANGED vars
  PROVE  LaidOut'
<1>1. PICK start \in Starts :
        Laid(start, Stream, Len(handled) + 1, requests) /\ FdsAhead(start)
  BY DEF LaidOut
<1>2. UNCHANGED <<environment, requests, clientOut, clientFds, wire, in, handled>>
  BY DEF CloseClient, ReceiveNothing, ReceiveEnd, DispatchRefused, DispatchEnd, Reap,
         vars, clientSide, received
<1>3. ~alive' \/ (alive /\ Queued' = Queued)
  <2>1. CASE CloseClient \/ ReceiveNothing
    BY <2>1 DEF CloseClient, ReceiveNothing, received, Queued, Reading
  <2>2. CASE ReceiveEnd \/ DispatchRefused
    BY <2>2 DEF ReceiveEnd, DispatchRefused
  <2>3. CASE DispatchEnd
    <3>1. msgFds' = Queued /\ inFds' = <<>> /\ alive
      BY <2>3 DEF DispatchEnd
    <3>2. Queued \in Seq(Numbers)
      BY QueuedIs
    <3> QED BY <3>1, <3>2 DEF Queued
  <2>4. CASE Reap
    BY <2>4 DEF Reap
  <2>5. CASE UNCHANGED vars
    BY <2>5 DEF vars, received, Queued
  <2> QED BY <2>1, <2>2, <2>3, <2>4, <2>5
<1>4. Stream' = Stream
  BY <1>2 DEF Stream
<1>5. FdsAhead(start)'
  <2>1. CASE ~alive'
    BY <2>1 DEF FdsAhead
  <2>2. CASE alive /\ Queued' = Queued
    BY <1>1, <1>2, <2>2 DEF FdsAhead, Waiting, Few, WireFds
  <2> QED BY <1>3, <2>1, <2>2
<1> QED BY <1>1, <1>2, <1>4, <1>5 DEF LaidOut

----------------------------------------------------------------------------
(* What the loop holds between two reads, and what is open.                *)

LEMMA Concat0 ==
  ASSUME NEW s \in Seq(Numbers)
  PROVE  s \o <<>> = s /\ <<>> \o s = s
OBVIOUS

LEMMA RestReceive ==
  ASSUME TypeOK, AtRest, Receive
  PROVE  /\ AtRest'
         /\ Short => alive'
<1>1. wire # <<>> /\ alive /\ pc \in {"poll", "reading"}
  BY DEF Receive, Reading
<1>l. PICK l : l = Len(wire)
  OBVIOUS
<1>t. PICK t : t = Taken
  OBVIOUS
<1>2. /\ t \in 1..l /\ l \in Nat /\ t \in Nat /\ t <= BufferSize
      /\ in \in Seq(Unit) /\ Len(in) \in Nat
  BY <1>1, <1>l, <1>t, TakenIs, CarriedIs DEF TypeOK
<1>3. /\ wire' = LeftWire /\ in' = in \o TakenUnits
      /\ alive' = ~(Len(in') > MaxIncoming)
      /\ pc' = IF Len(in') > MaxIncoming THEN "poll"
               ELSE IF t = BufferSize THEN "reading" ELSE "dispatching"
      /\ UNCHANGED environment
  BY <1>t DEF Receive
<1>4. Len(wire') = l - t /\ Len(in') = Len(in) + t
  <2>1. Len(LeftWire) = l - t /\ TakenUnits \in Seq(Unit) /\ Len(TakenUnits) = t
    BY <1>1, <1>l, <1>t, TakenUnitsIs
  <2>2. Len(in \o TakenUnits) = Len(in) + Len(TakenUnits)
    BY <1>2, <2>1, UnitsConcat
  <2> QED BY <1>3, <2>1, <2>2
<1>5. ASSUME Short
      PROVE  /\ Len(wire') < BufferSize
             /\ alive' /\ pc' = "dispatching"
  <2>1. l < BufferSize /\ Len(in) < MaxUnits
    BY <1>1, <1>5, <1>l DEF AtRest
  <2>2. t < BufferSize /\ l - t < BufferSize
    BY <1>2, <2>1
  <2>3. Len(in) + t <= MaxIncoming
    <3>1. MaxUnits + BufferSize <= MaxIncoming + 2
      BY <1>5 DEF Short, RoomForRead
    <3> QED BY <1>2, <2>1, <2>2, <3>1
  <2>4. ~(Len(in') > MaxIncoming)
    BY <1>2, <1>4, <2>3
  <2>5. alive'
    BY <1>3, <2>4, Zenon
  <2>6. pc' = "dispatching"
    BY <1>2, <1>3, <2>2, <2>4
  <2> QED BY <1>4, <2>2, <2>5, <2>6
<1>6. ~(pc' = "poll" /\ alive')
  <2>1. CASE Len(in') > MaxIncoming
    <3>1. ~alive'
      BY <1>3, <2>1, Zenon
    <3> QED BY <3>1
  <2>2. CASE ~(Len(in') > MaxIncoming)
    <3>1. pc' \in {"reading", "dispatching"}
      BY <1>3, <2>2
    <3> QED BY <3>1
  <2> QED BY <2>1, <2>2
<1>7. Short' <=> Short
  BY <1>3 DEF Short, RoomForRead
<1> QED BY <1>5, <1>6, <1>7 DEF AtRest

LEMMA RestOthers ==
  ASSUME TypeOK, LaidOut, AtRest, Next \/ UNCHANGED vars, ~Receive
  PROVE  AtRest'
<1>1. Short' <=> Short
  BY DEF Next, MakeRequest, SendChunk, CloseClient, Receive, ReceiveNothing, ReceiveEnd,
         Dispatch, DispatchRefused, DispatchEnd, Reap, vars, Short, RoomForRead
<1>2. CASE (\E r \in Asked : MakeRequest(r)) \/ CloseClient \/ UNCHANGED vars
  <2>1. UNCHANGED <<wire, pc, in, inFds, alive>>
    BY <1>2 DEF MakeRequest, CloseClient, vars, received
  <2> QED BY <1>1, <2>1 DEF AtRest
<1>3. ASSUME NEW n \in 1..MaxRequests * MaxUnits, SendChunk(n)
      PROVE  AtRest'
  <2>1. UNCHANGED <<environment, pc, in, inFds, alive>>
    BY <1>3 DEF SendChunk, received
  <2>2. n \in Nat
    BY <1>3
  <2>3. Len(wire') = Len(wire) + n
    BY <1>3, <2>2, WireAfterSend
  <2>4. Short => Len(wire') < BufferSize
    BY <1>3, <2>3 DEF SendChunk, Short
  <2> QED BY <1>1, <2>1, <2>4 DEF AtRest
<1>4. CASE ReceiveNothing
  <2>1. pc = "reading" /\ pc' = "dispatching" /\ UNCHANGED <<wire, in, inFds, alive>> /\ alive
    BY <1>4 DEF ReceiveNothing, received, Reading
  <2> QED BY <1>1, <2>1 DEF AtRest
<1>5. CASE ReceiveEnd
  <2>1. /\ pc \in {"poll", "reading"} /\ alive /\ ~alive' /\ pc' = "poll"
        /\ UNCHANGED <<wire, in, inFds>>
    BY <1>5 DEF ReceiveEnd, received, Reading
  <2> QED BY <1>1, <2>1 DEF AtRest
<1>6. CASE Dispatch
  <2>1. pc = "dispatching" /\ alive /\ inFds' = <<>> /\ UNCHANGED <<wire, pc, alive>>
    BY <1>6 DEF Dispatch
  <2> QED BY <1>1, <2>1 DEF AtRest
<1>7. CASE DispatchRefused
  <2>1. pc' = "poll" /\ ~alive' /\ inFds' = <<>> /\ UNCHANGED wire
    BY <1>7 DEF DispatchRefused
  <2> QED BY <1>1, <2>1 DEF AtRest
<1>8. CASE DispatchEnd
  <2>1. pc' = "poll" /\ alive' /\ inFds' = <<>> /\ UNCHANGED <<wire, in>>
    BY <1>8 DEF DispatchEnd
  <2>2. Len(in') < MaxUnits
    <3>1. in \in Seq(Unit) /\ Len(in) \in Nat
      BY DEF TypeOK
    <3>2. CASE in = <<>>
      BY <2>1, <3>2
    <3>3. CASE in # <<>>
      <4>1. First.size \in 1..MaxUnits
        BY <3>3, FirstIs
      <4>2. ~(Len(in) >= First.size)
        BY <1>8, <3>3 DEF DispatchEnd, Complete
      <4> QED BY <2>1, <3>1, <4>1, <4>2
    <3> QED BY <3>2, <3>3
  <2> QED BY <1>1, <2>1, <2>2 DEF AtRest
<1>9. CASE Reap
  <2>1. inFds' = <<>> /\ ~alive /\ UNCHANGED <<wire, pc, in, alive>>
    BY <1>9 DEF Reap, Destruct
  <2> QED BY <1>1, <2>1 DEF AtRest
<1> QED BY <1>2, <1>3, <1>4, <1>5, <1>6, <1>7, <1>8, <1>9 DEF Next

LEMMA OpenStays ==
  ASSUME TypeOK, LaidOut, FdsInv, AtRest, OpenHeld, Next \/ UNCHANGED vars
  PROVE  OpenHeld'
<1>1. Short' <=> Short
  BY DEF Next, MakeRequest, SendChunk, CloseClient, Receive, ReceiveNothing, ReceiveEnd,
         Dispatch, DispatchRefused, DispatchEnd, Reap, vars, Short, RoomForRead
<1>2. ASSUME UNCHANGED <<Queued, Kept, open, listed>>
      PROVE  OpenHeld'
  BY <1>1, <1>2 DEF OpenHeld
<1>3. CASE \/ \E r \in Asked : MakeRequest(r)
           \/ \E n \in 1..MaxRequests * MaxUnits : SendChunk(n)
           \/ CloseClient \/ ReceiveNothing \/ ReceiveEnd \/ UNCHANGED vars
  <2>1. UNCHANGED <<inFds, msgFds, handled, open, listed>>
    BY <1>3 DEF MakeRequest, SendChunk, CloseClient, ReceiveNothing, ReceiveEnd, vars,
                received
  <2> QED BY <1>2, <2>1 DEF Queued, Kept
<1>4. CASE Receive
  <2>1. /\ inFds' = inFds \o TakenFds /\ open' = open \cup ToSet(TakenFds)
        /\ UNCHANGED <<msgFds, listed, handled>> /\ wire # <<>>
    BY <1>4 DEF Receive
  <2>2. /\ msgFds \in Seq(Numbers) /\ inFds \in Seq(Numbers) /\ TakenFds \in Seq(Numbers)
        /\ Queued \in Seq(Numbers)
    BY <2>1, TakenFdsIs, QueuedIs DEF TypeOK
  <2>3. msgFds \o (inFds \o TakenFds) = (msgFds \o inFds) \o TakenFds
    BY <2>2, NumbersConcat3, SMTT(30)
  <2>4. Queued' = Queued \o TakenFds
    BY <2>1, <2>3 DEF Queued
  <2>5. ToSet(Queued') = ToSet(Queued) \cup ToSet(TakenFds)
    BY <2>2, <2>4, ToSetOfConcat
  <2>6. Kept' = Kept
    BY <2>1 DEF Kept
  <2> QED BY <1>1, <2>1, <2>5, <2>6 DEF OpenHeld
<1>5. CASE Dispatch
  <2>1. ToSet(Queued') \cup Kept' = ToSet(Queued) \cup Kept
    BY <1>5, FdsDispatch
  <2>2. UNCHANGED <<open, listed>>
    BY <1>5 DEF Dispatch
  <2> QED BY <1>1, <2>1, <2>2 DEF OpenHeld
<1>6. CASE DispatchRefused
  <2>1. Kept' = Kept /\ Queued' = IF First.fd THEN BehindFront ELSE Queued
    BY <1>6, FdsRefused
  <2>2. open' = (IF First.fd THEN open \ {FrontFd} ELSE open) /\ listed' = listed
    BY <1>6 DEF DispatchRefused
  <2>3. CASE ~First.fd
    BY <1>1, <2>1, <2>2, <2>3 DEF OpenHeld
  <2>4. CASE First.fd
    <3>1. PICK q : q = Queued
      OBVIOUS
    <3>2. q \in Seq(Numbers) /\ Increasing(q) /\ Below(Kept, ToSet(q))
      BY <3>1, QueuedIs DEF FdsInv, FdsInOrder
    <3>3. Kept \subseteq Numbers
      BY KeptIs
    <3>4. CASE q = <<>>
      <4>1. Queued' = Queued /\ FrontFd = NoFd
        BY <2>1, <2>4, <3>1, <3>4 DEF BehindFront, FrontFd
      <4>2. open' = open
        <5>1. NoFd \notin open
          BY DEF TypeOK, Numbers
        <5> QED BY <2>2, <2>4, <4>1, <5>1
      <4> QED BY <1>1, <2>1, <2>2, <4>1, <4>2 DEF OpenHeld
    <3>5. CASE q # <<>>
      <4>1. /\ Head(q) \in Numbers /\ ToSet(q) = {Head(q)} \cup ToSet(Tail(q))
            /\ \A x \in ToSet(Tail(q)) : Head(q) < x
            /\ Tail(q) \in Seq(Numbers)
        BY <3>2, <3>5, HeadAndTail
      <4>2. Queued' = Tail(q) /\ FrontFd = Head(q)
        BY <2>1, <2>4, <3>1, <3>5 DEF BehindFront, FrontFd
      <4>3. Head(q) \notin ToSet(Tail(q)) /\ Head(q) \notin Kept
        <5>1. Head(q) \in Nat
          BY <4>1 DEF Numbers
        <5>2. Head(q) \notin Kept
          <6>1. Head(q) \in ToSet(q) /\ ~(Head(q) < Head(q))
            BY <4>1, <5>1
          <6> QED BY <3>2, <6>1 DEF Below
        <5>3. Head(q) \notin ToSet(Tail(q))
          BY <4>1, <5>1
        <5> QED BY <5>2, <5>3
      <4>4. ASSUME open = ToSet(q) \cup Kept
            PROVE  open' = ToSet(Queued') \cup Kept'
        <5>1. ToSet(Queued') = ToSet(Tail(q))
          BY <4>2
        <5>2. open' = open \ {Head(q)}
          BY <2>2, <2>4, <4>2
        <5> QED BY <2>1, <4>1, <4>3, <4>4, <5>1, <5>2
      <4> QED BY <1>1, <2>2, <3>1, <4>4 DEF OpenHeld
    <3> QED BY <3>4, <3>5
  <2> QED BY <2>3, <2>4
<1>7. CASE DispatchEnd
  <2>1. msgFds' = Queued /\ inFds' = <<>> /\ UNCHANGED <<open, listed, handled>>
    BY <1>7 DEF DispatchEnd
  <2>2. Queued' = Queued
    BY <2>1, Concat0, QueuedIs DEF Queued
  <2> QED BY <1>2, <2>1, <2>2 DEF Kept
<1>8. CASE Reap
  <2>1. /\ inFds' = <<>> /\ msgFds' = <<>> /\ open' = open \ ToSet(msgFds)
        /\ ~alive /\ ~listed' /\ UNCHANGED handled
    BY <1>8 DEF Reap, Destruct
  <2>2. Queued' = <<>> /\ ToSet(Queued') = {}
    <3>1. Queued' = <<>>
      BY <2>1 DEF Queued
    <3> QED BY <3>1, ToSetOfNone
  <2>3. ASSUME Short
        PROVE  open' = Kept
    <3>1. inFds = <<>>
      BY <2>1, <2>3 DEF AtRest
    <3>2. Queued = msgFds
      BY <3>1, Concat0 DEF TypeOK, Queued
    <3>3. open = ToSet(msgFds) \cup Kept
      BY <2>3, <3>2 DEF OpenHeld
    <3>4. ASSUME NEW x \in Kept PROVE x \notin ToSet(msgFds)
      <4>1. Below(Kept, ToSet(msgFds))
        BY <3>2 DEF FdsInv, FdsInOrder
      <4>2. x \in Nat
        BY KeptIs DEF Numbers
      <4> QED BY <3>4, <4>1, <4>2 DEF Below
    <3> QED BY <2>1, <3>3, <3>4
  <2>4. Kept' = Kept
    BY <2>1 DEF Kept
  <2> QED BY <1>1, <2>1, <2>2, <2>3, <2>4 DEF OpenHeld
<1> QED BY <1>3, <1>4, <1>5, <1>6, <1>7, <1>8 DEF Next

LEMMA KilledStays ==
  ASSUME TypeOK, LaidOut, FdsInv, KilledForCause, Next \/ UNCHANGED vars
  PROVE  KilledForCause'
<1> SUFFICES ASSUME ~alive', "fewFds" \in environment'
             PROVE  \/ ~peerOpen'
                    \/ Len(in') > MaxIncoming
                    \/ \E k \in DOMAIN requests' : ~requests'[k].ok
  BY DEF KilledForCause
<1>1. environment' = environment
  BY DEF Next, MakeRequest, SendChunk, CloseClient, Receive, ReceiveNothing, ReceiveEnd,
         Dispatch, DispatchRefused, DispatchEnd, Reap, vars
<1>2. CASE ~alive
  <2>1. UNCHANGED <<peerOpen, in, requests>>
    BY <1>2 DEF Next, MakeRequest, SendChunk, CloseClient, Receive, ReceiveNothing,
         ReceiveEnd, Dispatch, DispatchRefused, DispatchEnd, Reap, vars, clientSide,
         received, Reading
  <2> QED BY <1>1, <1>2, <2>1 DEF KilledForCause
<1>3. CASE alive
  <2>1. CASE Receive
    <3>1. alive' = ~(Len(in') > MaxIncoming)
      BY <2>1 DEF Receive
    <3> QED BY <3>1, Zenon
  <2>2. CASE ReceiveEnd
    BY <2>2 DEF ReceiveEnd, clientSide
  <2>3. CASE DispatchRefused
    <3>1. in # <<>> /\ (~First.ok \/ (First.fd /\ Queued = <<>>)) /\ UNCHANGED requests
      BY <2>3 DEF DispatchRefused, Complete
    <3>2. ~(First.fd /\ Queued = <<>>)
      BY <1>1, <1>3, <3>1, FrontIsFirst DEF Few
    <3>3. First = requests[Len(handled) + 1] /\ Len(handled) + 1 \in DOMAIN requests
      BY <3>1, FirstIs
    <3> QED BY <3>1, <3>2, <3>3
  <2>4. CASE ~Receive /\ ~ReceiveEnd /\ ~DispatchRefused
    <3>1. alive'
      BY <1>3, <2>4 DEF Next, MakeRequest, SendChunk, CloseClient, ReceiveNothing,
           Dispatch, DispatchEnd, Reap, vars
    <3> QED BY <3>1
  <2> QED BY <2>1, <2>2, <2>3, <2>4
<1>4. alive \in BOOLEAN
  BY DEF TypeOK
<1> QED BY <1>2, <1>3, <1>4

----------------------------------------------------------------------------
(* The invariant, and what follows from it.                                *)

LEMMA InitHolds ==
  ASSUME Init
  PROVE  IInv
<1>1. TypeOK
  BY DEF Init, TypeOK
<1>2. /\ Queued = <<>> /\ Kept = {} /\ OnWire = {}
      /\ ToSet(Queued) = {} /\ ToSet(clientFds) = {} /\ DOMAIN wire = {}
      /\ wire = <<>> /\ clientFds = <<>> /\ in = <<>> /\ requests = <<>> /\ handled = <<>>
  <2>1. /\ wire = <<>> /\ clientFds = <<>> /\ in = <<>> /\ requests = <<>>
        /\ handled = <<>> /\ inFds = <<>> /\ msgFds = <<>>
    BY DEF Init
  <2>2. Queued = <<>> /\ DOMAIN wire = {} /\ DOMAIN handled = {}
    BY <2>1 DEF Queued
  <2> QED BY <2>1, <2>2, ToSetOfNone DEF Kept, OnWire
<1>3. LaidOut
  <2>1. PICK start : start = [n \in 1..MaxRequests + 1 |-> 0]
    OBVIOUS
  <2>2. start \in Starts /\ start[1] = 0
    <3>1. 1 \in 1..MaxRequests + 1
      OBVIOUS
    <3> QED BY <2>1, <3>1 DEF Starts
  <2>3. Len(Stream) = 0
    <3>1. Len(wire) = 0 /\ Len(in) = 0 /\ Len(clientOut) = 0
      BY DEF Init
    <3> QED BY <1>1, <3>1, StreamIs
  <2>4. Laid(start, Stream, Len(handled) + 1, requests)
    <3>1. Len(handled) = 0 /\ Len(requests) = 0
      BY <1>2
    <3> QED BY <2>2, <2>3, <3>1 DEF Laid
  <2>5. FdsAhead(start)
    <3>1. Waiting = {}
      BY <1>2 DEF Waiting
    <3> QED BY <3>1 DEF FdsAhead
  <2> QED BY <1>2, <2>2, <2>4, <2>5 DEF LaidOut
<1>4. FdsInv
  <2>1. FdsInOrder
    BY <1>2 DEF FdsInOrder, Increasing, Below
  <2>2. ChunksEnd
    BY <1>2 DEF ChunksEnd
  <2>3. FewAtOnce
    BY <1>2 DEF FewAtOnce
  <2>4. OwnFds
    BY <1>2 DEF OwnFds
  <2> QED BY <2>1, <2>2, <2>3, <2>4 DEF FdsInv
<1>5. AtRest
  BY DEF Init, AtRest
<1>6. OpenHeld
  BY <1>2 DEF Init, OpenHeld
<1>7. KilledForCause
  BY DEF Init, KilledForCause
<1> QED BY <1>1, <1>3, <1>4, <1>5, <1>6, <1>7 DEF IInv

LEMMA StepHolds ==
  ASSUME IInv, [Next]_vars
  PROVE  IInv'
<1> USE DEF IInv
<1>1. Next \/ UNCHANGED vars
  OBVIOUS
<1>2. TypeOK' /\ LaidOut' /\ FdsInv'
  <2>1. ASSUME NEW r \in Asked, MakeRequest(r)
        PROVE  TypeOK' /\ LaidOut' /\ FdsInv'
    BY <2>1, TypeMake, LaidMake, FdsMake
  <2>2. ASSUME NEW n \in 1..MaxRequests * MaxUnits, SendChunk(n)
        PROVE  TypeOK' /\ LaidOut' /\ FdsInv'
    <3>1. n \in Nat
      OBVIOUS
    <3> QED BY <2>2, <3>1, TypeSend, LaidSend, FdsSend
  <2>3. CASE Receive
    BY <2>3, TypeReceive, LaidReceive, FdsReceive
  <2>4. CASE Dispatch
    BY <2>4, TypeDispatch, LaidDispatch, FdsDispatch
  <2>5. CASE DispatchRefused
    BY <2>5, TypeRefused, LaidOthers, FdsRefused
  <2>6. CASE CloseClient \/ ReceiveNothing \/ ReceiveEnd \/ DispatchEnd \/ Reap
             \/ UNCHANGED vars
    BY <2>6, TypeOthers, LaidOthers, FdsOthers
  <2> QED BY <1>1, <2>1, <2>2, <2>3, <2>4, <2>5, <2>6 DEF Next
<1>3. AtRest'
  BY <1>1, RestReceive, RestOthers
<1>4. OpenHeld' /\ KilledForCause'
  BY <1>1, OpenStays, KilledStays
<1> QED BY <1>2, <1>3, <1>4

(***************************************************************************)
(* The stream stays the units of the requests not yet dispatched, one      *)
(* behind the other, and descriptors stay in order and ahead of their      *)
(* requests, whatever is sent, read and dispatched.                        *)
(***************************************************************************)
THEOREM InvariantHolds == Spec => []IInv
<1>1. Init => IInv
  BY InitHolds
<1>2. IInv /\ [Next]_vars => IInv'
  BY StepHolds
<1> QED BY <1>1, <1>2, PTL DEF Spec

(***************************************************************************)
(* Every variable of the way in (in_, inFds_, msgFds_ and the socket) holds *)
(* a value of its type, whatever the bounds.                               *)
(***************************************************************************)
THEOREM TypeCorrect == Spec => []TypeOK
<1>1. IInv => TypeOK
  BY DEF IInv
<1> QED BY <1>1, InvariantHolds, PTL

(***************************************************************************)
(* takeFd gives no descriptor to two requests, and one that recvAll        *)
(* received is open exactly while it is queued or its handler keeps it;    *)
(* ~Connection, which closes msgFds_ only, leaves none open, if a read and *)
(* the longest request fit the 4 MiB a client may have waiting.            *)
(***************************************************************************)
THEOREM FdsAccountedHolds ==
  ASSUME RoomForRead
  PROVE  Spec => []FdsAccounted
<1>1. ASSUME IInv PROVE FdsAccounted
  <2>1. /\ TypeOK /\ FdsInOrder /\ OpenHeld
    BY <1>1 DEF IInv, FdsInv
  <2>2. listed \/ "shortReads" \in environment => open = ToSet(Queued) \cup Kept
    BY <2>1 DEF OpenHeld, Short
  <2>3. PICK q : q = Queued
    OBVIOUS
  <2>4. q \in Seq(Numbers) /\ Increasing(q) /\ Below(Kept, ToSet(q))
    BY <2>1, <2>3, QueuedIs DEF FdsInOrder
  <2>5. IsInjective(q)
    <3>1. \A i, j \in DOMAIN q : i # j => q[i] # q[j]
      <4> SUFFICES ASSUME NEW i \in DOMAIN q, NEW j \in DOMAIN q, i # j
                   PROVE  q[i] # q[j]
        OBVIOUS
      <4>1. /\ i \in Nat /\ j \in Nat /\ q[i] \in Nat /\ q[j] \in Nat
        BY <2>4 DEF Numbers
      <4>2. i < j \/ j < i
        BY <4>1
      <4>3. q[i] < q[j] \/ q[j] < q[i]
        BY <2>4, <4>2 DEF Increasing
      <4> QED BY <4>1, <4>3
    <3> QED BY <3>1, Zenon DEF IsInjective
  <2>6. ToSet(q) \cap Kept = {}
    <3> SUFFICES ASSUME NEW x \in ToSet(q), x \in Kept PROVE FALSE
      OBVIOUS
    <3>1. x \in Nat
      BY <2>1, KeptIs DEF Numbers
    <3> QED BY <2>4, <3>1 DEF Below
  <2> QED BY <2>2, <2>3, <2>5, <2>6 DEF FdsAccounted
<1>2. IInv => FdsAccounted
  BY <1>1
<1> QED BY <1>2, InvariantHolds, PTL

(***************************************************************************)
(* A client whose requests are all acceptable, that neither leaves nor     *)
(* floods and sends no more descriptors at once than one recvmsg takes is  *)
(* not killed: no handler misses its descriptor.                           *)
(***************************************************************************)
THEOREM KilledForCauseHolds == Spec => []KilledForCause
<1>1. IInv => KilledForCause
  BY DEF IInv
<1> QED BY <1>1, InvariantHolds, PTL

----------------------------------------------------------------------------
(* The safety half of both refinements of Channel.                         *)

SentUnits == [n \in DOMAIN requests |-> UnitsOf(n, requests[n].size)]
GivenUnits == [k \in DOMAIN handled |-> handled[k].units]

SentWithFds ==
  [n \in DOMAIN requests |-> [units |-> UnitsOf(n, requests[n].size),
                              fd |-> IF requests[n].fd THEN n ELSE NoFd]]

UnitsAndFd == [units : Seq(Unit), fd : Numbers \cup {NoFd}]

LEMMA AppendIs ==
  ASSUME NEW S, NEW f \in Seq(S), NEW g \in Seq(S), NEW x \in S,
         Len(g) = Len(f) + 1, g[Len(f) + 1] = x,
         \A i \in 1..Len(f) : g[i] = f[i]
  PROVE  g = Append(f, x)
<1>1. PICK h : h = Append(f, x)
  OBVIOUS
<1>2. /\ h \in Seq(S) /\ Len(h) = Len(f) + 1 /\ h[Len(f) + 1] = x
      /\ \A i \in 1..Len(f) : h[i] = f[i]
  BY <1>1
<1>3. ASSUME NEW i \in 1..Len(g) PROVE g[i] = h[i]
  <2>1. i \in 1..Len(f) \/ i = Len(f) + 1
    OBVIOUS
  <2> QED BY <1>2, <2>1
<1>4. g = h
  BY <1>2, <1>3, SeqEqual, Zenon
<1> QED BY <1>1, <1>4

LEMMA RequestIs ==
  ASSUME TypeOK, LaidOut
  PROVE  /\ \A n \in DOMAIN requests : /\ n \in Numbers
                                       /\ requests[n].size \in 1..MaxUnits
         /\ DOMAIN requests = 1..Len(requests) /\ Len(requests) \in Nat
<1>1. requests \in Seq(Request) /\ Len(requests) <= MaxRequests
  BY DEF TypeOK, LaidOut
<1>2. /\ DOMAIN requests = 1..Len(requests) /\ Len(requests) \in Nat
      /\ \A n \in DOMAIN requests : requests[n] \in Request
  BY <1>1
<1>3. \A n \in DOMAIN requests : n \in Numbers
  BY <1>1, <1>2 DEF Numbers
<1>4. \A n \in DOMAIN requests : requests[n].size \in 1..MaxUnits
  BY <1>2 DEF Request
<1> QED BY <1>2, <1>3, <1>4

LEMMA SentUnitsIs ==
  ASSUME TypeOK, LaidOut
  PROVE  /\ SentUnits \in Seq(Seq(Unit)) /\ Len(SentUnits) = Len(requests)
         /\ \A n \in 1..Len(requests) : SentUnits[n] = UnitsOf(n, requests[n].size)
<1>1. \A n \in 1..Len(requests) : UnitsOf(n, requests[n].size) \in Seq(Unit)
  BY RequestIs, UnitsTyped
<1>2. DOMAIN requests = 1..Len(requests) /\ Len(requests) \in Nat
  BY RequestIs
<1> QED BY <1>1, <1>2 DEF SentUnits

LEMMA SentWithFdsIs ==
  ASSUME TypeOK, LaidOut
  PROVE  /\ SentWithFds \in Seq(UnitsAndFd) /\ Len(SentWithFds) = Len(requests)
         /\ \A n \in 1..Len(requests) :
              SentWithFds[n] = [units |-> UnitsOf(n, requests[n].size),
                                fd |-> IF requests[n].fd THEN n ELSE NoFd]
<1>1. ASSUME NEW n \in 1..Len(requests)
      PROVE  [units |-> UnitsOf(n, requests[n].size),
              fd |-> IF requests[n].fd THEN n ELSE NoFd] \in UnitsAndFd
  <2>1. n \in Numbers /\ UnitsOf(n, requests[n].size) \in Seq(Unit)
    BY RequestIs, UnitsTyped
  <2> QED BY <2>1 DEF UnitsAndFd
<1>2. DOMAIN requests = 1..Len(requests) /\ Len(requests) \in Nat
  BY RequestIs
<1>3. \A n \in 1..Len(requests) :
        SentWithFds[n] = [units |-> UnitsOf(n, requests[n].size),
                          fd |-> IF requests[n].fd THEN n ELSE NoFd]
  BY <1>2 DEF SentWithFds
<1>4. \A n \in 1..Len(requests) : SentWithFds[n] \in UnitsAndFd
  BY <1>1, <1>3
<1>5. SentWithFds \in [1..Len(requests) -> UnitsAndFd]
  BY <1>2, <1>4 DEF SentWithFds
<1> QED BY <1>2, <1>3, <1>5

LEMMA HandledIs ==
  ASSUME TypeOK
  PROVE  /\ handled \in Seq(UnitsAndFd)
         /\ GivenUnits \in Seq(Seq(Unit)) /\ Len(GivenUnits) = Len(handled)
         /\ \A k \in 1..Len(handled) : GivenUnits[k] = handled[k].units
<1>1. handled \in Seq(UnitsAndFd)
  BY DEF TypeOK, UnitsAndFd
<1>2. DOMAIN handled = 1..Len(handled) /\ Len(handled) \in Nat
      /\ \A k \in 1..Len(handled) : handled[k] \in UnitsAndFd
  BY <1>1
<1>3. \A k \in 1..Len(handled) : handled[k].units \in Seq(Unit)
  BY <1>2 DEF UnitsAndFd
<1> QED BY <1>1, <1>2, <1>3 DEF GivenUnits

\* Each step, of the requests made and of those dispatched.
LEMMA MadeOne ==
  ASSUME IInv, IInv', NEW r \in Asked, MakeRequest(r)
  PROVE  \E n \in Numbers, size \in 1..MaxUnits :
           /\ SentUnits' = Append(SentUnits, UnitsOf(n, size))
           /\ SentWithFds' = Append(SentWithFds, [units |-> UnitsOf(n, size),
                                                  fd |-> IF r.fd THEN n ELSE NoFd])
           /\ UNCHANGED <<alive, environment, handled>>
<1>1. TypeOK /\ LaidOut /\ TypeOK' /\ LaidOut'
  BY DEF IInv
<1>m. PICK m : m = Len(requests)
  OBVIOUS
<1>2. /\ requests' = Append(requests, r) /\ m + 1 <= MaxRequests
      /\ UNCHANGED <<alive, environment, handled>>
  BY <1>m DEF MakeRequest
<1>3. /\ requests \in Seq(Request) /\ m \in Nat /\ r.size \in 1..MaxUnits /\ m + 1 \in Numbers
  <2>1. requests \in Seq(Request) /\ m \in Nat
    BY <1>1, <1>m DEF TypeOK
  <2>2. r.size \in 1..MaxUnits
    BY DEF Asked, Request
  <2>3. m + 1 \in Numbers
    BY <1>2, <2>1 DEF Numbers
  <2> QED BY <2>1, <2>2, <2>3
<1>4. /\ Len(requests') = m + 1 /\ requests'[m + 1] = r
      /\ \A n \in 1..m : requests'[n] = requests[n]
  BY <1>2, <1>3, <1>m DEF Asked
<1>5. UnitsOf(m + 1, r.size) \in Seq(Unit)
  BY <1>3, UnitsTyped
<1>6. SentUnits' = Append(SentUnits, UnitsOf(m + 1, r.size))
  <2>1. PICK f : f = SentUnits
    OBVIOUS
  <2>2. PICK g : g = SentUnits'
    OBVIOUS
  <2>3. /\ f \in Seq(Seq(Unit)) /\ Len(f) = m
        /\ \A n \in 1..m : f[n] = UnitsOf(n, requests[n].size)
    BY <1>1, <1>m, <2>1, SentUnitsIs
  <2>4. /\ g \in Seq(Seq(Unit)) /\ Len(g) = m + 1
        /\ \A n \in 1..m + 1 : g[n] = UnitsOf(n, requests'[n].size)
    <3>1. /\ SentUnits' \in Seq(Seq(Unit)) /\ Len(SentUnits') = Len(requests')
          /\ \A n \in 1..Len(requests') : SentUnits'[n] = UnitsOf(n, requests'[n].size)
      <4>1. /\ DOMAIN requests' = 1..m + 1
            /\ \A n \in 1..m + 1 : n \in Numbers /\ requests'[n].size \in 1..MaxUnits
        <5>1. requests' \in Seq(Request)
          BY <1>1 DEF TypeOK
        <5>2. DOMAIN requests' = 1..m + 1 /\ \A n \in 1..m + 1 : requests'[n] \in Request
          BY <1>4, <5>1
        <5>3. \A n \in 1..m + 1 : n \in Numbers
          BY <1>2, <1>3 DEF Numbers
        <5> QED BY <5>2, <5>3 DEF Request
      <4>2. \A n \in 1..m + 1 : UnitsOf(n, requests'[n].size) \in Seq(Unit)
        BY <4>1, UnitsTyped
      <4>3. SentUnits' = [n \in 1..m + 1 |-> UnitsOf(n, requests'[n].size)]
        BY <4>1 DEF SentUnits
      <4>4. m + 1 \in Nat
        BY <1>3
      <4> QED BY <1>4, <4>2, <4>3, <4>4
    <3> QED BY <1>4, <2>2, <3>1
  <2>5. \A i \in 1..m : g[i] = f[i]
    <3> TAKE i \in 1..m
    <3>1. i \in 1..m + 1
      BY <1>3
    <3>2. g[i] = UnitsOf(i, requests'[i].size)
      BY <2>4, <3>1
    <3> QED BY <1>4, <2>3, <3>2
  <2>6. g[m + 1] = UnitsOf(m + 1, r.size)
    <3>1. m + 1 \in 1..m + 1
      BY <1>3
    <3> QED BY <1>4, <2>4, <3>1
  <2>7. g = Append(f, UnitsOf(m + 1, r.size))
    BY <1>5, <2>3, <2>4, <2>5, <2>6, AppendIs
  <2> QED BY <2>1, <2>2, <2>7
<1>7. SentWithFds' = Append(SentWithFds, [units |-> UnitsOf(m + 1, r.size),
                                          fd |-> IF r.fd THEN m + 1 ELSE NoFd])
  <2>1. PICK f : f = SentWithFds
    OBVIOUS
  <2>2. PICK g : g = SentWithFds'
    OBVIOUS
  <2>3. /\ f \in Seq(UnitsAndFd) /\ Len(f) = m
        /\ \A n \in 1..m : f[n] = [units |-> UnitsOf(n, requests[n].size),
                                   fd |-> IF requests[n].fd THEN n ELSE NoFd]
    BY <1>1, <1>m, <2>1, SentWithFdsIs
  <2>4. /\ DOMAIN requests' = 1..m + 1
        /\ \A n \in 1..m + 1 : n \in Numbers /\ requests'[n].size \in 1..MaxUnits
    <3>1. requests' \in Seq(Request)
      BY <1>1 DEF TypeOK
    <3>2. DOMAIN requests' = 1..m + 1 /\ \A n \in 1..m + 1 : requests'[n] \in Request
      BY <1>4, <3>1
    <3>3. \A n \in 1..m + 1 : n \in Numbers
      BY <1>2, <1>3 DEF Numbers
    <3> QED BY <3>2, <3>3 DEF Request
  <2>5. g = [n \in 1..m + 1 |-> [units |-> UnitsOf(n, requests'[n].size),
                                 fd |-> IF requests'[n].fd THEN n ELSE NoFd]]
    BY <2>2, <2>4 DEF SentWithFds
  <2>6. \A n \in 1..m + 1 :
          [units |-> UnitsOf(n, requests'[n].size),
           fd |-> IF requests'[n].fd THEN n ELSE NoFd] \in UnitsAndFd
    <3> TAKE n \in 1..m + 1
    <3>1. n \in Numbers /\ UnitsOf(n, requests'[n].size) \in Seq(Unit)
      BY <2>4, UnitsTyped
    <3> QED BY <3>1 DEF UnitsAndFd
  <2>7. g \in Seq(UnitsAndFd) /\ Len(g) = m + 1
    <3>1. m + 1 \in Nat
      BY <1>3
    <3>2. g \in [1..m + 1 -> UnitsAndFd]
      BY <2>5, <2>6
    <3> QED BY <3>1, <3>2
  <2>8. \A i \in 1..m : g[i] = f[i]
    <3> TAKE i \in 1..m
    <3>1. i \in 1..m + 1
      BY <1>3
    <3>2. g[i] = [units |-> UnitsOf(i, requests'[i].size),
                  fd |-> IF requests'[i].fd THEN i ELSE NoFd]
      BY <2>5, <3>1
    <3> QED BY <1>4, <2>3, <3>2
  <2>9. PICK x : x = [units |-> UnitsOf(m + 1, r.size), fd |-> IF r.fd THEN m + 1 ELSE NoFd]
    OBVIOUS
  <2>10. g[m + 1] = x /\ x \in UnitsAndFd
    <3>1. m + 1 \in 1..m + 1
      BY <1>3
    <3>2. g[m + 1] = [units |-> UnitsOf(m + 1, requests'[m + 1].size),
                      fd |-> IF requests'[m + 1].fd THEN m + 1 ELSE NoFd]
      BY <2>5, <3>1
    <3>3. g[m + 1] = x
      BY <1>4, <2>9, <3>2
    <3>4. g[m + 1] \in UnitsAndFd
      BY <2>5, <2>6, <3>1
    <3> QED BY <3>3, <3>4
  <2>11. g = Append(f, x)
    BY <2>3, <2>7, <2>8, <2>10, AppendIs
  <2> QED BY <2>1, <2>2, <2>9, <2>11
<1> QED BY <1>2, <1>3, <1>6, <1>7

LEMMA DispatchedOne ==
  ASSUME IInv, IInv', Dispatch
  PROVE  /\ GivenUnits' = Append(GivenUnits, SentUnits[Len(GivenUnits) + 1])
         /\ Len(GivenUnits) < Len(SentUnits)
         /\ Len(handled) < Len(SentWithFds)
         /\ Few => handled' = Append(handled, SentWithFds[Len(handled) + 1])
         /\ UNCHANGED <<alive, environment, SentUnits, SentWithFds>>
<1>1. TypeOK /\ LaidOut /\ FdsInv /\ TypeOK'
  BY DEF IInv
<1>d. PICK d : d = Len(handled)
  OBVIOUS
<1>z. PICK size : size = First.size
  OBVIOUS
<1>f. PICK fd : fd = IF First.fd THEN FrontFd ELSE NoFd
  OBVIOUS
<1>2. /\ alive /\ in # <<>> /\ Len(in) >= size
      /\ handled' = Append(handled, [units |-> SubSeq(in, 1, size), fd |-> fd])
      /\ UNCHANGED <<alive, environment, requests>>
  BY <1>z, <1>f DEF Dispatch, Complete
<1>3. /\ d + 1 \in DOMAIN requests /\ First = requests[d + 1]
      /\ SubSeq(in, 1, size) = UnitsOf(d + 1, size)
      /\ size \in 1..MaxUnits
  BY <1>1, <1>2, <1>d, <1>z, FirstIs
<1>4. /\ d \in Nat /\ d + 1 \in 1..Len(requests) /\ Len(requests) \in Nat /\ d < Len(requests)
  <2>1. d \in Nat /\ d + 1 \in 1..Len(requests) /\ Len(requests) \in Nat
    BY <1>1, <1>3, <1>d, RequestIs, HandledAreMade
  <2> QED BY <2>1
<1>u. PICK u : u = UnitsOf(d + 1, size)
  OBVIOUS
<1>5. /\ handled' = Append(handled, [units |-> u, fd |-> fd])
      /\ u \in Seq(Unit) /\ fd \in Numbers \cup {NoFd}
  <2>1. u \in Seq(Unit)
    BY <1>1, <1>3, <1>u, RequestIs, UnitsTyped
  <2>2. fd \in Numbers \cup {NoFd}
    BY <1>1, <1>f, QueuedIs
  <2> QED BY <1>2, <1>3, <1>u, <2>1, <2>2
<1>6. /\ SentUnits \in Seq(Seq(Unit)) /\ Len(SentUnits) = Len(requests)
      /\ SentUnits[d + 1] = u
  <2>1. SentUnits[d + 1] = UnitsOf(d + 1, requests[d + 1].size)
    BY <1>1, <1>4, SentUnitsIs
  <2> QED BY <1>1, <1>3, <1>z, <1>u, <2>1, SentUnitsIs
<1>7. GivenUnits \in Seq(Seq(Unit)) /\ Len(GivenUnits) = d
      /\ \A k \in 1..d : GivenUnits[k] = handled[k].units
  BY <1>1, <1>d, HandledIs
<1>8. GivenUnits' = Append(GivenUnits, u)
  <2>1. PICK h : h = [units |-> u, fd |-> fd]
    OBVIOUS
  <2>2. h \in UnitsAndFd /\ h.units = u
    BY <1>5, <2>1 DEF UnitsAndFd
  <2>3. handled \in Seq(UnitsAndFd) /\ handled' = Append(handled, h)
    BY <1>1, <1>5, <2>1, HandledIs
  <2>4. /\ handled' \in Seq(UnitsAndFd) /\ Len(handled') = d + 1
        /\ DOMAIN handled' = 1..d + 1
        /\ \A k \in 1..d : handled'[k] = handled[k]
        /\ handled'[d + 1] = h
    BY <1>d, <2>2, <2>3
  <2>5. PICK g : g = GivenUnits'
    OBVIOUS
  <2>6. g = [k \in 1..d + 1 |-> handled'[k].units]
    BY <2>4, <2>5 DEF GivenUnits
  <2>7. \A k \in 1..d + 1 : handled'[k].units \in Seq(Unit)
    <3>1. \A k \in 1..d + 1 : handled'[k] \in UnitsAndFd
      BY <2>4
    <3> QED BY <3>1 DEF UnitsAndFd
  <2>8. g \in Seq(Seq(Unit)) /\ Len(g) = d + 1
    <3>1. d + 1 \in Nat
      BY <1>4
    <3>2. g \in [1..d + 1 -> Seq(Unit)]
      BY <2>6, <2>7
    <3> QED BY <3>1, <3>2
  <2>9. \A i \in 1..d : g[i] = GivenUnits[i]
    <3> TAKE i \in 1..d
    <3>1. i \in 1..d + 1
      BY <1>4
    <3>2. g[i] = handled'[i].units
      BY <2>6, <3>1
    <3> QED BY <1>7, <2>4, <3>2
  <2>10. g[d + 1] = u
    <3>1. d + 1 \in 1..d + 1
      BY <1>4
    <3>2. g[d + 1] = handled'[d + 1].units
      BY <2>6, <3>1
    <3> QED BY <2>2, <2>4, <3>2
  <2>11. PICK f : f = GivenUnits
    OBVIOUS
  <2>12. g = Append(f, u)
    BY <1>5, <1>7, <2>8, <2>9, <2>10, <2>11, AppendIs
  <2> QED BY <2>5, <2>11, <2>12
<1>9. Len(SentWithFds) = Len(requests)
  BY <1>1, SentWithFdsIs
<1>10. ASSUME Few
       PROVE  handled' = Append(handled, SentWithFds[d + 1])
  <2>1. SentWithFds[d + 1] = [units |-> UnitsOf(d + 1, requests[d + 1].size),
                              fd |-> IF requests[d + 1].fd THEN d + 1 ELSE NoFd]
    BY <1>1, <1>4, SentWithFdsIs
  <2>2. First.fd => FrontFd = d + 1
    BY <1>1, <1>2, <1>10, <1>d, FrontIsFirst
  <2>3. fd = IF requests[d + 1].fd THEN d + 1 ELSE NoFd
    BY <1>3, <1>f, <2>2
  <2>4. UnitsOf(d + 1, requests[d + 1].size) = u
    BY <1>3, <1>z, <1>u
  <2>5. SentWithFds[d + 1] = [units |-> u, fd |-> fd]
    BY <2>1, <2>3, <2>4
  <2> QED BY <1>5, <2>5
<1>11. UNCHANGED <<SentUnits, SentWithFds>>
  BY <1>2 DEF SentUnits, SentWithFds
<1> QED BY <1>2, <1>4, <1>6, <1>7, <1>8, <1>9, <1>10, <1>11, <1>d

LEMMA OthersKeep ==
  ASSUME TypeOK, Next \/ UNCHANGED vars, ~Dispatch,
         ~\E r \in Asked : MakeRequest(r)
  PROVE  /\ UNCHANGED <<environment, handled, SentUnits, SentWithFds, GivenUnits>>
         /\ alive' = alive \/ (alive /\ alive' = FALSE)
<1>1. UNCHANGED <<environment, handled, requests>>
  BY DEF Next, SendChunk, CloseClient, Receive, ReceiveNothing, ReceiveEnd,
         DispatchRefused, DispatchEnd, Reap, vars
<1>2. alive' = alive \/ (alive /\ alive' = FALSE)
  <2>1. CASE Receive
    <3>1. alive /\ alive' = ~(Len(in') > MaxIncoming)
      BY <2>1 DEF Receive, Reading
    <3>2. alive = TRUE
      BY <3>1 DEF TypeOK
    <3> QED BY <3>1, <3>2, Zenon
  <2>2. CASE ~Receive
    BY <2>2 DEF Next, SendChunk, CloseClient, ReceiveNothing, ReceiveEnd,
         DispatchRefused, DispatchEnd, Reap, vars, Reading
  <2> QED BY <2>1, <2>2
<1> QED BY <1>1, <1>2 DEF SentUnits, SentWithFds, GivenUnits

LEMMA BytesStep ==
  ASSUME IInv, IInv', [Next]_vars
  PROVE  [Bytes!Next]_<<alive, SentUnits, GivenUnits>>
<1>0. TypeOK /\ (Next \/ UNCHANGED vars)
  BY DEF IInv
<1>1. CASE \E r \in Asked : MakeRequest(r)
  <2>1. PICK r \in Asked : MakeRequest(r)
    BY <1>1
  <2>2. PICK n \in Numbers, size \in 1..MaxUnits :
          /\ SentUnits' = Append(SentUnits, UnitsOf(n, size))
          /\ UNCHANGED <<alive, handled>>
    BY <2>1, MadeOne
  <2>3. alive /\ GivenUnits' = GivenUnits
    BY <2>1, <2>2 DEF MakeRequest, GivenUnits
  <2>4. Bytes!Put(UnitsOf(n, size))
    BY <2>2, <2>3 DEF Bytes!Put, SentUnits, GivenUnits
  <2>5. UnitsOf(n, size) \in {UnitsOf(i, l) : i \in Numbers, l \in 1..MaxUnits}
    OBVIOUS
  <2> QED BY <2>4, <2>5 DEF Bytes!Next
<1>2. CASE Dispatch
  <2>1. /\ GivenUnits' = Append(GivenUnits, SentUnits[Len(GivenUnits) + 1])
        /\ Len(GivenUnits) < Len(SentUnits)
        /\ UNCHANGED <<alive, SentUnits>>
    BY <1>2, DispatchedOne
  <2>2. Bytes!Deliver
    BY <2>1 DEF Bytes!Deliver, SentUnits, GivenUnits
  <2> QED BY <2>2 DEF Bytes!Next
<1>3. CASE ~Dispatch /\ ~\E r \in Asked : MakeRequest(r)
  <2>1. UNCHANGED <<SentUnits, GivenUnits>> /\ (alive' = alive \/ (alive /\ alive' = FALSE))
    BY <1>0, <1>3, OthersKeep
  <2>2. CASE alive /\ alive' = FALSE
    <3>1. Bytes!Close
      BY <2>1, <2>2 DEF Bytes!Close, SentUnits, GivenUnits
    <3> QED BY <3>1 DEF Bytes!Next
  <2> QED BY <2>1, <2>2
<1> QED BY <1>1, <1>2, <1>3

(***************************************************************************)
(* processIncoming dispatches what the client asked whole, in order and    *)
(* once each, however its bytes were cut up on the way: the safety half of *)
(* DispatchesBytes.                                                        *)
(***************************************************************************)
THEOREM DispatchedInOrder ==
  Spec => Bytes!Init /\ [][Bytes!Next]_<<alive, SentUnits, GivenUnits>>
<1>1. Init => Bytes!Init
  BY DEF Init, Bytes!Init
<1>2. IInv /\ IInv' /\ [Next]_vars => [Bytes!Next]_<<alive, SentUnits, GivenUnits>>
  BY BytesStep
<1> QED BY <1>1, <1>2, InvariantHolds, PTL DEF Spec

EasySent == IF EasyRun THEN SentWithFds ELSE <<>>
EasyGiven == IF EasyRun THEN handled ELSE <<>>

LEMMA WithFdsStep ==
  ASSUME IInv, IInv', [Next]_vars
  PROVE  [WithFds!Next]_<<EasyRun => alive, EasySent, EasyGiven>>
<1>0. TypeOK /\ (Next \/ UNCHANGED vars) /\ alive \in BOOLEAN
  BY DEF IInv, TypeOK
<1>e. environment' = environment
  BY DEF Next, MakeRequest, SendChunk, CloseClient, Receive, ReceiveNothing, ReceiveEnd,
         Dispatch, DispatchRefused, DispatchEnd, Reap, vars
<1>f. EasyRun' = EasyRun /\ (EasyRun <=> Few) /\ EasyRun \in BOOLEAN
  BY <1>e DEF EasyRun, Few
<1>1. CASE ~EasyRun
  <2>1. EasySent = <<>> /\ EasyGiven = <<>> /\ EasySent' = <<>> /\ EasyGiven' = <<>>
    BY <1>1, <1>f DEF EasySent, EasyGiven
  <2>2. (EasyRun => alive)' = (EasyRun => alive)
    BY <1>1, <1>f
  <2> QED BY <2>1, <2>2
<1>2. CASE EasyRun
  <2>1. /\ EasySent = SentWithFds /\ EasyGiven = handled
        /\ EasySent' = SentWithFds' /\ EasyGiven' = handled'
    BY <1>2, <1>f DEF EasySent, EasyGiven
  <2>2. CASE \E r \in Asked : MakeRequest(r)
    <3>1. PICK r \in Asked : MakeRequest(r)
      BY <2>2
    <3>2. PICK n \in Numbers, size \in 1..MaxUnits :
            /\ SentWithFds' = Append(SentWithFds, [units |-> UnitsOf(n, size),
                                                   fd |-> IF r.fd THEN n ELSE NoFd])
            /\ UNCHANGED <<alive, handled>>
      BY <3>1, MadeOne
    <3>3. PICK m : m = [units |-> UnitsOf(n, size), fd |-> IF r.fd THEN n ELSE NoFd]
      OBVIOUS
    <3>4. m \in [units : {UnitsOf(i, l) : i \in Numbers, l \in 1..MaxUnits},
                 fd : Numbers \cup {NoFd}]
      BY <3>3
    <3>5. alive
      BY <3>1 DEF MakeRequest
    <3>6. /\ EasySent' = Append(EasySent, m) /\ EasyGiven' = EasyGiven
          /\ (EasyRun => alive) /\ (EasyRun => alive)' = (EasyRun => alive)
      BY <1>2, <1>f, <2>1, <3>2, <3>3, <3>5
    <3>7. WithFds!Put(m)
      BY <3>6 DEF WithFds!Put, EasySent, EasyGiven, SentWithFds
    <3> QED BY <3>4, <3>7 DEF WithFds!Next
  <2>3. CASE Dispatch
    <3>1. /\ Len(handled) < Len(SentWithFds)
          /\ handled' = Append(handled, SentWithFds[Len(handled) + 1])
          /\ UNCHANGED <<alive, SentWithFds>>
      BY <1>2, <1>f, <2>3, DispatchedOne
    <3>2. /\ Len(EasyGiven) < Len(EasySent)
          /\ EasyGiven' = Append(EasyGiven, EasySent[Len(EasyGiven) + 1])
          /\ EasySent' = EasySent
          /\ (EasyRun => alive)' = (EasyRun => alive)
      BY <1>f, <2>1, <3>1
    <3>3. WithFds!Deliver
      BY <3>2 DEF WithFds!Deliver, EasySent, EasyGiven, SentWithFds
    <3> QED BY <3>3 DEF WithFds!Next
  <2>4. CASE ~Dispatch /\ ~\E r \in Asked : MakeRequest(r)
    <3>1. /\ UNCHANGED <<SentWithFds, handled>>
          /\ alive' = alive \/ (alive /\ alive' = FALSE)
      BY <1>0, <2>4, OthersKeep
    <3>2. UNCHANGED <<EasySent, EasyGiven>>
      BY <2>1, <3>1
    <3>3. CASE alive' = alive
      <4>1. (EasyRun => alive)' = (EasyRun => alive)
        BY <1>f, <3>3
      <4> QED BY <3>2, <4>1
    <3>4. CASE alive /\ alive' = FALSE
      <4>1. (EasyRun => alive) /\ (EasyRun => alive)' = FALSE
        BY <1>2, <1>f, <3>4
      <4>2. WithFds!Close
        BY <3>2, <4>1 DEF WithFds!Close, EasySent, EasyGiven, SentWithFds
      <4> QED BY <4>2 DEF WithFds!Next
    <3> QED BY <3>1, <3>3, <3>4
  <2> QED BY <2>2, <2>3, <2>4
<1> QED BY <1>1, <1>2

(***************************************************************************)
(* Each reaches its handler with its own descriptor, when the client sends *)
(* no more of them at once than one recvmsg takes: the safety half of      *)
(* DispatchesWithFds.                                                      *)
(***************************************************************************)
THEOREM DispatchedWithFds ==
  Spec => WithFds!Init /\ [][WithFds!Next]_<<EasyRun => alive, EasySent, EasyGiven>>
<1>1. Init => WithFds!Init
  BY DEF Init, WithFds!Init
<1>2. IInv /\ IInv' /\ [Next]_vars =>
        [WithFds!Next]_<<EasyRun => alive, EasySent, EasyGiven>>
  BY WithFdsStep
<1> QED BY <1>1, <1>2, InvariantHolds, PTL DEF Spec
=============================================================================
