--------------------------- MODULE GeofencingProofs ---------------------------
(***************************************************************************)
(* Proofs about the geofence adapter: the adapter's maps describe the      *)
(* fences that the modem watches, and every call is answered once, for any *)
(* clients, fences, calls, refusals, suspensions and restarts of the modem.*)
(* A call is a row of parts that go through one queue, and only its last   *)
(* part answers it: the invariant says that no part is in the queue twice, *)
(* so that the call has its answer exactly when that part has left.  The   *)
(* modem hands out the least number that is free: that one is free needs   *)
(* that no fence is saved twice nor is to be added while it is saved, so   *)
(* that there are never more fences than numbers.                          *)
(***************************************************************************)
EXTENDS Geofencing, FiniteSetTheorems, SequenceTheorems, TLAPS

-----------------------------------------------------------------------------
(* Numbers in their order *)

\* InOrder lists a finite set of numbers: every place holds a member, and no two the same.
LEMMA InOrderLists ==
    ASSUME NEW S \in SUBSET Int, IsFiniteSet(S)
    PROVE  /\ Cardinality(S) \in Nat
           /\ DOMAIN InOrder(S) = 1..Cardinality(S)
           /\ \A i \in 1..Cardinality(S) : /\ InOrder(S)[i] \in S
                                           /\ Cardinality({y \in S : y <= InOrder(S)[i]}) = i
<1> DEFINE upTo(x) == {y \in S : y <= x}
           n == Cardinality(S)
           rank == [x \in S |-> Cardinality(upTo(x))]
<1>1. n \in Nat BY FS_CardinalityType
<1>2. \A x \in S : upTo(x) \in SUBSET S /\ x \in upTo(x) OBVIOUS
<1>3. \A x \in S : IsFiniteSet(upTo(x)) /\ rank[x] <= n BY <1>2, FS_Subset
<1>4. \A x \in S : rank[x] \in 1..n
  <2> TAKE x \in S
  <2>1. Cardinality(upTo(x)) \in Nat BY <1>3, FS_CardinalityType
  <2>2. Cardinality(upTo(x)) # 0 BY <1>2, <1>3, FS_EmptySet
  <2> QED BY <1>1, <1>3, <2>1, <2>2
<1>5. \A x, z \in S : x < z => rank[x] # rank[z]
  <2> SUFFICES ASSUME NEW x \in S, NEW z \in S, x < z, rank[x] = rank[z] PROVE FALSE
    OBVIOUS
  <2>0. \A y \in S : y <= x => y <= z OBVIOUS
  <2>1. upTo(x) \in SUBSET upTo(z) BY <2>0
  <2>2. Cardinality(upTo(x)) = Cardinality(upTo(z)) OBVIOUS
  <2>3. upTo(x) = upTo(z)
    <3> HIDE DEF upTo
    <3> QED BY <1>3, <2>1, <2>2, FS_Subset
  <2>4. z \in upTo(z) /\ z \notin upTo(x) OBVIOUS
  <2> QED BY <2>3, <2>4
<1>6. rank \in Injection(S, 1..n)
  <2>1. rank \in [S -> 1..n] BY <1>4
  <2>2. \A x, z \in S : rank[x] = rank[z] => x = z BY <1>5
  <2> QED BY <2>1, <2>2 DEF Injection, IsInjective
<1>7. IsFiniteSet(1..n) /\ Cardinality(1..n) = n BY <1>1, FS_Interval
<1>8. rank \in Surjection(S, 1..n)
  <2> HIDE DEF rank, n
  <2>1. Cardinality(S) = Cardinality(1..n) BY <1>7 DEF n
  <2> QED BY <1>6, <1>7, <2>1, FS_Injection
<1>9. \A i \in 1..n : \E x \in S : Cardinality(upTo(x)) = i BY <1>8 DEF Surjection
<1> QED BY <1>1, <1>9 DEF InOrder

\* A finite set of numbers that is not empty has a least one.
LEMMA LeastNumber ==
    ASSUME NEW S \in SUBSET Int, IsFiniteSet(S), S # {}
    PROVE  \E x \in S : \A y \in S : ~(y < x)
<1>1. Cardinality(S) \in Nat \ {0} BY FS_CardinalityType, FS_EmptySet
<1>2. PICK x \in S : Cardinality({y \in S : y <= x}) = 1
  <2>1. 1 \in 1..Cardinality(S) BY <1>1
  <2>2. \A i \in 1..Cardinality(S) : InOrder(S)[i] \in S /\ Cardinality({y \in S : y <= InOrder(S)[i]}) = i
    BY InOrderLists
  <2>3. InOrder(S)[1] \in S /\ Cardinality({y \in S : y <= InOrder(S)[1]}) = 1 BY <2>1, <2>2, Zenon
  <2> QED BY <2>3, Zenon
<1>3. {y \in S : y <= x} = {x}
  <2> DEFINE below == {y \in S : y <= x}
  <2>1. IsFiniteSet(below) BY FS_Subset
  <2>2. Cardinality(below) = 1 /\ x \in below BY <1>2
  <2> HIDE DEF below
  <2>3. PICK z : below = {z} BY <2>1, <2>2, FS_Singleton
  <2>4. below = {x} BY <2>2, <2>3
  <2> QED BY <2>4 DEF below
<1>4. \A y \in S : y < x => y \in {y2 \in S : y2 <= x} OBVIOUS
<1>5. \A y \in S : ~(y < x) BY <1>3, <1>4
<1> QED BY <1>5
-----------------------------------------------------------------------------
(* The geofence adapter's queue: the inductive invariant *)

CallOps == {"add", "remove", "modify", "pause", "resume"}
FenceRecord == [client : FenceClient, id : FenceId, version : 0..1, paused : BOOLEAN]

TurnItem == [op : {"turn"}, call : FenceCall, item : Nat]
AskItem == [op : CallOps, call : FenceCall, item : Nat, key : FenceKey, version : 0..1,
            hw : 0..MaxFence, paused : {FALSE}]
EraseItem == [op : {"remove"}, call : {0}, hw : HwId]
PowerItem == [op : {"pause", "resume"}, call : {0}, hw : HwId, key : {<<>>}]
PauseItem == [op : {"pause"}, call : {0}, hw : HwId, key : FenceKey]
ReaddItem == [op : {"readd"}, call : {0}, key : FenceKey, version : 0..1, paused : BOOLEAN]
QueueItem == TurnItem \cup AskItem \cup EraseItem \cup PowerItem \cup PauseItem \cup ReaddItem

\* A turn or a request of a call says which part of the call it is.
PartOf(r, calls, next) ==
    r.call > 0 => /\ r.call < next
                  /\ r.item \in DOMAIN calls[r.call].ids
                  /\ r.op # "turn" =>
                        /\ r.op = calls[r.call].op
                        /\ r.key = <<calls[r.call].client, calls[r.call].ids[r.item]>>
                        /\ r.op # "add" => r.hw > 0

FenceError == {"none", "success", "failure", "idUnknown"}
CallRecord == [op : CallOps, client : FenceClient, ids : Seq(FenceId), errs : Seq(FenceError),
               version : 0..1, replies : Nat, refused : BOOLEAN, told : Seq(FenceError),
               done : SUBSET Nat]
CallShape(call) == call \in CallRecord /\ call.ids # <<>> /\ Len(call.errs) = Len(call.ids)

CallsShape(calls, next) ==
    /\ DOMAIN calls = FenceCall
    /\ \A n \in FenceCall : IF n < next THEN CallShape(calls[n]) ELSE calls[n] = NoFenceCall

\* No part of a call is under way twice.
PartsOnce(q) ==
    \A i, j \in 1..Len(q) : q[i].call > 0 /\ q[i].call = q[j].call /\ q[i].item = q[j].item => i = j

\* A call's last part answers it.
LastUnderWay(q, calls, n) ==
    \E i \in 1..Len(q) : q[i].call = n /\ q[i].item = Len(calls[n].ids)
RepliesOf(q, calls, n) ==
    IF LastUnderWay(q, calls, n) THEN calls[n].replies = 0
    ELSE calls[n].replies = 1 \/ (calls[n].replies = 0 /\ calls[n].refused /\ calls[n].op = "resume")

\* What will be saved under a new number: each fence once, and none that has one.
Adds(r, calls) == r.op \in {"add", "readd"} \/ (r.op = "turn" /\ calls[r.call].op = "add")
AddedId(r, calls) == IF r.op = "turn" THEN calls[r.call].ids[r.item] ELSE r.key[2]
AddedOnce(q, calls, saved, next) ==
    /\ \A i \in 1..Len(q) : Adds(q[i], calls) => AddedId(q[i], calls) \in 1..(next - 1)
    /\ \A i, j \in 1..Len(q) :
          Adds(q[i], calls) /\ Adds(q[j], calls) /\ AddedId(q[i], calls) = AddedId(q[j], calls) => i = j
    /\ \A i \in 1..Len(q), h \in HwId : Adds(q[i], calls) /\ saved[h] # NoFence =>
           saved[h].id # AddedId(q[i], calls)
    /\ \A h, g \in HwId : saved[h] # NoFence /\ saved[g] # NoFence /\ saved[h].id = saved[g].id => h = g
    /\ \A h \in HwId : saved[h] # NoFence => saved[h].id \in 1..(next - 1)

\* A client that is removed, is removed with its fences: their numbers are erased already.
Erases(r) == r.op = "remove" /\ r.call = 0
NamesFences(q, ids, saved, modem, up) ==
    /\ \A k \in FenceKey : ids[k] > 0 => /\ saved[ids[k]] # NoFence
                                         /\ saved[ids[k]].client = k[1] /\ saved[ids[k]].id = k[2]
                                         /\ up => modem[ids[k]] # Unwatched
    /\ \A i \in 1..Len(q), k \in FenceKey : Erases(q[i]) => ids[k] # q[i].hw

Shapes ==
    /\ fenceCbs \subseteq FenceClient /\ fenceUp \in BOOLEAN /\ crossed \in BOOLEAN
    /\ nextFence \in 1..(MaxFence + 1) /\ nextFenceCall \in 1..(MaxFenceCalls + 1)
    /\ mGeofences \in [HwId -> FenceRecord \cup {NoFence}]
    /\ mGeofenceIds \in [FenceKey -> 0..MaxFence]
    /\ watched \in [HwId -> [paused : BOOLEAN, version : -1..1]]
    /\ CallsShape(fenceCalls, nextFenceCall)
    /\ fenceQueue \in Seq(QueueItem)
    /\ \A i \in 1..Len(fenceQueue) : PartOf(fenceQueue[i], fenceCalls, nextFenceCall)

Replies == \A n \in FenceCall : n < nextFenceCall /\ fenceCalls[n].client \in fenceCbs =>
               RepliesOf(fenceQueue, fenceCalls, n)

ModemKept == ~fenceUp => \A h \in HwId : watched[h] = Unwatched

FenceInv ==
    /\ Shapes /\ PartsOnce(fenceQueue) /\ Replies
    /\ AddedOnce(fenceQueue, fenceCalls, mGeofences, nextFence)
    /\ WatchedIsKnown /\ ModemKept
    /\ ~crossed => NamesFences(fenceQueue, mGeofenceIds, mGeofences, watched, fenceUp)

-----------------------------------------------------------------------------
(* How steps move the queue *)

\* The head may leave the queue, and new items enter at its end.
Moves(q, d, new, q2) ==
    /\ Len(q) \in Nat /\ Len(new) \in Nat /\ d \in {0, 1} /\ d <= Len(q)
    /\ Len(q2) = Len(q) - d + Len(new)
    /\ \A i \in 1..(Len(q) - d) : q2[i] = q[i + d]
    /\ \A j \in 1..Len(new) : q2[Len(q) - d + j] = new[j]

\* Items that enter at the end of the queue move it.
LEMMA Entered ==
    ASSUME NEW S, NEW q \in Seq(S), NEW new \in Seq(S)
    PROVE  q \o new \in Seq(S) /\ Moves(q, 0, new, q \o new)
<1>1. q \o new \in Seq(S) /\ Len(q \o new) = Len(q) + Len(new) OBVIOUS
<1>2. \A i \in 1..Len(q) : (q \o new)[i] = q[i] OBVIOUS
<1>3. \A j \in 1..Len(new) : (q \o new)[Len(q) + j] = new[j] OBVIOUS
<1> QED BY <1>1, <1>2, <1>3 DEF Moves

\* So does the head that leaves it, whatever enters.
LEMMA HeadLeft ==
    ASSUME NEW S, NEW q \in Seq(S), q # <<>>, NEW new \in Seq(S)
    PROVE  /\ Tail(q) \o new \in Seq(S) /\ Moves(q, 1, new, Tail(q) \o new)
           /\ Tail(q) \in Seq(S) /\ Moves(q, 1, <<>>, Tail(q))
           /\ Head(q) = q[1] /\ 1 \in 1..Len(q) /\ Head(q) \in S
<1>1. Tail(q) \in Seq(S) /\ Len(Tail(q)) = Len(q) - 1 /\ Len(q) \in Nat \ {0} OBVIOUS
<1>2. \A i \in 1..(Len(q) - 1) : Tail(q)[i] = q[i + 1] OBVIOUS
<1>3. Moves(Tail(q), 0, new, Tail(q) \o new) /\ Tail(q) \o new \in Seq(S) BY <1>1, Entered
<1>4. Moves(q, 1, new, Tail(q) \o new) BY <1>1, <1>2, <1>3 DEF Moves
<1>5. Moves(q, 1, <<>>, Tail(q)) BY <1>1, <1>2 DEF Moves
<1>6. Head(q) = q[1] /\ 1 \in 1..Len(q) /\ Head(q) \in S OBVIOUS
<1> QED BY <1>1, <1>3, <1>4, <1>5, <1>6

\* So does one item that enters as the head leaves.
LEMMA OneEntered ==
    ASSUME NEW S, NEW q \in Seq(S), q # <<>>, NEW r \in S
    PROVE  Append(Tail(q), r) \in Seq(S) /\ Moves(q, 1, <<r>>, Append(Tail(q), r))
<1>1. Append(Tail(q), r) = Tail(q) \o <<r>> /\ <<r>> \in Seq(S) OBVIOUS
<1> QED BY <1>1, HeadLeft

\* Where an item of the new queue comes from, and where one of the old queue goes.
LEMMA CameFrom ==
    ASSUME NEW q, NEW d, NEW new, NEW q2, Moves(q, d, new, q2), NEW k \in 1..Len(q2)
    PROVE  \/ \E i \in 1..Len(q) : i > d /\ k = i - d /\ q2[k] = q[i]
           \/ \E j \in 1..Len(new) : k = Len(q) - d + j /\ q2[k] = new[j]
<1>1. CASE k <= Len(q) - d
  <2>1. k + d \in 1..Len(q) /\ k + d > d /\ k = (k + d) - d /\ k \in 1..(Len(q) - d)
    BY <1>1 DEF Moves
  <2>2. q2[k] = q[k + d] BY <2>1 DEF Moves
  <2> QED BY <2>1, <2>2
<1>2. CASE k > Len(q) - d
  <2> DEFINE j == k - (Len(q) - d)
  <2>1. j \in 1..Len(new) /\ k = Len(q) - d + j BY <1>2 DEF Moves
  <2> HIDE DEF j
  <2>2. q2[k] = new[j] BY <2>1 DEF Moves
  <2> QED BY <2>1, <2>2
<1> QED BY <1>1, <1>2 DEF Moves

\* The same when the head leaves.
LEMMA CameFromTail ==
    ASSUME NEW q, NEW new, NEW q2, Moves(q, 1, new, q2), NEW k \in 1..Len(q2)
    PROVE  \/ \E i \in 1..Len(q) : i > 1 /\ k = i - 1 /\ q2[k] = q[i]
           \/ \E j \in 1..Len(new) : k = Len(q) - 1 + j /\ q2[k] = new[j]
<1>1. PICK d : d = 1 OBVIOUS
<1>2. Moves(q, d, new, q2) BY <1>1
<1>3. CASE \E i \in 1..Len(q) : i > d /\ k = i - d /\ q2[k] = q[i] BY <1>1, <1>3
<1>4. CASE \E j \in 1..Len(new) : k = Len(q) - d + j /\ q2[k] = new[j] BY <1>1, <1>4
<1> QED BY <1>2, <1>3, <1>4, CameFrom

\* The same without the places.
LEMMA Stays ==
    ASSUME NEW q, NEW new, NEW q2, Moves(q, 1, new, q2), NEW k \in 1..Len(q2)
    PROVE  \/ \E i \in 1..Len(q) : i > 1 /\ q2[k] = q[i]
           \/ \E j \in 1..Len(new) : q2[k] = new[j]
BY CameFromTail

\* Every item but the head that leaves stays, and what enters is there.
LEMMA WentTo ==
    ASSUME NEW q, NEW d, NEW new, NEW q2, Moves(q, d, new, q2)
    PROVE  /\ \A i \in 1..Len(q) : i > d => \E k \in 1..Len(q2) : q2[k] = q[i]
           /\ \A j \in 1..Len(new) : \E k \in 1..Len(q2) : q2[k] = new[j]
<1>1. ASSUME NEW i \in 1..Len(q), i > d PROVE \E k \in 1..Len(q2) : q2[k] = q[i]
  <2>1. i - d \in 1..(Len(q) - d) /\ i - d \in 1..Len(q2) /\ (i - d) + d = i BY <1>1 DEF Moves
  <2>2. q2[i - d] = q[(i - d) + d] BY <2>1 DEF Moves
  <2> QED BY <2>1, <2>2
<1>2. ASSUME NEW j \in 1..Len(new) PROVE \E k \in 1..Len(q2) : q2[k] = new[j]
  <2>1. Len(q) - d + j \in 1..Len(q2) BY DEF Moves
  <2>2. q2[Len(q) - d + j] = new[j] BY DEF Moves
  <2> QED BY <2>1, <2>2
<1> QED BY <1>1, <1>2

-----------------------------------------------------------------------------
(* What a step of the queue preserves *)

\* What each kind of item is made of.
LEMMA ItemIs ==
    ASSUME NEW r \in QueueItem
    PROVE  \/ /\ r.call \in FenceCall /\ r.item \in Nat
              /\ \/ r.op = "turn"
                 \/ /\ r.op \in CallOps /\ r.key \in FenceKey /\ r.version \in 0..1 /\ r.hw \in 0..MaxFence
           \/ /\ r.call = 0
              /\ \/ r.op = "remove" /\ r.hw \in HwId
                 \/ r.op \in {"pause", "resume"} /\ r.hw \in HwId /\ r.key = <<>>
                 \/ r.op = "pause" /\ r.hw \in HwId /\ r.key \in FenceKey
                 \/ r.op = "readd" /\ r.key \in FenceKey /\ r.version \in 0..1 /\ r.paused \in BOOLEAN
<1>1. CASE r \in TurnItem BY <1>1 DEF TurnItem
<1>2. CASE r \in AskItem BY <1>2 DEF AskItem
<1>3. CASE r \in EraseItem BY <1>3 DEF EraseItem
<1>4. CASE r \in PowerItem BY <1>4 DEF PowerItem
<1>5. CASE r \in PauseItem BY <1>5 DEF PauseItem
<1>6. CASE r \in ReaddItem BY <1>6 DEF ReaddItem
<1> QED BY <1>1, <1>2, <1>3, <1>4, <1>5, <1>6 DEF QueueItem

\* A step changes no call in what it asks.
SameCalls(calls, calls2, next) ==
    \A n \in FenceCall : n < next => /\ calls2[n].op = calls[n].op
                                    /\ calls2[n].ids = calls[n].ids
                                    /\ calls2[n].client = calls[n].client

\* An item keeps its place in a call that is made no anew.
LEMMA PartSame ==
    ASSUME NEW r \in QueueItem, NEW calls, NEW calls2, NEW next, SameCalls(calls, calls2, next),
           PartOf(r, calls, next)
    PROVE  PartOf(r, calls2, next)
<1> SUFFICES ASSUME r.call > 0 PROVE PartOf(r, calls2, next) BY DEF PartOf
<1>1. r.call \in FenceCall \/ r.call = 0 BY ItemIs
<1>2. r.call \in FenceCall /\ r.call < next BY <1>1 DEF PartOf
<1>3. /\ calls2[r.call].op = calls[r.call].op /\ calls2[r.call].ids = calls[r.call].ids
      /\ calls2[r.call].client = calls[r.call].client
  BY <1>2 DEF SameCalls
<1> QED BY <1>2, <1>3 DEF PartOf

\* A part stays one when further calls are made.
LEMMA PartKept ==
    ASSUME NEW r \in QueueItem, NEW calls, NEW calls2, NEW next \in Nat, NEW next2 \in Nat, next <= next2,
           SameCalls(calls, calls2, next), PartOf(r, calls, next)
    PROVE  PartOf(r, calls2, next2)
<1> SUFFICES ASSUME r.call > 0 PROVE PartOf(r, calls2, next2) BY DEF PartOf
<1>1. r.call \in FenceCall \/ r.call = 0 BY ItemIs
<1>2. r.call < next2 BY <1>1 DEF PartOf, FenceCall
<1>3. PartOf(r, calls2, next) BY PartSame
<1> QED BY <1>2, <1>3 DEF PartOf

\* Items that are parts of their calls stay that when the queue moves.
LEMMA PartsKept ==
    ASSUME NEW q \in Seq(QueueItem), NEW d, NEW new, NEW q2, Moves(q, d, new, q2),
           NEW calls, NEW calls2, NEW next \in Nat, NEW next2 \in Nat, next <= next2,
           SameCalls(calls, calls2, next),
           \A i \in 1..Len(q) : PartOf(q[i], calls, next),
           \A j \in 1..Len(new) : PartOf(new[j], calls2, next2),
           NEW k \in 1..Len(q2)
    PROVE  PartOf(q2[k], calls2, next2)
<1>1. CASE \E i \in 1..Len(q) : i > d /\ k = i - d /\ q2[k] = q[i]
  <2>1. PICK i \in 1..Len(q) : q2[k] = q[i] BY <1>1
  <2>2. q[i] \in QueueItem /\ PartOf(q[i], calls, next) OBVIOUS
  <2> QED BY <2>1, <2>2, PartKept
<1>2. CASE \E j \in 1..Len(new) : k = Len(q) - d + j /\ q2[k] = new[j] BY <1>2
<1> QED BY <1>1, <1>2, CameFrom

\* No part is twice in the queue when what enters is not in it.
LEMMA PartsOnceKept ==
    ASSUME NEW q, NEW d, NEW new, NEW q2, Moves(q, d, new, q2), PartsOnce(q),
           PartsOnce(new),
           \A i \in 1..Len(q), j \in 1..Len(new) :
              i > d /\ new[j].call > 0 /\ q[i].call = new[j].call => q[i].item # new[j].item
    PROVE  PartsOnce(q2)
<1> SUFFICES ASSUME NEW k \in 1..Len(q2), NEW l \in 1..Len(q2), q2[k].call > 0,
                    q2[k].call = q2[l].call, q2[k].item = q2[l].item
             PROVE  k = l
  BY DEF PartsOnce
<1>1. CASE \E i \in 1..Len(q) : i > d /\ k = i - d /\ q2[k] = q[i]
  <2>1. PICK i \in 1..Len(q) : i > d /\ k = i - d /\ q2[k] = q[i] BY <1>1
  <2>2. CASE \E m \in 1..Len(q) : m > d /\ l = m - d /\ q2[l] = q[m] BY <2>1, <2>2 DEF PartsOnce
  <2>3. CASE \E j \in 1..Len(new) : l = Len(q) - d + j /\ q2[l] = new[j] BY <2>1, <2>3
  <2> QED BY <2>2, <2>3, CameFrom
<1>2. CASE \E j \in 1..Len(new) : k = Len(q) - d + j /\ q2[k] = new[j]
  <2>1. PICK j \in 1..Len(new) : k = Len(q) - d + j /\ q2[k] = new[j] BY <1>2
  <2>2. CASE \E m \in 1..Len(q) : m > d /\ l = m - d /\ q2[l] = q[m] BY <2>1, <2>2
  <2>3. CASE \E m \in 1..Len(new) : l = Len(q) - d + m /\ q2[l] = new[m] BY <2>1, <2>3 DEF PartsOnce
  <2> QED BY <2>2, <2>3, CameFrom
<1> QED BY <1>1, <1>2, CameFrom

\* Items that add no fence, or the one that the head adds, leave the fences to be added as
\* they are, and so do saved fences that are removed or changed in their options.
LEMMA AddedOnceKept ==
    ASSUME NEW q \in Seq(QueueItem), NEW d, NEW new, NEW q2, Moves(q, d, new, q2),
           NEW calls, NEW calls2, NEW saved, NEW saved2, NEW next \in Nat, NEW nextCall,
           AddedOnce(q, calls, saved, next), SameCalls(calls, calls2, nextCall),
           \A i \in 1..Len(q) : PartOf(q[i], calls, nextCall),
           \A j \in 1..Len(new) : Adds(new[j], calls2) =>
              /\ d = 1 /\ j = 1 /\ Adds(q[1], calls)
              /\ AddedId(new[j], calls2) = AddedId(q[1], calls),
           \A h \in HwId : saved2[h] # NoFence => saved[h] # NoFence /\ saved2[h].id = saved[h].id
    PROVE  AddedOnce(q2, calls2, saved2, next)
<1>1. ASSUME NEW i \in 1..Len(q)
      PROVE  Adds(q[i], calls2) = Adds(q[i], calls) /\ AddedId(q[i], calls2) = AddedId(q[i], calls)
  <2>1. CASE q[i].op # "turn" BY <2>1 DEF Adds, AddedId
  <2>2. CASE q[i].op = "turn"
    <3>1. q[i] \in QueueItem OBVIOUS
    <3>2. q[i].call \in FenceCall BY <2>2, <3>1, ItemIs
    <3>3. q[i].call < nextCall BY <3>2 DEF PartOf, FenceCall
    <3> QED BY <2>2, <3>2, <3>3 DEF SameCalls, Adds, AddedId
  <2> QED BY <2>1, <2>2
<1>2. ASSUME NEW k \in 1..Len(q2), Adds(q2[k], calls2)
      PROVE  \E i \in 1..Len(q) : /\ \/ i > d /\ k = i - d
                                     \/ i = 1 /\ d = 1 /\ k = Len(q)
                                  /\ Adds(q[i], calls)
                                  /\ AddedId(q2[k], calls2) = AddedId(q[i], calls)
  <2>1. CASE \E j \in 1..Len(new) : k = Len(q) - d + j /\ q2[k] = new[j]
    <3>1. PICK j \in 1..Len(new) : k = Len(q) - d + j /\ q2[k] = new[j] BY <2>1
    <3>2. d = 1 /\ j = 1 /\ Adds(q[1], calls) /\ AddedId(q2[k], calls2) = AddedId(q[1], calls)
      BY <1>2, <3>1
    <3>3. 1 \in 1..Len(q) /\ k = Len(q) BY <3>1, <3>2 DEF Moves
    <3> QED BY <3>2, <3>3
  <2>2. CASE \E i \in 1..Len(q) : i > d /\ k = i - d /\ q2[k] = q[i]
    <3>1. PICK i \in 1..Len(q) : i > d /\ k = i - d /\ q2[k] = q[i] BY <2>2
    <3> QED BY <1>1, <1>2, <3>1
  <2> QED BY <2>1, <2>2, CameFrom
<1>3. ASSUME NEW k \in 1..Len(q2), Adds(q2[k], calls2)
      PROVE  /\ AddedId(q2[k], calls2) \in 1..(next - 1)
             /\ \A h \in HwId : saved2[h] # NoFence => saved2[h].id # AddedId(q2[k], calls2)
  <2>1. PICK i \in 1..Len(q) : Adds(q[i], calls) /\ AddedId(q2[k], calls2) = AddedId(q[i], calls)
    BY <1>2, <1>3
  <2> QED BY <2>1 DEF AddedOnce
<1>4. ASSUME NEW k \in 1..Len(q2), NEW l \in 1..Len(q2), Adds(q2[k], calls2), Adds(q2[l], calls2),
             AddedId(q2[k], calls2) = AddedId(q2[l], calls2)
      PROVE  k = l
  <2>1. PICK i \in 1..Len(q) : /\ (i > d /\ k = i - d) \/ (i = 1 /\ d = 1 /\ k = Len(q))
                               /\ Adds(q[i], calls)
                               /\ AddedId(q2[k], calls2) = AddedId(q[i], calls)
    BY <1>2, <1>4
  <2>2. PICK m \in 1..Len(q) : /\ (m > d /\ l = m - d) \/ (m = 1 /\ d = 1 /\ l = Len(q))
                               /\ Adds(q[m], calls)
                               /\ AddedId(q2[l], calls2) = AddedId(q[m], calls)
    BY <1>2, <1>4
  <2>3. i = m BY <1>4, <2>1, <2>2 DEF AddedOnce
  <2> QED BY <2>1, <2>2, <2>3
<1>5. \A h, g \in HwId : saved2[h] # NoFence /\ saved2[g] # NoFence /\ saved2[h].id = saved2[g].id => h = g
  BY DEF AddedOnce
<1>6. \A h \in HwId : saved2[h] # NoFence => saved2[h].id \in 1..(next - 1) BY DEF AddedOnce
<1> QED BY <1>3, <1>4, <1>5, <1>6 DEF AddedOnce

\* Calls that are not changed keep their replies while none of their parts is done.
LEMMA LastKept ==
    ASSUME NEW q \in Seq(QueueItem), NEW d, NEW new, NEW q2, Moves(q, d, new, q2),
           NEW calls, NEW calls2, NEW n \in FenceCall, calls2[n].ids = calls[n].ids,
           \A j \in 1..Len(new) : new[j].call # n,
           d = 1 => q[1].call # n \/ q[1].item # Len(calls[n].ids)
    PROVE  LastUnderWay(q2, calls2, n) <=> LastUnderWay(q, calls, n)
<1>1. ASSUME LastUnderWay(q2, calls2, n) PROVE LastUnderWay(q, calls, n)
  <2>1. PICK k \in 1..Len(q2) : q2[k].call = n /\ q2[k].item = Len(calls[n].ids) BY <1>1 DEF LastUnderWay
  <2>2. PICK i \in 1..Len(q) : q2[k] = q[i] BY <2>1, CameFrom
  <2> QED BY <2>1, <2>2 DEF LastUnderWay
<1>2. ASSUME LastUnderWay(q, calls, n) PROVE LastUnderWay(q2, calls2, n)
  <2>1. PICK i \in 1..Len(q) : q[i].call = n /\ q[i].item = Len(calls[n].ids) BY <1>2 DEF LastUnderWay
  <2>2. i > d BY <2>1 DEF Moves
  <2>3. PICK k \in 1..Len(q2) : q2[k] = q[i] BY <2>2, WentTo
  <2> QED BY <2>1, <2>3 DEF LastUnderWay
<1> QED BY <1>1, <1>2

-----------------------------------------------------------------------------
(* The steps *)

\* What the answer to a part of a call changes in the calls.
LEMMA ItemDoneChanges ==
    ASSUME NEW calls, NEW next \in Nat, CallsShape(calls, next), NEW n \in FenceCall, n < next,
           NEW i \in DOMAIN calls[n].ids, NEW err \in FenceError,
           NEW done, done = ItemDone(calls, n, i, err)
    PROVE  /\ CallsShape(done, next)
           /\ SameCalls(calls, done, next)
           /\ \A m \in FenceCall : m # n => done[m] = calls[m]
           /\ done[n].refused = calls[n].refused
           /\ done[n].replies = IF i = Len(calls[n].ids) /\ calls[n].client \in fenceCbs
                                THEN calls[n].replies + 1 ELSE calls[n].replies
<1> DEFINE calls2 == ItemDone(calls, n, i, err)
           call == calls[n]
           errs == [call.errs EXCEPT ![i] = err]
           answers == i = Len(call.ids) /\ call.client \in fenceCbs
           replies == IF answers THEN call.replies + 1 ELSE call.replies
           told == IF answers THEN errs ELSE call.told
           call2 == [call EXCEPT !.errs = errs, !.replies = replies, !.told = told]
<1>1. call \in CallRecord /\ call.ids # <<>> /\ Len(call.errs) = Len(call.ids)
  BY DEF CallsShape, CallShape
<1>2. i \in 1..Len(call.errs) BY <1>1 DEF CallRecord
<1>3. errs \in Seq(FenceError) /\ Len(errs) = Len(call.ids) BY <1>1, <1>2 DEF CallRecord
<1>a. replies \in Nat /\ told \in Seq(FenceError) BY <1>1, <1>3 DEF CallRecord
<1> HIDE DEF errs, answers
<1>4. /\ call2 \in CallRecord /\ call2.errs = errs /\ call2.ids = call.ids /\ call2.op = call.op
      /\ call2.client = call.client /\ call2.refused = call.refused
      /\ call2.replies = IF answers THEN call.replies + 1 ELSE call.replies
  <2> HIDE DEF replies, told
  <2>1. call2 \in CallRecord BY <1>1, <1>3, <1>a DEF CallRecord
  <2>2. /\ call2.errs = errs /\ call2.ids = call.ids /\ call2.op = call.op
        /\ call2.client = call.client /\ call2.refused = call.refused
        /\ call2.replies = replies
    BY <1>1 DEF CallRecord
  <2> QED BY <2>1, <2>2 DEF replies
<1>5. calls2 = [calls EXCEPT ![n] = call2]
  <2>1. DOMAIN calls = FenceCall BY DEF CallsShape
  <2>2. /\ [calls EXCEPT ![n].errs = errs, ![n].replies = IF answers THEN @ + 1 ELSE @,
                         ![n].told = IF answers THEN errs ELSE @] = [calls EXCEPT ![n] = call2]
    BY <1>1, <2>1 DEF CallRecord
  <2> QED BY <2>2 DEF ItemDone, errs, answers
<1> HIDE DEF call2, calls2
<1>6. DOMAIN calls2 = FenceCall /\ calls2[n] = call2 /\ \A m \in FenceCall : m # n => calls2[m] = calls[m]
  BY <1>5 DEF CallsShape
<1>7. CallShape(call2) BY <1>1, <1>3, <1>4 DEF CallShape
<1>8. CallsShape(calls2, next) BY <1>6, <1>7 DEF CallsShape
<1>9. SameCalls(calls, calls2, next) BY <1>4, <1>6 DEF SameCalls
<1> QED BY <1>4, <1>6, <1>8, <1>9 DEF calls2, answers

\* Numbers that no id has, when their fences are to be removed, stay so when the queue moves.
LEMMA ErasedKept ==
    ASSUME NEW q, NEW d, NEW new, NEW q2, Moves(q, d, new, q2), NEW ids2,
           \A i \in 1..Len(q), k \in FenceKey : i > d /\ Erases(q[i]) => ids2[k] # q[i].hw,
           \A j \in 1..Len(new), k \in FenceKey : Erases(new[j]) => ids2[k] # new[j].hw
    PROVE  \A i \in 1..Len(q2), k \in FenceKey : Erases(q2[i]) => ids2[k] # q2[i].hw
BY CameFrom

-----------------------------------------------------------------------------
(* A client calls *)

\* A new call: its parts are turns of a number that no item of the queue has.
LEMMA CallFencesKeeps ==
    ASSUME FenceInv, NEW op \in CallOps, NEW c \in FenceClient, NEW size \in 1..MaxPerCall,
           NEW ids \in [1..size -> FenceId], NEW version \in 0..1, CallFences(op, c, ids, version)
    PROVE  FenceInv'
<1> DEFINE n == nextFenceCall
           call == [NoFenceCall EXCEPT !.op = op, !.client = c, !.ids = ids, !.version = version,
                                       !.errs = [i \in DOMAIN ids |-> "none"]]
           new == [i \in DOMAIN ids |-> [op |-> "turn", call |-> nextFenceCall, item |-> i]]
<1>1. Shapes /\ PartsOnce(fenceQueue) /\ Replies /\ AddedOnce(fenceQueue, fenceCalls, mGeofences, nextFence)
  BY DEF FenceInv
<1>2. MaxFence \in Nat /\ MaxFenceCalls \in Nat /\ size \in Nat \ {0} BY FenceBounds
<1>3. /\ n \in FenceCall /\ n \in Nat \ {0} /\ nextFenceCall' = n + 1 /\ n + 1 \in 1..(MaxFenceCalls + 1)
      /\ nextFence \in Nat \ {0}
  BY <1>1, <1>2 DEF Shapes, CallFences, FenceCall
<1>4. fenceCalls' = [fenceCalls EXCEPT ![n] = call] /\ fenceQueue' = fenceQueue \o new
  BY DEF CallFences
<1>5. ids \in Seq(FenceId) /\ Len(ids) = size /\ ids # <<>> /\ DOMAIN ids = 1..size BY <1>2
<1>6. call \in CallRecord /\ CallShape(call) /\ call.ids = ids /\ call.op = op /\ call.client = c /\ call.replies = 0
  <2>1. [i \in 1..size |-> "none"] \in Seq(FenceError) /\ Len([i \in 1..size |-> "none"]) = size
    BY <1>2 DEF FenceError
  <2>2. <<>> \in Seq(FenceError) /\ {} \in SUBSET Nat OBVIOUS
  <2> DEFINE none == [i \in DOMAIN ids |-> "none"]
             Calls(O, C, I, V, E) ==
                 [op : O, client : C, ids : I, errs : E, version : V,
                  replies : {0}, refused : {FALSE}, told : {<<>>}, done : {{}}]
             c1 == [NoFenceCall EXCEPT !.op = op]
             c2 == [c1 EXCEPT !.client = c]
             c3 == [c2 EXCEPT !.ids = ids]
             c4 == [c3 EXCEPT !.version = version]
             c5 == [c4 EXCEPT !.errs = none]
  <2>3. none \in Seq(FenceError) /\ Len(none) = size BY <1>5, <2>1
  <2>4. call = c5 OBVIOUS
  <2> HIDE DEF none
  <2>5. c1 \in Calls({op}, {"none"}, {<<>>}, {0}, {<<>>}) BY DEF NoFenceCall
  <2> HIDE DEF c1
  <2>6. c2 \in Calls({op}, {c}, {<<>>}, {0}, {<<>>}) BY <2>5
  <2> HIDE DEF c2
  <2>7. c3 \in Calls({op}, {c}, {ids}, {0}, {<<>>}) BY <2>6
  <2> HIDE DEF c3
  <2>8. c4 \in Calls({op}, {c}, {ids}, {version}, {<<>>}) BY <2>7
  <2> HIDE DEF c4
  <2>9. c5 \in Calls({op}, {c}, {ids}, {version}, {none}) BY <2>8
  <2> HIDE DEF c5
  <2>10. c5 \in CallRecord
    <3>1. c5.replies \in Nat /\ c5.told = <<>> /\ c5.done = {}
      <4>1. c5.replies = 0 /\ c5.told = <<>> BY <2>9
      <4>2. c5.done = {} BY <2>9
      <4> QED BY <4>1, <4>2
    <3>6. c5.refused \in BOOLEAN BY <2>9
    <3>2. /\ c5.op \in CallOps /\ c5.client \in FenceClient /\ c5.version \in 0..1 BY <2>9
    <3>3. /\ c5.ids \in Seq(FenceId) /\ c5.errs \in Seq(FenceError) BY <1>5, <2>3, <2>9
    <3>4. /\ c5.told \in Seq(FenceError) /\ c5.done \in SUBSET Nat BY <2>2, <3>1
    <3>5. c5 = [op |-> c5.op, client |-> c5.client, ids |-> c5.ids, errs |-> c5.errs,
               version |-> c5.version, replies |-> c5.replies, refused |-> c5.refused,
               told |-> c5.told, done |-> c5.done]
      BY <2>9
    <3> QED BY <3>1, <3>2, <3>3, <3>4, <3>5, <3>6 DEF CallRecord
  <2>11. c5.ids = ids /\ c5.errs = none /\ c5.op = op /\ c5.client = c /\ c5.replies = 0 BY <2>9
  <2> HIDE DEF call
  <2> QED BY <1>5, <2>3, <2>4, <2>10, <2>11 DEF CallShape
<1> HIDE DEF call
<1>7. fenceCalls'[n] = call /\ \A m \in FenceCall : m # n => fenceCalls'[m] = fenceCalls[m]
  BY <1>1, <1>3, <1>4 DEF Shapes, CallsShape
<1>8. CallsShape(fenceCalls', n + 1)
  <2>1. DOMAIN fenceCalls' = FenceCall BY <1>1, <1>4 DEF Shapes, CallsShape
  <2>2. \A m \in FenceCall : IF m < n + 1 THEN CallShape(fenceCalls'[m]) ELSE fenceCalls'[m] = NoFenceCall
    BY <1>1, <1>3, <1>6, <1>7 DEF Shapes, CallsShape, FenceCall
  <2> QED BY <2>1, <2>2 DEF CallsShape
<1>9. /\ new \in Seq(QueueItem) /\ Len(new) = size
      /\ \A j \in 1..size : new[j].op = "turn" /\ new[j].call = n /\ new[j].item = j
  <2>1. \A i \in 1..size : [op |-> "turn", call |-> n, item |-> i] \in QueueItem
    BY <1>2, <1>3 DEF QueueItem, TurnItem
  <2> QED BY <1>2, <1>5, <2>1
<1> HIDE DEF new
<1>10. /\ Moves(fenceQueue, 0, new, fenceQueue') /\ fenceQueue' \in Seq(QueueItem) /\ fenceQueue \in Seq(QueueItem)
  BY <1>1, <1>4, <1>9, Entered DEF Shapes
<1>11. SameCalls(fenceCalls, fenceCalls', n)
  <2>1. \A m \in FenceCall : m < n => m # n BY <1>3 DEF FenceCall
  <2> QED BY <1>7, <2>1 DEF SameCalls
<1>12. \A i \in 1..Len(fenceQueue) : fenceQueue[i].call # n
  <2> TAKE i \in 1..Len(fenceQueue)
  <2>1. fenceQueue[i] \in QueueItem BY <1>10
  <2>2. fenceQueue[i].call = 0 \/ fenceQueue[i].call \in FenceCall BY <2>1, ItemIs
  <2>3. fenceQueue[i].call > 0 => fenceQueue[i].call < n BY <1>1 DEF Shapes, PartOf
  <2> QED BY <1>3, <2>2, <2>3 DEF FenceCall
<1>13. Shapes'
  <2>1. \A j \in 1..Len(new) : PartOf(new[j], fenceCalls', n + 1) BY <1>3, <1>5, <1>6, <1>7, <1>9 DEF PartOf
  <2>2. \A k \in 1..Len(fenceQueue') : PartOf(fenceQueue'[k], fenceCalls', n + 1)
    <3>1. n \in Nat /\ n + 1 \in Nat /\ n <= n + 1 BY <1>3
    <3>2. \A i \in 1..Len(fenceQueue) : PartOf(fenceQueue[i], fenceCalls, n) BY <1>1 DEF Shapes
    <3> HIDE DEF n
    <3> QED BY <1>9, <1>10, <1>11, <2>1, <3>1, <3>2, PartsKept
  <2>3. nextFence' \in 1..(MaxFence + 1)
    BY <1>1, <1>2, <1>3, <1>5 DEF CallFences, Shapes
  <2>4. UNCHANGED <<fenceCbs, fenceMaps, fenceUp, watched, crossed>> BY DEF CallFences
  <2> QED BY <1>1, <1>3, <1>8, <1>10, <2>2, <2>3, <2>4 DEF Shapes, fenceMaps
<1>14. PartsOnce(fenceQueue')
  <2>1. PartsOnce(new) BY <1>9 DEF PartsOnce
  <2> QED BY <1>1, <1>9, <1>10, <1>12, <2>1, PartsOnceKept
<1>15. Replies'
  <2> SUFFICES ASSUME NEW m \in FenceCall, m < n + 1, fenceCalls'[m].client \in fenceCbs
               PROVE  RepliesOf(fenceQueue', fenceCalls', m)
    BY <1>3 DEF Replies, CallFences
  <2>1. CASE m = n
    <3>1. size \in 1..Len(new) /\ new[size].call = n /\ new[size].item = Len(fenceCalls'[n].ids)
      BY <1>2, <1>5, <1>6, <1>7, <1>9
    <3>2. LastUnderWay(fenceQueue', fenceCalls', n) BY <1>10, <3>1, WentTo DEF LastUnderWay
    <3> QED BY <1>6, <1>7, <2>1, <3>2 DEF RepliesOf
  <2>2. CASE m # n
    <3>1. m < n /\ fenceCalls'[m] = fenceCalls[m] BY <1>3, <1>7, <2>2 DEF FenceCall
    <3>2. RepliesOf(fenceQueue, fenceCalls, m) BY <1>1, <3>1 DEF Replies
    <3>3. LastUnderWay(fenceQueue', fenceCalls', m) <=> LastUnderWay(fenceQueue, fenceCalls, m)
      BY <1>9, <1>10, <2>2, <3>1, LastKept
    <3> QED BY <3>1, <3>2, <3>3 DEF RepliesOf
  <2> QED BY <2>1, <2>2
<1>16. AddedOnce(fenceQueue', fenceCalls', mGeofences', nextFence')
  <2>1. mGeofences' = mGeofences BY DEF CallFences, fenceMaps
  <2>2. CASE op # "add"
    <3>1. \A j \in 1..Len(new) : ~Adds(new[j], fenceCalls') BY <1>6, <1>7, <1>9, <2>2 DEF Adds
    <3>2. nextFence' = nextFence /\ nextFence \in Nat BY <1>3, <2>2 DEF CallFences
    <3>3. \A i \in 1..Len(fenceQueue) : PartOf(fenceQueue[i], fenceCalls, n) BY <1>1 DEF Shapes
    <3>4. AddedOnce(fenceQueue', fenceCalls', mGeofences, nextFence)
      BY <1>1, <1>10, <1>11, <3>1, <3>2, <3>3, AddedOnceKept
    <3> QED BY <2>1, <3>2, <3>4
  <2>3. CASE op = "add"
    <3>1. nextFence' = nextFence + size /\ \A j \in 1..size : ids[j] = nextFence + j - 1
      BY <1>5, <2>3 DEF CallFences
    <3>2. \A j \in 1..size : AddedId(new[j], fenceCalls') = nextFence + j - 1
      BY <1>6, <1>7, <1>9, <3>1 DEF AddedId
    <3>3. AddedOnce(fenceQueue, fenceCalls', mGeofences, nextFence)
      <4>1. Moves(fenceQueue, 0, <<>>, fenceQueue) BY <1>10 DEF Moves
      <4>2. \A i \in 1..Len(fenceQueue) : PartOf(fenceQueue[i], fenceCalls, n) BY <1>1 DEF Shapes
      <4>3. nextFence \in Nat BY <1>3
      <4> QED BY <1>1, <1>10, <1>11, <4>1, <4>2, <4>3, AddedOnceKept
    <3> DEFINE q2 == fenceQueue'
               calls2 == fenceCalls'
               Is(k, i) == q2[k] = fenceQueue[i]
               IsNew(k, j) == /\ k = Len(fenceQueue) + j /\ q2[k] = new[j]
                              /\ AddedId(q2[k], calls2) = nextFence + j - 1
    <3>4. \A k \in 1..Len(q2) : \/ k \in 1..Len(fenceQueue) /\ Is(k, k)
                               \/ \E j \in 1..size : IsNew(k, j)
      <4> TAKE k \in 1..Len(q2)
      <4>1. CASE \E i \in 1..Len(fenceQueue) : i > 0 /\ k = i - 0 /\ q2[k] = fenceQueue[i] BY <4>1
      <4>2. CASE \E j \in 1..Len(new) : k = Len(fenceQueue) - 0 + j /\ q2[k] = new[j]
        <5>1. PICK j \in 1..size : k = Len(fenceQueue) + j /\ q2[k] = new[j] BY <1>9, <1>10, <4>2
        <5>2. AddedId(q2[k], calls2) = nextFence + j - 1 BY <3>2, <5>1
        <5> QED BY <5>1, <5>2
      <4> QED BY <1>10, <4>1, <4>2, CameFrom
    <3>5. \A k \in 1..Len(fenceQueue) : Adds(fenceQueue[k], calls2) =>
             /\ AddedId(fenceQueue[k], calls2) \in 1..(nextFence - 1)
             /\ \A h \in HwId : mGeofences[h] # NoFence => mGeofences[h].id # AddedId(fenceQueue[k], calls2)
             /\ \A l \in 1..Len(fenceQueue) : Adds(fenceQueue[l], calls2)
                   /\ AddedId(fenceQueue[k], calls2) = AddedId(fenceQueue[l], calls2) => k = l
      BY <3>3 DEF AddedOnce
    <3>6. \A h \in HwId : mGeofences[h] # NoFence => mGeofences[h].id \in 1..(nextFence - 1)
      BY <3>3 DEF AddedOnce
    <3> HIDE DEF q2, calls2
    <3>7. ASSUME NEW k \in 1..Len(q2), Adds(q2[k], calls2)
          PROVE  /\ AddedId(q2[k], calls2) \in 1..(nextFence + size - 1)
                 /\ \A h \in HwId : mGeofences[h] # NoFence => mGeofences[h].id # AddedId(q2[k], calls2)
      <4>1. CASE k \in 1..Len(fenceQueue) /\ Is(k, k) BY <1>2, <1>3, <3>5, <3>7, <4>1
      <4>2. CASE \E j \in 1..size : IsNew(k, j)
        <5>1. PICK j \in 1..size : AddedId(q2[k], calls2) = nextFence + j - 1 BY <4>2
        <5>2. AddedId(q2[k], calls2) \in nextFence..(nextFence + size - 1) BY <1>2, <1>3, <5>1
        <5>3. ASSUME NEW h \in HwId, mGeofences[h] # NoFence PROVE mGeofences[h].id # AddedId(q2[k], calls2)
          <6>1. mGeofences[h].id \in 1..(nextFence - 1) BY <3>6, <5>3
          <6>2. ~(AddedId(q2[k], calls2) < nextFence) BY <1>3, <5>2
          <6> QED BY <1>3, <6>1, <6>2
        <5>4. AddedId(q2[k], calls2) \in 1..(nextFence + size - 1) BY <1>3, <5>2
        <5> QED BY <5>3, <5>4
      <4> QED BY <3>4, <4>1, <4>2
    <3>8. ASSUME NEW k \in 1..Len(q2), NEW l \in 1..Len(q2), Adds(q2[k], calls2), Adds(q2[l], calls2),
                 AddedId(q2[k], calls2) = AddedId(q2[l], calls2)
          PROVE  k = l
      <4>1. CASE k \in 1..Len(fenceQueue) /\ Is(k, k)
        <5>1. CASE l \in 1..Len(fenceQueue) /\ Is(l, l) BY <3>5, <3>8, <4>1, <5>1
        <5>2. CASE \E j \in 1..size : IsNew(l, j) BY <1>2, <1>3, <3>5, <3>8, <4>1, <5>2
        <5> QED BY <3>4, <5>1, <5>2
      <4>2. CASE \E j \in 1..size : IsNew(k, j)
        <5>1. CASE l \in 1..Len(fenceQueue) /\ Is(l, l) BY <1>2, <1>3, <3>5, <3>8, <4>2, <5>1
        <5>2. CASE \E j \in 1..size : IsNew(l, j) BY <1>2, <1>3, <3>8, <4>2, <5>2
        <5> QED BY <3>4, <5>1, <5>2
      <4> QED BY <3>4, <4>1, <4>2
    <3>9. \A h, g \in HwId :
             mGeofences[h] # NoFence /\ mGeofences[g] # NoFence /\ mGeofences[h].id = mGeofences[g].id => h = g
      BY <3>3 DEF AddedOnce
    <3>10. \A h \in HwId : mGeofences[h] # NoFence => mGeofences[h].id \in 1..(nextFence + size - 1)
      BY <1>2, <1>3, <3>6
    <3>11. AddedOnce(q2, calls2, mGeofences, nextFence + size)
      <4>1. \A k \in 1..Len(q2) : Adds(q2[k], calls2) => AddedId(q2[k], calls2) \in 1..(nextFence + size - 1)
        BY <3>7
      <4>2. \A k \in 1..Len(q2), h \in HwId : Adds(q2[k], calls2) /\ mGeofences[h] # NoFence =>
               mGeofences[h].id # AddedId(q2[k], calls2)
        BY <3>7
      <4>3. \A k, l \in 1..Len(q2) : Adds(q2[k], calls2) /\ Adds(q2[l], calls2)
                                    /\ AddedId(q2[k], calls2) = AddedId(q2[l], calls2) => k = l
        BY <3>8
      <4> QED BY <1>2, <1>3, <3>9, <3>10, <4>1, <4>2, <4>3 DEF AddedOnce
    <3> QED BY <2>1, <3>1, <3>11 DEF q2, calls2
  <2> QED BY <2>2, <2>3
<1>17. WatchedIsKnown' /\ ModemKept' /\ (~crossed => NamesFences(fenceQueue, mGeofenceIds, mGeofences, watched, fenceUp))'
  <2>1. UNCHANGED <<fenceMaps, fenceUp, watched, crossed>> BY DEF CallFences
  <2>2. ASSUME ~crossed' PROVE NamesFences(fenceQueue', mGeofenceIds', mGeofences', watched', fenceUp')
    <3>1. NamesFences(fenceQueue, mGeofenceIds, mGeofences, watched, fenceUp) BY <2>1, <2>2 DEF FenceInv
    <3>2. \A i \in 1..Len(fenceQueue'), k \in FenceKey : Erases(fenceQueue'[i]) => mGeofenceIds[k] # fenceQueue'[i].hw
      <4>1. \A j \in 1..Len(new), k \in FenceKey : Erases(new[j]) => mGeofenceIds[k] # new[j].hw
        BY <1>9 DEF Erases
      <4>2. \A i \in 1..Len(fenceQueue), k \in FenceKey :
               i > 0 /\ Erases(fenceQueue[i]) => mGeofenceIds[k] # fenceQueue[i].hw
        BY <3>1 DEF NamesFences
      <4>3. PICK q2 : q2 = fenceQueue' OBVIOUS
      <4>4. \A i \in 1..Len(q2), k \in FenceKey : Erases(q2[i]) => mGeofenceIds[k] # q2[i].hw
        BY <1>10, <4>1, <4>2, <4>3, ErasedKept
      <4> QED BY <4>3, <4>4
    <3> QED BY <2>1, <3>1, <3>2 DEF NamesFences, fenceMaps
  <2>3. WatchedIsKnown' /\ ModemKept' BY <2>1 DEF FenceInv, WatchedIsKnown, ModemKept, fenceMaps
  <2> QED BY <2>2, <2>3
<1> QED BY <1>13, <1>14, <1>15, <1>16, <1>17 DEF FenceInv

-----------------------------------------------------------------------------
(* A part is done *)

\* The head of the queue, which belongs to a call.
LEMMA HeadOfCall ==
    ASSUME Shapes, fenceQueue # <<>>, NEW r, r = Head(fenceQueue), r.op = "turn" \/ r.call # 0
    PROVE  /\ r.call \in FenceCall /\ r.call < nextFenceCall /\ nextFenceCall \in Nat
           /\ CallShape(fenceCalls[r.call]) /\ r.item \in 1..Len(fenceCalls[r.call].ids)
           /\ r.item \in DOMAIN fenceCalls[r.call].ids
           /\ <<fenceCalls[r.call].client, fenceCalls[r.call].ids[r.item]>> \in FenceKey
<1>1. fenceQueue \in Seq(QueueItem) /\ nextFenceCall \in Nat BY FenceBounds DEF Shapes
<1>2. r = fenceQueue[1] /\ 1 \in 1..Len(fenceQueue) /\ r \in QueueItem BY <1>1, HeadLeft
<1>3. r.call \in FenceCall BY <1>2, ItemIs
<1>4. r.call > 0 BY <1>3 DEF FenceCall
<1>5. r.call < nextFenceCall /\ r.item \in DOMAIN fenceCalls[r.call].ids BY <1>2, <1>4 DEF Shapes, PartOf
<1>6. CallShape(fenceCalls[r.call]) BY <1>3, <1>5 DEF Shapes, CallsShape
<1>7. fenceCalls[r.call].ids \in Seq(FenceId) /\ fenceCalls[r.call].client \in FenceClient
  BY <1>6 DEF CallShape, CallRecord
<1>8. r.item \in 1..Len(fenceCalls[r.call].ids) /\ fenceCalls[r.call].ids[r.item] \in FenceId
  BY <1>5, <1>7
<1> QED BY <1>1, <1>3, <1>5, <1>6, <1>7, <1>8 DEF FenceKey

\* The head is done, and nothing of its call enters the queue: the last part answers.
LEMMA ReplyGiven ==
    ASSUME NEW q \in Seq(QueueItem), NEW new, NEW q2, Moves(q, 1, new, q2), PartsOnce(q),
           NEW calls, NEW calls2, NEW n \in FenceCall, q[1].call = n,
           \A j \in 1..Len(new) : new[j].call # n,
           calls2[n].ids = calls[n].ids, calls2[n].op = calls[n].op,
           calls[n].refused => calls2[n].refused,
           \/ calls2[n].replies = IF q[1].item = Len(calls[n].ids) THEN calls[n].replies + 1
                                 ELSE calls[n].replies
           \/ calls2[n].replies = calls[n].replies /\ calls2[n].refused /\ calls2[n].op = "resume",
           RepliesOf(q, calls, n)
    PROVE  RepliesOf(q2, calls2, n)
<1>1. CASE q[1].item # Len(calls[n].ids)
  <2>1. LastUnderWay(q2, calls2, n) <=> LastUnderWay(q, calls, n) BY <1>1, LastKept
  <2> QED BY <1>1, <2>1 DEF RepliesOf
<1>2. CASE q[1].item = Len(calls[n].ids)
  <2>1. 1 \in 1..Len(q) BY DEF Moves
  <2>2. LastUnderWay(q, calls, n) BY <1>2, <2>1 DEF LastUnderWay
  <2>3. calls[n].replies = 0 BY <2>2 DEF RepliesOf
  <2>4. ~LastUnderWay(q2, calls2, n)
    <3> SUFFICES ASSUME NEW k \in 1..Len(q2), q2[k].call = n, q2[k].item = Len(calls[n].ids) PROVE FALSE
      BY DEF LastUnderWay
    <3>1. PICK i \in 1..Len(q) : i > 1 /\ q2[k] = q[i] BY CameFrom
    <3>2. q[i].call > 0 /\ q[i].call = q[1].call /\ q[i].item = q[1].item BY <1>2, <3>1 DEF FenceCall
    <3> QED BY <2>1, <3>1, <3>2 DEF PartsOnce
  <2> QED BY <1>2, <2>3, <2>4 DEF RepliesOf
<1> QED BY <1>1, <1>2

\* Steps that leave a call as it is leave its replies, whatever enters the queue.
LEMMA RepliesLeft ==
    ASSUME NEW q \in Seq(QueueItem), NEW d, NEW new, NEW q2, Moves(q, d, new, q2),
           NEW calls, NEW calls2, NEW n \in FenceCall, calls2[n] = calls[n],
           \A j \in 1..Len(new) : new[j].call # n, d = 1 => q[1].call # n, RepliesOf(q, calls, n)
    PROVE  RepliesOf(q2, calls2, n)
<1>1. LastUnderWay(q2, calls2, n) <=> LastUnderWay(q, calls, n) BY LastKept
<1> QED BY <1>1 DEF RepliesOf

\* The result of the part at the head of the queue is noted in its call, and in no other.
ResultNoted(r, calls, calls2, known) ==
    /\ \A m \in FenceCall : m # r.call => calls2[m] = calls[m]
    /\ r.call \in FenceCall =>
          /\ calls[r.call].refused => calls2[r.call].refused
          /\ calls[r.call].client \in known =>
                \/ calls2[r.call].replies = IF r.item = Len(calls[r.call].ids) THEN calls[r.call].replies + 1
                                           ELSE calls[r.call].replies
                \/ /\ calls2[r.call].replies = calls[r.call].replies
                   /\ calls2[r.call].refused /\ calls2[r.call].op = "resume"

\* The head of the queue is done, and requests of no call enter.
LEMMA HeadDonePart ==
    ASSUME NEW q \in Seq(QueueItem), NEW new, NEW q2, Moves(q, 1, new, q2),
           NEW calls, NEW calls2, NEW n \in Nat, SameCalls(calls, calls2, n),
           \A i \in 1..Len(q) : PartOf(q[i], calls, n),
           \A j \in 1..Len(new) : new[j].call = 0, NEW k \in 1..Len(q2)
    PROVE  PartOf(q2[k], calls2, n)
<1>1. \/ \E i \in 1..Len(q) : q2[k] = q[i]
      \/ \E j \in 1..Len(new) : q2[k] = new[j]
  BY CameFromTail
<1>2. ASSUME NEW i \in 1..Len(q), q2[k] = q[i] PROVE PartOf(q2[k], calls2, n)
  <2>1. q[i] \in QueueItem /\ PartOf(q[i], calls, n) OBVIOUS
  <2> QED BY <1>2, <2>1, PartSame
<1>3. ASSUME NEW j \in 1..Len(new), q2[k] = new[j] PROVE PartOf(q2[k], calls2, n)
  BY <1>3 DEF PartOf
<1> QED BY <1>1, <1>2, <1>3

\* No part enters.
LEMMA HeadDoneParts ==
    ASSUME NEW q \in Seq(QueueItem), NEW new, NEW q2, Moves(q, 1, new, q2), PartsOnce(q),
           \A j \in 1..Len(new) : new[j].call = 0
    PROVE  PartsOnce(q2)
<1>4. PartsOnce(new) BY DEF PartsOnce
<1>5. \A i \in 1..Len(q), j \in 1..Len(new) :
         i > 1 /\ new[j].call > 0 /\ q[i].call = new[j].call => q[i].item # new[j].item
  OBVIOUS
<1>6. PICK d : d = 1 OBVIOUS
<1>7. Moves(q, d, new, q2) BY <1>6
<1>8. \A i \in 1..Len(q), j \in 1..Len(new) :
         i > d /\ new[j].call > 0 /\ q[i].call = new[j].call => q[i].item # new[j].item
  BY <1>5, <1>6
<1> QED BY <1>4, <1>7, <1>8, PartsOnceKept

\* The call of the head has noted the result, the others are as they were.
LEMMA HeadDoneReplies ==
    ASSUME NEW q \in Seq(QueueItem), q # <<>>, NEW new, NEW q2, Moves(q, 1, new, q2),
           NEW calls, NEW calls2, NEW n \in Nat, SameCalls(calls, calls2, n), PartsOnce(q),
           \A j \in 1..Len(new) : new[j].call = 0, NEW known, ResultNoted(q[1], calls, calls2, known),
           NEW m \in FenceCall, m < n, calls[m].client \in known, RepliesOf(q, calls, m)
    PROVE  RepliesOf(q2, calls2, m)
<1>1. \A j \in 1..Len(new) : new[j].call # m BY DEF FenceCall
<1>2. CASE q[1].call = m
  <2>1. calls2[m].ids = calls[m].ids /\ calls2[m].op = calls[m].op BY DEF SameCalls
  <2>2. calls[m].refused => calls2[m].refused BY <1>2 DEF ResultNoted
  <2>3. \/ calls2[m].replies = IF q[1].item = Len(calls[m].ids) THEN calls[m].replies + 1
                               ELSE calls[m].replies
        \/ calls2[m].replies = calls[m].replies /\ calls2[m].refused /\ calls2[m].op = "resume"
    BY <1>2 DEF ResultNoted
  <2> QED BY <1>1, <1>2, <2>1, <2>2, <2>3, ReplyGiven
<1>3. CASE q[1].call # m
  <2>1. calls2[m] = calls[m] BY <1>3 DEF ResultNoted
  <2> QED BY <1>1, <1>3, <2>1, RepliesLeft
<1> QED BY <1>2, <1>3

\* What a step that ends the work on the head keeps of the queue and the calls.
LEMMA HeadDone ==
    ASSUME Shapes, PartsOnce(fenceQueue), Replies, fenceQueue # <<>>,
           NEW new \in Seq(QueueItem), \A j \in 1..Len(new) : new[j].call = 0,
           fenceQueue' = Tail(fenceQueue) \o new,
           SameCalls(fenceCalls, fenceCalls', nextFenceCall),
           ResultNoted(Head(fenceQueue), fenceCalls, fenceCalls', fenceCbs),
           UNCHANGED <<fenceCbs, nextFenceCall>>
    PROVE  /\ fenceQueue' \in Seq(QueueItem) /\ Moves(fenceQueue, 1, new, fenceQueue')
           /\ \A k \in 1..Len(fenceQueue') : PartOf(fenceQueue'[k], fenceCalls', nextFenceCall')
           /\ PartsOnce(fenceQueue') /\ Replies'
<1>1. fenceQueue \in Seq(QueueItem) /\ nextFenceCall \in Nat BY FenceBounds DEF Shapes
<1>2. PICK q2, calls2 : q2 = fenceQueue' /\ calls2 = fenceCalls' OBVIOUS
<1>3. \A i \in 1..Len(fenceQueue) : PartOf(fenceQueue[i], fenceCalls, nextFenceCall) BY DEF Shapes
<1>4. q2 = Tail(fenceQueue) \o new /\ SameCalls(fenceCalls, calls2, nextFenceCall) BY <1>2
<1>5. /\ q2 \in Seq(QueueItem) /\ Moves(fenceQueue, 1, new, q2)
      /\ \A k \in 1..Len(q2) : PartOf(q2[k], calls2, nextFenceCall)
      /\ PartsOnce(q2)
  <2>1. q2 \in Seq(QueueItem) /\ Moves(fenceQueue, 1, new, q2) BY <1>1, <1>4, HeadLeft
  <2>2. PartsOnce(q2) BY <1>1, <2>1, HeadDoneParts
  <2>3. \A k \in 1..Len(q2) : PartOf(q2[k], calls2, nextFenceCall)
    <3> HIDE <1>2
    <3> QED BY <1>1, <1>3, <1>4, <2>1, HeadDonePart
  <2> QED BY <2>1, <2>2, <2>3
<1>6. ResultNoted(fenceQueue[1], fenceCalls, calls2, fenceCbs) BY <1>1, <1>2, HeadLeft
<1>7. ASSUME NEW m \in FenceCall, m < nextFenceCall, calls2[m].client \in fenceCbs
      PROVE  RepliesOf(q2, calls2, m)
  <2>1. fenceCalls[m].client \in fenceCbs BY <1>4, <1>7 DEF SameCalls
  <2>2. RepliesOf(fenceQueue, fenceCalls, m) BY <1>7, <2>1 DEF Replies
  <2> QED BY <1>1, <1>4, <1>5, <1>6, <1>7, <2>1, <2>2, HeadDoneReplies
<1>8. Replies' BY <1>2, <1>7 DEF Replies
<1> QED BY <1>2, <1>5, <1>8

\* A step that leaves maps and modem, and puts no removal of a client's fences into the queue.
LEMMA NamesLeft ==
    ASSUME NEW q, NEW d, NEW new, NEW q2, Moves(q, d, new, q2), NEW ids, NEW saved, NEW modem, NEW up,
           NamesFences(q, ids, saved, modem, up), \A j \in 1..Len(new) : ~Erases(new[j])
    PROVE  NamesFences(q2, ids, saved, modem, up)
<1>1. \A i \in 1..Len(q), k \in FenceKey : i > d /\ Erases(q[i]) => ids[k] # q[i].hw
  BY DEF NamesFences
<1>2. \A j \in 1..Len(new), k \in FenceKey : Erases(new[j]) => ids[k] # new[j].hw OBVIOUS
<1>3. \A i \in 1..Len(q2), k \in FenceKey : Erases(q2[i]) => ids[k] # q2[i].hw
  BY <1>1, <1>2, ErasedKept
<1> QED BY <1>3 DEF NamesFences

\* The head is done, and the maps and the modem stay: a turn without a fence, a refusal.
LEMMA HeadGoneKeeps ==
    ASSUME FenceInv, fenceQueue # <<>>, fenceQueue' = Tail(fenceQueue),
           CallsShape(fenceCalls', nextFenceCall), SameCalls(fenceCalls, fenceCalls', nextFenceCall),
           ResultNoted(Head(fenceQueue), fenceCalls, fenceCalls', fenceCbs),
           UNCHANGED <<fenceCbs, fenceMaps, fencePower, fenceUp, watched, fenceCounts>>
    PROVE  FenceInv'
<1>1. Shapes /\ PartsOnce(fenceQueue) /\ Replies /\ AddedOnce(fenceQueue, fenceCalls, mGeofences, nextFence)
  BY DEF FenceInv
<1>2. PICK none \in Seq(QueueItem) : none = <<>> /\ Len(none) = 0
  <2>1. <<>> \in Seq(QueueItem) /\ Len(<<>>) = 0 OBVIOUS
  <2> QED BY <2>1, Zenon
<1>3. fenceQueue \in Seq(QueueItem) /\ nextFence \in Nat /\ fenceQueue' = Tail(fenceQueue) \o none
  BY <1>1, <1>2, FenceBounds DEF Shapes
<1>4. UNCHANGED <<fenceCbs, nextFenceCall, nextFence, mGeofences, mGeofenceIds, watched, fenceUp, crossed>>
  BY DEF fenceMaps, fenceCounts
<1>5. /\ fenceQueue' \in Seq(QueueItem) /\ Moves(fenceQueue, 1, none, fenceQueue')
      /\ \A k \in 1..Len(fenceQueue') : PartOf(fenceQueue'[k], fenceCalls', nextFenceCall')
      /\ PartsOnce(fenceQueue') /\ Replies'
  <2>1. \A j \in 1..Len(none) : none[j].call = 0 BY <1>2
  <2>2. UNCHANGED <<fenceCbs, nextFenceCall>> BY <1>4
  <2> QED BY <1>1, <1>2, <1>3, <2>1, <2>2, HeadDone
<1>6. Shapes' BY <1>1, <1>4, <1>5 DEF Shapes
<1>7. PICK q2, calls2 : q2 = fenceQueue' /\ calls2 = fenceCalls' OBVIOUS
<1>8. AddedOnce(q2, calls2, mGeofences, nextFence)
  <2>1. \A i \in 1..Len(fenceQueue) : PartOf(fenceQueue[i], fenceCalls, nextFenceCall) BY <1>1 DEF Shapes
  <2>2. Moves(fenceQueue, 1, none, q2) /\ SameCalls(fenceCalls, calls2, nextFenceCall) BY <1>5, <1>7
  <2> QED BY <1>1, <1>2, <1>3, <2>1, <2>2, AddedOnceKept
<1>9. WatchedIsKnown' /\ ModemKept' BY <1>4 DEF FenceInv, WatchedIsKnown, ModemKept
<1>10. ASSUME ~crossed PROVE NamesFences(q2, mGeofenceIds, mGeofences, watched, fenceUp)
  <2>1. NamesFences(fenceQueue, mGeofenceIds, mGeofences, watched, fenceUp) BY <1>10 DEF FenceInv
  <2> QED BY <1>2, <1>5, <1>7, <2>1, NamesLeft
<1> QED BY <1>4, <1>5, <1>6, <1>7, <1>8, <1>9, <1>10 DEF FenceInv

\* A turn becomes a request: the part of the call stays under way.
LEMMA AskReplies ==
    ASSUME NEW q \in Seq(QueueItem), NEW new, Len(new) > 0, NEW q2, Moves(q, 1, new, q2),
           \A j \in 1..Len(new) : new[j].call = q[1].call /\ new[j].item = q[1].item,
           NEW calls, NEW calls2, NEW m \in FenceCall, calls2[m].ids = calls[m].ids,
           calls2[m].op = calls[m].op, calls2[m].replies = calls[m].replies,
           calls2[m].refused = calls[m].refused, RepliesOf(q, calls, m)
    PROVE  RepliesOf(q2, calls2, m)
<1>1. ASSUME LastUnderWay(q2, calls2, m) PROVE LastUnderWay(q, calls, m)
  <2>1. PICK k \in 1..Len(q2) : q2[k].call = m /\ q2[k].item = Len(calls[m].ids) BY <1>1 DEF LastUnderWay
  <2>2. \/ \E i \in 1..Len(q) : q2[k] = q[i]
        \/ \E j \in 1..Len(new) : q2[k] = new[j]
    BY <2>1, CameFromTail
  <2>3. CASE \E i \in 1..Len(q) : q2[k] = q[i] BY <2>1, <2>3 DEF LastUnderWay
  <2>4. CASE \E j \in 1..Len(new) : q2[k] = new[j]
    <3>1. q2[k].call = q[1].call /\ q2[k].item = q[1].item /\ 1 \in 1..Len(q) BY <2>4 DEF Moves
    <3> QED BY <2>1, <3>1 DEF LastUnderWay
  <2> QED BY <2>2, <2>3, <2>4
<1>2. ASSUME LastUnderWay(q, calls, m) PROVE LastUnderWay(q2, calls2, m)
  <2>1. PICK i \in 1..Len(q) : q[i].call = m /\ q[i].item = Len(calls[m].ids) BY <1>2 DEF LastUnderWay
  <2>2. CASE i > 1
    <3>1. PICK k \in 1..Len(q2) : q2[k] = q[i] BY <2>2, WentTo
    <3> QED BY <2>1, <3>1 DEF LastUnderWay
  <2>3. CASE i = 1
    <3>1. 1 \in 1..Len(new) BY DEF Moves
    <3>2. PICK k \in 1..Len(q2) : q2[k] = new[1] BY <3>1, WentTo
    <3> QED BY <2>1, <2>3, <3>2 DEF LastUnderWay
  <2> QED BY <2>1, <2>2, <2>3
<1> QED BY <1>1, <1>2 DEF RepliesOf

\* The head, a turn, becomes the request it makes of the modem.
LEMMA HeadAsksKeeps ==
    ASSUME FenceInv, fenceQueue # <<>>, NEW r, r = Head(fenceQueue), r.op = "turn",
           NEW ask \in QueueItem, ask.op # "turn", ask.call = r.call, ask.item = r.item, r.call # 0,
           PartOf(ask, fenceCalls, nextFenceCall), fenceQueue' = Append(Tail(fenceQueue), ask),
           CallsShape(fenceCalls', nextFenceCall), SameCalls(fenceCalls, fenceCalls', nextFenceCall),
           \A m \in FenceCall : /\ fenceCalls'[m].replies = fenceCalls[m].replies
                                /\ fenceCalls'[m].refused = fenceCalls[m].refused,
           UNCHANGED <<fenceCbs, fenceMaps, fencePower, fenceUp, watched, fenceCounts>>
    PROVE  FenceInv'
<1> DEFINE q == fenceQueue
           n == nextFenceCall
<1>1. Shapes /\ PartsOnce(q) /\ Replies /\ AddedOnce(q, fenceCalls, mGeofences, nextFence)
  BY DEF FenceInv
<1>2. q \in Seq(QueueItem) /\ nextFence \in Nat /\ n \in Nat BY <1>1, FenceBounds DEF Shapes
<1>3. PICK q2, calls2, new : q2 = fenceQueue' /\ calls2 = fenceCalls' /\ new = <<ask>> OBVIOUS
<1>4. Len(new) = 1 /\ new[1] = ask BY <1>3
<1>5. q2 \in Seq(QueueItem) /\ Moves(q, 1, new, q2) BY <1>2, <1>3, OneEntered
<1>6. r = q[1] /\ 1 \in 1..Len(q) /\ \A i \in 1..Len(q) : PartOf(q[i], fenceCalls, n)
  BY <1>1, <1>2, HeadLeft DEF Shapes
<1>7. CallsShape(calls2, n) /\ SameCalls(fenceCalls, calls2, n)
      /\ \A m \in FenceCall : calls2[m].replies = fenceCalls[m].replies /\ calls2[m].refused = fenceCalls[m].refused
  BY <1>3
<1>8. PICK d : d = 1 OBVIOUS
<1>9. Moves(q, d, new, q2) BY <1>5, <1>8
<1>10. PartOf(ask, calls2, n) BY <1>7, PartSame
<1>11. \A k \in 1..Len(q2) : PartOf(q2[k], calls2, n)
  <2>1. \A j \in 1..Len(new) : PartOf(new[j], calls2, n) BY <1>4, <1>10
  <2> HIDE DEF q, n
  <2> QED BY <1>2, <1>6, <1>7, <1>9, <2>1, PartsKept
<1>12. PartsOnce(q2)
  <2>1. PartsOnce(new) BY <1>4 DEF PartsOnce
  <2>2. \A i \in 1..Len(q), j \in 1..Len(new) :
           i > d /\ new[j].call > 0 /\ q[i].call = new[j].call => q[i].item # new[j].item
    BY <1>1, <1>4, <1>6, <1>8 DEF PartsOnce
  <2> HIDE DEF q, n
  <2> QED BY <1>1, <1>9, <2>1, <2>2, PartsOnceKept
<1>13. \A m \in FenceCall : m < n /\ calls2[m].client \in fenceCbs => RepliesOf(q2, calls2, m)
  <2> SUFFICES ASSUME NEW m \in FenceCall, m < n, calls2[m].client \in fenceCbs
               PROVE  RepliesOf(q2, calls2, m)
    OBVIOUS
  <2>1. /\ calls2[m].ids = fenceCalls[m].ids /\ calls2[m].op = fenceCalls[m].op
        /\ calls2[m].client = fenceCalls[m].client
    BY <1>7 DEF SameCalls
  <2>2. RepliesOf(q, fenceCalls, m) BY <1>1, <2>1 DEF Replies
  <2>3. Len(new) > 0 /\ \A j \in 1..Len(new) : new[j].call = q[1].call /\ new[j].item = q[1].item
    BY <1>4, <1>6
  <2>4. calls2[m].replies = fenceCalls[m].replies /\ calls2[m].refused = fenceCalls[m].refused BY <1>7
  <2> HIDE DEF q, n
  <2> QED BY <1>2, <1>4, <1>5, <2>1, <2>2, <2>3, <2>4, AskReplies
<1>14. AddedOnce(q2, calls2, mGeofences, nextFence)
  <2>1. \A j \in 1..Len(new) : Adds(new[j], calls2) =>
           /\ d = 1 /\ j = 1 /\ Adds(q[1], fenceCalls)
           /\ AddedId(new[j], calls2) = AddedId(q[1], fenceCalls)
    <3>1. ask.call \in FenceCall /\ ask.op \in CallOps BY <1>6, ItemIs
    <3>2. r.call > 0 BY <3>1 DEF FenceCall
    <3>3. ask.op = fenceCalls[r.call].op /\ ask.key[2] = fenceCalls[r.call].ids[r.item]
      BY <1>6, <3>2 DEF PartOf
    <3>4. Adds(ask, calls2) => ask.op = "add" BY <3>1 DEF Adds, CallOps
    <3>5. Adds(ask, calls2) => Adds(r, fenceCalls) BY <3>3, <3>4 DEF Adds
    <3>6. AddedId(ask, calls2) = AddedId(r, fenceCalls) BY <3>3 DEF AddedId
    <3> HIDE DEF q, n
    <3> QED BY <1>4, <1>6, <1>8, <3>5, <3>6
  <2> HIDE DEF q, n
  <2> QED BY <1>1, <1>2, <1>6, <1>7, <1>9, <2>1, AddedOnceKept
<1>15. UNCHANGED <<fenceCbs, nextFenceCall, nextFence, mGeofences, mGeofenceIds, watched, fenceUp, crossed>>
  BY DEF fenceMaps, fenceCounts
<1>16. WatchedIsKnown' /\ ModemKept' BY <1>15 DEF FenceInv, WatchedIsKnown, ModemKept
<1>17. ASSUME ~crossed PROVE NamesFences(q2, mGeofenceIds, mGeofences, watched, fenceUp)
  <2>1. NamesFences(q, mGeofenceIds, mGeofences, watched, fenceUp) BY <1>17 DEF FenceInv
  <2>2. \A j \in 1..Len(new) : ~Erases(new[j]) BY <1>4 DEF Erases
  <2> HIDE DEF q
  <2> QED BY <1>5, <2>1, <2>2, NamesLeft
<1>18. Shapes' BY <1>1, <1>3, <1>5, <1>7, <1>11, <1>15 DEF Shapes
<1> QED BY <1>3, <1>12, <1>13, <1>14, <1>15, <1>16, <1>17, <1>18 DEF FenceInv, Replies

\* TakeTurn: a fence that is not known is answered at once, others become requests.
LEMMA TakeTurnKeeps ==
    ASSUME FenceInv, TakeTurn
    PROVE  FenceInv'
<1> DEFINE r == Head(fenceQueue)
           n == r.call
           call == fenceCalls[n]
           key == <<call.client, call.ids[r.item]>>
           ask == [op |-> call.op, call |-> n, item |-> r.item, key |-> key, version |-> call.version,
                   hw |-> mGeofenceIds[key], paused |-> FALSE]
<1>1. fenceQueue # <<>> /\ r.op = "turn" BY DEF TakeTurn
<1>2. Shapes BY DEF FenceInv
<1>3. /\ n \in FenceCall /\ n < nextFenceCall /\ nextFenceCall \in Nat
      /\ CallShape(call) /\ r.item \in 1..Len(call.ids) /\ r.item \in DOMAIN call.ids
      /\ key \in FenceKey /\ n # 0
  BY <1>1, <1>2, HeadOfCall DEF FenceCall
<1>4. CallsShape(fenceCalls, nextFenceCall) BY <1>2 DEF Shapes
<1>5. UNCHANGED <<fenceCbs, fenceMaps, fencePower, fenceUp, watched, fenceCounts>> BY DEF TakeTurn
<1>6. CASE call.op = "add" \/ mGeofenceIds[key] > 0
  <2>1. /\ fenceQueue' = Append(Tail(fenceQueue), ask)
        /\ fenceCalls' = IF call.op = "add" THEN fenceCalls
                         ELSE [fenceCalls EXCEPT ![n].errs[r.item] = "success"]
    BY <1>6 DEF TakeTurn
  <2>2. /\ ask \in QueueItem /\ ask.op # "turn" /\ ask.call = n /\ ask.item = r.item
        /\ PartOf(ask, fenceCalls, nextFenceCall)
    <3>1. call.op \in CallOps /\ call.version \in 0..1 BY <1>3 DEF CallShape, CallRecord
    <3>2. mGeofenceIds[key] \in 0..MaxFence BY <1>2, <1>3 DEF Shapes
    <3>3. r.item \in Nat BY <1>3
    <3> HIDE DEF call, key, n, r
    <3>4. ask \in AskItem BY <1>3, <3>1, <3>2, <3>3 DEF AskItem
    <3>5. call.op # "turn" BY <3>1 DEF CallOps
    <3> QED BY <1>3, <1>6, <3>4, <3>5 DEF QueueItem, PartOf, call, key
  <2>3. CallsShape(fenceCalls', nextFenceCall) /\ SameCalls(fenceCalls, fenceCalls', nextFenceCall)
        /\ \A m \in FenceCall : /\ fenceCalls'[m].replies = fenceCalls[m].replies
                                /\ fenceCalls'[m].refused = fenceCalls[m].refused
    <3>1. CASE call.op = "add" BY <1>4, <2>1, <3>1 DEF SameCalls
    <3>2. CASE call.op # "add"
      <4> DEFINE call2 == [call EXCEPT !.errs = [call.errs EXCEPT ![r.item] = "success"]]
      <4>1. call \in CallRecord BY <1>3 DEF CallShape
      <4>2. DOMAIN fenceCalls = FenceCall BY <1>4 DEF CallsShape
      <4>3. fenceCalls' = [fenceCalls EXCEPT ![n] = call2]
        BY <1>3, <2>1, <3>2, <4>1, <4>2 DEF CallRecord
      <4>4. [call.errs EXCEPT ![r.item] = "success"] \in Seq(FenceError)
            /\ Len([call.errs EXCEPT ![r.item] = "success"]) = Len(call.errs)
        BY <1>3, <4>1 DEF CallShape, CallRecord, FenceError
      <4>5. CallShape(call2) BY <1>3, <4>1, <4>4 DEF CallShape, CallRecord
      <4>6. /\ call2.op = call.op /\ call2.ids = call.ids /\ call2.client = call.client
            /\ call2.replies = call.replies /\ call2.refused = call.refused
        BY <4>1 DEF CallRecord
      <4> HIDE DEF call2, n, r, key, ask
      <4>7. PICK calls2 : calls2 = fenceCalls' OBVIOUS
      <4>8. CallsShape(calls2, nextFenceCall) /\ SameCalls(fenceCalls, calls2, nextFenceCall)
            /\ calls2[n] = call2 /\ \A m \in FenceCall : m # n => calls2[m] = fenceCalls[m]
        <5>1. calls2 = [fenceCalls EXCEPT ![n] = call2] BY <4>3, <4>7
        <5>2. calls2[n] = call2 /\ DOMAIN calls2 = FenceCall /\ \A m \in FenceCall : m # n => calls2[m] = fenceCalls[m]
          BY <1>3, <4>2, <5>1
        <5> HIDE DEF call
        <5>3. CallsShape(calls2, nextFenceCall) BY <1>3, <1>4, <4>5, <5>2 DEF CallsShape
        <5>4. SameCalls(fenceCalls, calls2, nextFenceCall) BY <4>6, <5>2 DEF SameCalls, call
        <5> QED BY <5>2, <5>3, <5>4
      <4> QED BY <4>6, <4>7, <4>8
    <3> QED BY <3>1, <3>2
  <2> HIDE DEF ask, n, r
  <2>4. PICK a, r0 : a = ask /\ r0 = r OBVIOUS
  <2>5. /\ fenceQueue' = Append(Tail(fenceQueue), a) /\ r0 = Head(fenceQueue) /\ r0.op = "turn"
        /\ a \in QueueItem /\ a.op # "turn" /\ a.call = r0.call /\ a.item = r0.item /\ r0.call # 0
        /\ PartOf(a, fenceCalls, nextFenceCall)
    BY <1>1, <1>3, <2>1, <2>2, <2>4 DEF n, r
  <2> QED BY <1>1, <1>5, <2>3, <2>5, HeadAsksKeeps
<1>7. CASE ~(call.op = "add" \/ mGeofenceIds[key] > 0)
  <2>1. fenceQueue' = Tail(fenceQueue) /\ fenceCalls' = ItemDone(fenceCalls, n, r.item, "idUnknown")
    BY <1>7 DEF TakeTurn
  <2>2. PICK calls2 : calls2 = fenceCalls' OBVIOUS
  <2>3. /\ CallsShape(calls2, nextFenceCall)
        /\ SameCalls(fenceCalls, calls2, nextFenceCall)
        /\ \A m \in FenceCall : m # n => calls2[m] = fenceCalls[m]
        /\ calls2[n].refused = call.refused
        /\ calls2[n].replies = IF r.item = Len(call.ids) /\ call.client \in fenceCbs
                               THEN call.replies + 1 ELSE call.replies
    <3>1. "idUnknown" \in FenceError BY DEF FenceError
    <3> HIDE DEF n, r
    <3> QED BY <1>3, <1>4, <2>1, <2>2, <3>1, ItemDoneChanges DEF call
  <2>4. ResultNoted(r, fenceCalls, calls2, fenceCbs) BY <2>3 DEF ResultNoted
  <2> QED BY <1>1, <1>5, <2>1, <2>2, <2>3, <2>4, HeadGoneKeeps
<1> QED BY <1>6, <1>7

\* A call's history is noted beside what it asks and what it was answered.
NotedIn(calls, calls2, next, n) ==
    /\ CallsShape(calls2, next)
    /\ \A m \in FenceCall : m # n => calls2[m] = calls[m]
    /\ calls2[n].op = calls[n].op /\ calls2[n].ids = calls[n].ids /\ calls2[n].client = calls[n].client
    /\ calls2[n].replies = calls[n].replies

\* A part is noted as done, or as refused, and the call is answered no more for that.
LEMMA CallNoted ==
    ASSUME NEW calls, NEW next, CallsShape(calls, next), NEW n \in FenceCall, n < next,
           NEW calls2, DOMAIN calls2 = FenceCall,
           \A m \in FenceCall : m # n => calls2[m] = calls[m],
           \/ \E set \in SUBSET Nat : calls2[n] = [calls[n] EXCEPT !.done = set]
           \/ calls2[n] = [calls[n] EXCEPT !.refused = TRUE]
    PROVE  /\ NotedIn(calls, calls2, next, n)
           /\ calls[n].refused => calls2[n].refused
<1> DEFINE call == calls[n]
           call2 == calls2[n]
<1>1. call \in CallRecord /\ CallShape(call) BY DEF CallsShape, CallShape
<1>2. /\ call2 \in CallRecord
      /\ call2.op = call.op /\ call2.ids = call.ids /\ call2.client = call.client /\ call2.errs = call.errs
      /\ call2.replies = call.replies
      /\ call.refused => call2.refused
  <2>1. CASE \E set \in SUBSET Nat : call2 = [call EXCEPT !.done = set]
    <3>1. PICK set \in SUBSET Nat : call2 = [call EXCEPT !.done = set] BY <2>1
    <3> HIDE DEF call2
    <3> QED BY <1>1, <3>1 DEF CallRecord
  <2>2. CASE call2 = [call EXCEPT !.refused = TRUE]
    <3> HIDE DEF call2
    <3> QED BY <1>1, <2>2 DEF CallRecord
  <2> QED BY <2>1, <2>2
<1>3. CallShape(call2) BY <1>1, <1>2 DEF CallShape
<1>4. CallsShape(calls2, next) BY <1>3 DEF CallsShape
<1> QED BY <1>2, <1>4 DEF NotedIn

\* It is the same call.
LEMMA NotedSame ==
    ASSUME NEW calls, NEW calls2, NEW next, NEW n, NotedIn(calls, calls2, next, n)
    PROVE  SameCalls(calls, calls2, next)
BY DEF NotedIn, SameCalls

\* It stays the same call through two changes.
LEMMA SameTwice ==
    ASSUME NEW calls, NEW calls2, NEW calls3, NEW next,
           SameCalls(calls, calls2, next), SameCalls(calls2, calls3, next)
    PROVE  SameCalls(calls, calls3, next)
BY DEF SameCalls

\* What the answer to a request makes of the calls.
AnswerOf(r, calls, calls2) ==
    \/ r.call = 0 /\ calls2 = calls
    \/ r.call # 0 /\ \E err \in FenceError :
          \/ calls2 = [ItemDone(calls, r.call, r.item, err) EXCEPT ![r.call].done = @ \cup {r.item}]
          \/ calls2 = [ItemDone(calls, r.call, r.item, err) EXCEPT ![r.call].refused = TRUE]
    \/ r.call # 0 /\ r.op = "resume" /\ calls2 = [calls EXCEPT ![r.call].refused = TRUE]

\* What a request of the modem has done to its call, after a success and after a refusal.
LEMMA AnswerNoted ==
    ASSUME Shapes, fenceQueue # <<>>, NEW r, r = Head(fenceQueue), r.op # "turn", NEW calls2,
           AnswerOf(r, fenceCalls, calls2)
    PROVE  /\ CallsShape(calls2, nextFenceCall)
           /\ SameCalls(fenceCalls, calls2, nextFenceCall)
           /\ ResultNoted(r, fenceCalls, calls2, fenceCbs)
<1> DEFINE n == r.call
           next == nextFenceCall
<1>1. CallsShape(fenceCalls, next) BY DEF Shapes
<1>2. CASE r.call = 0 /\ calls2 = fenceCalls
  <2>1. 0 \notin FenceCall BY DEF FenceCall
  <2> QED BY <1>1, <1>2, <2>1 DEF SameCalls, ResultNoted
<1>3. CASE r.call # 0
  <2>1. /\ n \in FenceCall /\ n < next /\ next \in Nat /\ r.item \in 1..Len(fenceCalls[n].ids)
        /\ r.item \in DOMAIN fenceCalls[n].ids
    BY <1>3, HeadOfCall
  <2>2. r.item \in Nat BY <2>1
  <2> HIDE DEF n, next
  <2>3. ASSUME NEW err \in FenceError, NEW base, base = ItemDone(fenceCalls, n, r.item, err),
               \/ calls2 = [base EXCEPT ![n].done = @ \cup {r.item}]
               \/ calls2 = [base EXCEPT ![n].refused = TRUE]
        PROVE  /\ CallsShape(calls2, next) /\ SameCalls(fenceCalls, calls2, next)
               /\ ResultNoted(r, fenceCalls, calls2, fenceCbs)
    <3>1. /\ CallsShape(base, next) /\ SameCalls(fenceCalls, base, next)
          /\ \A m \in FenceCall : m # n => base[m] = fenceCalls[m]
          /\ base[n].refused = fenceCalls[n].refused
          /\ base[n].replies = IF r.item = Len(fenceCalls[n].ids) /\ fenceCalls[n].client \in fenceCbs
                               THEN fenceCalls[n].replies + 1 ELSE fenceCalls[n].replies
      BY <1>1, <2>1, <2>3, ItemDoneChanges
    <3>2. NotedIn(base, calls2, next, n) /\ (base[n].refused => calls2[n].refused)
      <4>0. n \in FenceCall /\ n < next /\ CallsShape(base, next) BY <2>1, <3>1
      <4>1. DOMAIN base = FenceCall /\ base[n] \in CallRecord BY <2>1, <3>1 DEF CallsShape, CallShape
      <4>2. DOMAIN calls2 = FenceCall /\ \A m \in FenceCall : m # n => calls2[m] = base[m]
        BY <2>3, <4>1
      <4>3. CASE calls2 = [base EXCEPT ![n].done = @ \cup {r.item}]
        <5>1. base[n].done \in SUBSET Nat BY <4>1 DEF CallRecord
        <5>2. PICK set \in SUBSET Nat : set = base[n].done \cup {r.item} BY <2>2, <5>1
        <5>3. calls2[n] = [base[n] EXCEPT !.done = set] BY <2>1, <4>1, <4>3, <5>2
        <5> QED BY <4>0, <4>2, <5>3, CallNoted
      <4>4. CASE calls2 = [base EXCEPT ![n].refused = TRUE]
        <5>1. calls2[n] = [base[n] EXCEPT !.refused = TRUE] BY <2>1, <4>1, <4>4
        <5> QED BY <4>0, <4>2, <5>1, CallNoted
      <4> QED BY <2>3, <4>3, <4>4
    <3>3. SameCalls(fenceCalls, calls2, next) BY <3>1, <3>2, NotedSame, SameTwice
    <3>4. \A m \in FenceCall : m # r.call => calls2[m] = fenceCalls[m] BY <3>1, <3>2 DEF NotedIn, n
    <3>5. fenceCalls[n].refused => calls2[n].refused BY <3>1, <3>2
    <3>6. fenceCalls[n].client \in fenceCbs =>
             calls2[n].replies = IF r.item = Len(fenceCalls[n].ids) THEN fenceCalls[n].replies + 1
                                 ELSE fenceCalls[n].replies
      BY <3>1, <3>2 DEF NotedIn
    <3>7. ResultNoted(r, fenceCalls, calls2, fenceCbs) BY <3>4, <3>5, <3>6 DEF ResultNoted, n
    <3> QED BY <3>2, <3>3, <3>7 DEF NotedIn
  <2>4. CASE r.op = "resume" /\ calls2 = [fenceCalls EXCEPT ![n].refused = TRUE]
    <3>1. NotedIn(fenceCalls, calls2, next, n) /\ calls2[n].refused = TRUE
      <4>1. DOMAIN fenceCalls = FenceCall /\ fenceCalls[n] \in CallRecord
        BY <1>1, <2>1 DEF CallsShape, CallShape
      <4>2. /\ DOMAIN calls2 = FenceCall /\ \A m \in FenceCall : m # n => calls2[m] = fenceCalls[m]
            /\ calls2[n] = [fenceCalls[n] EXCEPT !.refused = TRUE]
        BY <2>1, <2>4, <4>1
      <4>3. calls2[n].refused = TRUE BY <4>1, <4>2 DEF CallRecord
      <4> QED BY <1>1, <2>1, <4>2, <4>3, CallNoted
    <3>2. fenceCalls[n].op = "resume"
      <4>1. fenceQueue \in Seq(QueueItem) BY DEF Shapes
      <4>2. r = fenceQueue[1] /\ 1 \in 1..Len(fenceQueue) BY <4>1, HeadLeft
      <4>3. PartOf(r, fenceCalls, next) BY <4>2 DEF Shapes, next
      <4>4. n > 0 BY <2>1 DEF FenceCall
      <4> QED BY <2>4, <4>3, <4>4 DEF PartOf, n
    <3>3. SameCalls(fenceCalls, calls2, next) BY <3>1, NotedSame
    <3>4. ResultNoted(r, fenceCalls, calls2, fenceCbs) BY <3>1, <3>2 DEF NotedIn, ResultNoted, n
    <3> QED BY <3>1, <3>3, <3>4 DEF NotedIn, next
  <2>5. CASE \E err \in FenceError :
                \/ calls2 = [ItemDone(fenceCalls, n, r.item, err) EXCEPT ![n].done = @ \cup {r.item}]
                \/ calls2 = [ItemDone(fenceCalls, n, r.item, err) EXCEPT ![n].refused = TRUE]
    <3>1. PICK err \in FenceError :
             \/ calls2 = [ItemDone(fenceCalls, n, r.item, err) EXCEPT ![n].done = @ \cup {r.item}]
             \/ calls2 = [ItemDone(fenceCalls, n, r.item, err) EXCEPT ![n].refused = TRUE]
      BY <2>5
    <3>2. PICK base : base = ItemDone(fenceCalls, n, r.item, err) OBVIOUS
    <3> QED BY <2>3, <3>1, <3>2 DEF next
  <2>6. \/ \E err \in FenceError :
              \/ calls2 = [ItemDone(fenceCalls, n, r.item, err) EXCEPT ![n].done = @ \cup {r.item}]
              \/ calls2 = [ItemDone(fenceCalls, n, r.item, err) EXCEPT ![n].refused = TRUE]
        \/ r.op = "resume" /\ calls2 = [fenceCalls EXCEPT ![n].refused = TRUE]
    BY <1>3, Zenon DEF AnswerOf, n
  <2> QED BY <2>4, <2>5, <2>6 DEF next
<1> QED BY <1>2, <1>3 DEF AnswerOf

\* FenceRefusal: the maps and the modem stay, the call learns of the error.
LEMMA FenceRefusalKeeps ==
    ASSUME FenceInv, FenceRefusal
    PROVE  FenceInv'
<1>1. PICK r, calls2 : r = Head(fenceQueue) /\ calls2 = fenceCalls' OBVIOUS
<1>2. /\ fenceQueue # <<>> /\ r.op # "turn" /\ fenceQueue' = Tail(fenceQueue)
      /\ UNCHANGED <<fenceCbs, fenceMaps, fencePower, fenceUp, watched, fenceCounts>>
  BY <1>1 DEF FenceRefusal
<1>3. AnswerOf(r, fenceCalls, calls2)
  <2> DEFINE err == ErrorLeft(r)
  <2>1. err \in FenceError BY DEF FenceError, ErrorLeft
  <2>2. calls2 = IF r.call = 0 THEN fenceCalls
                 ELSE IF r.op = "resume" THEN [fenceCalls EXCEPT ![r.call].refused = TRUE]
                 ELSE [ItemDone(fenceCalls, r.call, r.item, err) EXCEPT ![r.call].refused = TRUE]
    BY <1>1 DEF FenceRefusal
  <2> HIDE DEF err
  <2> QED BY <2>1, <2>2 DEF AnswerOf
<1>4. Shapes BY DEF FenceInv
<1>5. /\ CallsShape(calls2, nextFenceCall) /\ SameCalls(fenceCalls, calls2, nextFenceCall)
      /\ ResultNoted(r, fenceCalls, calls2, fenceCbs)
  BY <1>1, <1>2, <1>3, <1>4, AnswerNoted
<1> QED BY <1>1, <1>2, <1>5, HeadGoneKeeps

-----------------------------------------------------------------------------
(* What the modem does, and what the maps keep of it *)

\* WatchedIsKnown, of any maps.
Known(saved, modem) ==
    \A h \in HwId : modem[h] # Unwatched =>
       /\ saved[h] # NoFence
       /\ saved[h].version = modem[h].version
       /\ saved[h].paused => modem[h].paused

SavedShape(saved) == saved \in [HwId -> FenceRecord \cup {NoFence}]
ModemShape(modem) == modem \in [HwId -> [paused : BOOLEAN, version : -1..1]]

\* A fence is not the absence of one, and what is watched has options.
LEMMA FenceIsNone ==
    ASSUME NEW f \in FenceRecord
    PROVE  f # NoFence
<1>1. f.id \in FenceId BY DEF FenceRecord
<1>2. f.id # 0 BY <1>1 DEF FenceId
<1> QED BY <1>2 DEF NoFence

\* What has options is watched.
LEMMA WatchedHas ==
    ASSUME NEW w, w.version \in 0..1
    PROVE  w # Unwatched
BY DEF Unwatched

\* The fence that is saved for a number that the modem watches.
LEMMA FenceOf ==
    ASSUME NEW saved, SavedShape(saved), NEW modem, Known(saved, modem), NEW h \in HwId, modem[h] # Unwatched
    PROVE  saved[h] \in FenceRecord /\ saved[h] # NoFence /\ modem[h].version \in 0..1
<1>1. saved[h] # NoFence BY DEF Known
<1>2. saved[h] \in FenceRecord BY <1>1 DEF SavedShape
<1>3. saved[h].version \in 0..1 BY <1>2 DEF FenceRecord
<1> QED BY <1>1, <1>2, <1>3 DEF Known

\* As long as a fence is to be added, the modem has a number that is free.
LEMMA FreeNumber ==
    ASSUME NEW saved, SavedShape(saved), NEW modem, Known(saved, modem), NEW a \in FenceId,
           \A h, g \in HwId : saved[h] # NoFence /\ saved[g] # NoFence /\ saved[h].id = saved[g].id => h = g,
           \A h \in HwId : saved[h] # NoFence => saved[h].id # a
    PROVE  \E h \in HwId : modem[h] = Unwatched /\ \A g \in HwId : g < h => modem[g] # Unwatched
<1> DEFINE free == {h \in HwId : modem[h] = Unwatched}
           f == [h \in HwId |-> saved[h].id]
<1>1. MaxFence \in Nat /\ IsFiniteSet(HwId) /\ HwId \in SUBSET Int /\ HwId = FenceId
  BY FenceBounds, FS_Interval DEF HwId, FenceId
<1>2. free # {}
  <2> SUFFICES ASSUME \A h \in HwId : modem[h] # Unwatched PROVE FALSE OBVIOUS
  <2>1. \A h \in HwId : saved[h] \in FenceRecord /\ saved[h] # NoFence BY FenceOf
  <2>2. f \in [HwId -> FenceId] BY <2>1 DEF FenceRecord
  <2>3. \A h, g \in HwId : f[h] = f[g] => h = g BY <2>1
  <2>4. f \in Injection(HwId, FenceId) BY <2>2, <2>3 DEF Injection, IsInjective
  <2>5. f \in Surjection(HwId, FenceId)
    <3> HIDE DEF f
    <3> QED BY <1>1, <2>4, FS_Injection
  <2>6. PICK h \in HwId : f[h] = a BY <2>5 DEF Surjection
  <2> QED BY <2>1, <2>6
<1>3. free \in SUBSET HwId /\ free \in SUBSET Int BY <1>1
<1>4. IsFiniteSet(free) BY <1>1, <1>3, FS_Subset
<1>5. PICK h \in free : \A g \in free : ~(g < h)
  <2> HIDE DEF free
  <2> QED BY <1>2, <1>3, <1>4, LeastNumber
<1> QED BY <1>5

\* A fence is saved under the number that the modem has given to it.
SavedAs(h, c, a, version, saved, saved2, modem, modem2) ==
    /\ saved2 = [saved EXCEPT ![h] = [client |-> c, id |-> a, version |-> version, paused |-> FALSE]]
    /\ modem2 = [modem EXCEPT ![h] = [paused |-> FALSE, version |-> version]]

\* A step that leaves all numbers but one.
Elsewhere(h, f, f2) == \A g \in HwId : g # h => f2[g] = f[g]

\* The fence that is found under a number.
Names(h, key, saved) == saved[h] # NoFence /\ saved[h].client = key[1] /\ saved[h].id = key[2]

AllParts(q, calls, n) == \A i \in 1..Len(q) : PartOf(q[i], calls, n)
NoneAdds(new, calls) == \A j \in 1..Len(new) : ~Adds(new[j], calls)
NoneErases(new) == \A j \in 1..Len(new) : ~Erases(new[j])
NoneErasesIt(q, h) == \A i \in 1..Len(q) : Erases(q[i]) => q[i].hw # h
HeadAdds(q, calls, a) == Adds(q[1], calls) /\ AddedId(q[1], calls) = a

\* A new fence is saved under a number that is free at the modem.
LEMMA SaveKeeps ==
    ASSUME NEW saved, SavedShape(saved), NEW modem, ModemShape(modem), Known(saved, modem),
           NEW h \in HwId, modem[h] = Unwatched, NEW c \in FenceClient, NEW a \in FenceId,
           NEW version \in 0..1,
           NEW saved2, NEW modem2, SavedAs(h, c, a, version, saved, saved2, modem, modem2)
    PROVE  /\ SavedShape(saved2) /\ ModemShape(modem2) /\ Known(saved2, modem2)
           /\ Elsewhere(h, saved, saved2) /\ Elsewhere(h, modem, modem2)
           /\ Names(h, <<c, a>>, saved2) /\ modem2[h] # Unwatched
<1> DEFINE f == [client |-> c, id |-> a, version |-> version, paused |-> FALSE]
           w == [paused |-> FALSE, version |-> version]
<1>1. f \in FenceRecord BY DEF FenceRecord
<1>2. w \in [paused : BOOLEAN, version : -1..1] BY DEF FenceRecord
<1>3. f.client = c /\ f.id = a /\ f.version = version /\ w.version = version /\ f.paused = FALSE OBVIOUS
<1>4. f # NoFence BY <1>1, FenceIsNone
<1>5. w # Unwatched BY <1>3, WatchedHas
<1> HIDE DEF f, w
<1>6. saved2 = [saved EXCEPT ![h] = f] /\ modem2 = [modem EXCEPT ![h] = w] BY DEF f, w, SavedAs
<1>7. DOMAIN saved = HwId /\ DOMAIN modem = HwId BY DEF SavedShape, ModemShape
<1>8. /\ saved2[h] = f /\ modem2[h] = w
      /\ \A g \in HwId : g # h => saved2[g] = saved[g] /\ modem2[g] = modem[g]
  BY <1>6, <1>7
<1>9. SavedShape(saved2) /\ ModemShape(modem2) BY <1>1, <1>2, <1>6 DEF SavedShape, ModemShape
<1>10. Known(saved2, modem2) BY <1>3, <1>4, <1>8 DEF Known
<1> QED BY <1>3, <1>4, <1>5, <1>8, <1>9, <1>10 DEF Elsewhere, Names

\* A fence is added: the head of the queue has its number.
LEMMA AddingKeeps ==
    ASSUME NEW q \in Seq(QueueItem), NEW new, NEW q2, Moves(q, 1, new, q2), NEW calls, NEW calls2,
           NEW next \in Nat, NEW nextCall, NEW saved, NEW saved2, NEW h \in HwId, NEW key \in FenceKey,
           HeadAdds(q, calls, key[2]), AddedOnce(q, calls, saved, next),
           SameCalls(calls, calls2, nextCall), AllParts(q, calls, nextCall), NoneAdds(new, calls2),
           Elsewhere(h, saved, saved2), Names(h, key, saved2)
    PROVE  AddedOnce(q2, calls2, saved2, next)
<1> DEFINE a == key[2]
<1>0. /\ Adds(q[1], calls) /\ AddedId(q[1], calls) = a
      /\ \A i \in 1..Len(q) : PartOf(q[i], calls, nextCall)
      /\ \A j \in 1..Len(new) : ~Adds(new[j], calls2)
      /\ \A g \in HwId : g # h => saved2[g] = saved[g]
      /\ saved2[h].id = a
  BY DEF HeadAdds, AllParts, NoneAdds, Elsewhere, Names
<1> USE <1>0
<1> HIDE DEF a
<1>1. PICK d : d = 1 OBVIOUS
<1>2. Moves(q, d, new, q2) BY <1>1
<1>3. AddedOnce(q2, calls2, [g \in HwId |-> NoFence], next)
  <2> DEFINE none == [g \in HwId |-> NoFence]
  <2>1. \A g \in HwId : none[g] # NoFence => saved[g] # NoFence /\ none[g].id = saved[g].id OBVIOUS
  <2>2. \A j \in 1..Len(new) : Adds(new[j], calls2) =>
              /\ d = 1 /\ j = 1 /\ Adds(q[1], calls)
              /\ AddedId(new[j], calls2) = AddedId(q[1], calls)
    OBVIOUS
  <2> HIDE DEF none
  <2> QED BY <1>2, <2>1, <2>2, AddedOnceKept DEF none
<1>4. ASSUME NEW k \in 1..Len(q2), Adds(q2[k], calls2)
      PROVE  \E i \in 1..Len(q) : i > 1 /\ Adds(q[i], calls) /\ AddedId(q2[k], calls2) = AddedId(q[i], calls)
  <2>1. \/ \E i \in 1..Len(q) : i > 1 /\ q2[k] = q[i]
        \/ \E j \in 1..Len(new) : q2[k] = new[j]
    <3> HIDE <1>0
    <3> QED BY Stays
  <2>2. PICK i \in 1..Len(q) : i > 1 /\ q2[k] = q[i] BY <1>4, <2>1
  <2>3. Adds(q[i], calls2) = Adds(q[i], calls) /\ AddedId(q[i], calls2) = AddedId(q[i], calls)
    <3>1. CASE q[i].op # "turn" BY <3>1 DEF Adds, AddedId
    <3>2. CASE q[i].op = "turn"
      <4>1. q[i] \in QueueItem /\ PartOf(q[i], calls, nextCall) OBVIOUS
      <4>2. q[i].call \in FenceCall BY <3>2, <4>1, ItemIs
      <4>3. q[i].call < nextCall BY <4>1, <4>2 DEF PartOf, FenceCall
      <4> QED BY <3>2, <4>2, <4>3 DEF SameCalls, Adds, AddedId
    <3> QED BY <3>1, <3>2
  <2> QED BY <1>4, <2>2, <2>3
<1>5. 1 \in 1..Len(q) BY DEF Moves
<1>6. \A k \in 1..Len(q2), g \in HwId : Adds(q2[k], calls2) /\ saved2[g] # NoFence =>
         saved2[g].id # AddedId(q2[k], calls2)
  <2> SUFFICES ASSUME NEW k \in 1..Len(q2), NEW g \in HwId, Adds(q2[k], calls2), saved2[g] # NoFence,
                      saved2[g].id = AddedId(q2[k], calls2)
               PROVE  FALSE
    OBVIOUS
  <2>1. PICK i \in 1..Len(q) : i > 1 /\ Adds(q[i], calls) /\ AddedId(q2[k], calls2) = AddedId(q[i], calls)
    BY <1>4
  <2>2. CASE g = h
    <3>1. AddedId(q[i], calls) = AddedId(q[1], calls) BY <2>1, <2>2
    <3> QED BY <1>5, <2>1, <3>1 DEF AddedOnce
  <2>3. CASE g # h BY <2>1, <2>3 DEF AddedOnce
  <2> QED BY <2>2, <2>3
<1>7. \A g \in HwId : saved[g] # NoFence => saved[g].id # a BY <1>5 DEF AddedOnce
<1>8. \A g, e \in HwId : saved2[g] # NoFence /\ saved2[e] # NoFence /\ saved2[g].id = saved2[e].id => g = e
  BY <1>7 DEF AddedOnce
<1>9. a \in 1..(next - 1) BY <1>5 DEF AddedOnce
<1>10. \A g \in HwId : saved2[g] # NoFence => saved2[g].id \in 1..(next - 1) BY <1>9 DEF AddedOnce
<1> QED BY <1>3, <1>6, <1>8, <1>10 DEF AddedOnce

\* The numbers under which the fences are found, after a fence is added.
KeySet(key, h, ids, ids2) == ids2[key] = h /\ \A k \in FenceKey : k # key => ids2[k] = ids[k]
IdsShape(ids) == ids \in [FenceKey -> 0..MaxFence]

\* The id of the new fence gets its number, and no removal has that number.
LEMMA AddingNames ==
    ASSUME NEW q \in Seq(QueueItem), NEW new, NEW q2, Moves(q, 1, new, q2), NEW ids, NEW ids2,
           NEW saved, NEW saved2, NEW modem, NEW modem2, NEW h \in HwId, NEW key \in FenceKey,
           NamesFences(q, ids, saved, modem, TRUE), modem[h] = Unwatched, IdsShape(ids),
           KeySet(key, h, ids, ids2), Elsewhere(h, saved, saved2), Elsewhere(h, modem, modem2),
           Names(h, key, saved2), modem2[h] # Unwatched, NoneErases(new), NoneErasesIt(q, h)
    PROVE  NamesFences(q2, ids2, saved2, modem2, TRUE)
<1>1. /\ ids \in [FenceKey -> 0..MaxFence]
      /\ ids2[key] = h /\ \A k \in FenceKey : k # key => ids2[k] = ids[k]
      /\ \A g \in HwId : g # h => saved2[g] = saved[g] /\ modem2[g] = modem[g]
      /\ saved2[h].client = key[1] /\ saved2[h].id = key[2] /\ saved2[h] # NoFence
      /\ \A j \in 1..Len(new) : ~Erases(new[j])
      /\ \A i \in 1..Len(q) : Erases(q[i]) => q[i].hw # h
  BY DEF IdsShape, KeySet, Elsewhere, Names, NoneErases, NoneErasesIt
<1> USE <1>1
<1>2. \A k \in FenceKey : ids[k] > 0 => /\ ids[k] \in HwId /\ ids[k] # h
  BY FenceBounds DEF NamesFences, HwId
<1>3. \A k \in FenceKey : ids2[k] > 0 => /\ saved2[ids2[k]] # NoFence
                                         /\ saved2[ids2[k]].client = k[1] /\ saved2[ids2[k]].id = k[2]
                                         /\ modem2[ids2[k]] # Unwatched
  <2> TAKE k \in FenceKey
  <2>1. CASE k = key BY <2>1
  <2>2. CASE k # key BY <1>2, <2>2 DEF NamesFences
  <2> QED BY <2>1, <2>2
<1>4. \A i \in 1..Len(q), k \in FenceKey : i > 1 /\ Erases(q[i]) => ids2[k] # q[i].hw
  BY DEF NamesFences
<1>5. \A i \in 1..Len(q2), k \in FenceKey : Erases(q2[i]) => ids2[k] # q2[i].hw
  <2>1. PICK d : d = 1 OBVIOUS
  <2>2. Moves(q, d, new, q2) BY <2>1
  <2>3. \A i \in 1..Len(q), k \in FenceKey : i > d /\ Erases(q[i]) => ids2[k] # q[i].hw BY <1>4, <2>1
  <2>4. \A j \in 1..Len(new), k \in FenceKey : Erases(new[j]) => ids2[k] # new[j].hw OBVIOUS
  <2> QED BY <2>2, <2>3, <2>4, ErasedKept
<1> QED BY <1>3, <1>5 DEF NamesFences

\* A fence is removed at the modem; the maps may keep it, for a client that is gone.
RemovedAs(h, saved, saved2, modem, modem2) ==
    /\ saved2 = saved \/ saved2 = [saved EXCEPT ![h] = NoFence]
    /\ modem2 = [modem EXCEPT ![h] = Unwatched]

\* The maps know the fences that are left.
LEMMA RemoveKeeps ==
    ASSUME NEW saved, SavedShape(saved), NEW modem, ModemShape(modem), Known(saved, modem),
           NEW h \in HwId, NEW saved2, NEW modem2, RemovedAs(h, saved, saved2, modem, modem2)
    PROVE  /\ SavedShape(saved2) /\ ModemShape(modem2) /\ Known(saved2, modem2)
           /\ Elsewhere(h, saved, saved2) /\ Elsewhere(h, modem, modem2)
           /\ \A g \in HwId : saved2[g] # NoFence => saved2[g] = saved[g]
<1>0. /\ saved2 = saved \/ saved2 = [saved EXCEPT ![h] = NoFence]
      /\ modem2 = [modem EXCEPT ![h] = Unwatched]
  BY DEF RemovedAs
<1> USE <1>0
<1>1. DOMAIN saved = HwId /\ DOMAIN modem = HwId BY DEF SavedShape, ModemShape
<1>2. modem2[h] = Unwatched /\ \A g \in HwId : g # h => modem2[g] = modem[g] BY <1>1
<1>3. Unwatched \in [paused : BOOLEAN, version : -1..1] BY DEF Unwatched
<1>4. ModemShape(modem2) BY <1>3 DEF ModemShape
<1>5. /\ SavedShape(saved2)
      /\ \A g \in HwId : g # h => saved2[g] = saved[g]
      /\ \A g \in HwId : saved2[g] # NoFence => saved2[g] = saved[g]
  BY <1>1 DEF SavedShape
<1>6. Known(saved2, modem2) BY <1>2, <1>5 DEF Known
<1> QED BY <1>2, <1>4, <1>5, <1>6 DEF Elsewhere

\* Ids lose the number of a fence that is removed, and only that.
KeysLeft(h, ids, ids2) == \A k \in FenceKey : ids2[k] # h /\ (ids2[k] = ids[k] \/ ids2[k] = 0)

\* No id keeps the number that is free again.
LEMMA RemovingNames ==
    ASSUME NEW q \in Seq(QueueItem), NEW new, NEW q2, Moves(q, 1, new, q2), NEW ids, NEW ids2,
           NEW saved, NEW saved2, NEW modem, NEW modem2, NEW h \in HwId,
           NamesFences(q, ids, saved, modem, TRUE), IdsShape(ids), KeysLeft(h, ids, ids2),
           Elsewhere(h, saved, saved2), Elsewhere(h, modem, modem2), NoneErases(new)
    PROVE  NamesFences(q2, ids2, saved2, modem2, TRUE)
<1>0. /\ ids \in [FenceKey -> 0..MaxFence]
      /\ \A k \in FenceKey : ids2[k] # h /\ (ids2[k] = ids[k] \/ ids2[k] = 0)
      /\ \A g \in HwId : g # h => saved2[g] = saved[g] /\ modem2[g] = modem[g]
      /\ \A j \in 1..Len(new) : ~Erases(new[j])
  BY DEF IdsShape, KeysLeft, Elsewhere, NoneErases
<1> USE <1>0
<1>1. \A k \in FenceKey : ids2[k] > 0 => ids2[k] = ids[k] /\ ids[k] \in HwId /\ ids[k] # h
  BY FenceBounds DEF HwId
<1>2. \A k \in FenceKey : ids2[k] > 0 => /\ saved2[ids2[k]] # NoFence
                                         /\ saved2[ids2[k]].client = k[1] /\ saved2[ids2[k]].id = k[2]
                                         /\ modem2[ids2[k]] # Unwatched
  BY <1>1 DEF NamesFences
<1>3. \A i \in 1..Len(q) : Erases(q[i]) => q[i].hw # 0
  <2> TAKE i \in 1..Len(q)
  <2>1. q[i] \in QueueItem OBVIOUS
  <2>2. Erases(q[i]) => q[i].hw \in HwId BY <2>1, ItemIs DEF Erases, FenceCall
  <2> QED BY <2>2, FenceBounds DEF HwId
<1>4. \A i \in 1..Len(q), k \in FenceKey : i > 1 /\ Erases(q[i]) => ids2[k] # q[i].hw
  BY <1>3 DEF NamesFences
<1>5. \A i \in 1..Len(q2), k \in FenceKey : Erases(q2[i]) => ids2[k] # q2[i].hw
  <2>1. PICK d : d = 1 OBVIOUS
  <2>2. Moves(q, d, new, q2) BY <2>1
  <2>3. \A i \in 1..Len(q), k \in FenceKey : i > d /\ Erases(q[i]) => ids2[k] # q[i].hw BY <1>4, <2>1
  <2>4. \A j \in 1..Len(new), k \in FenceKey : Erases(new[j]) => ids2[k] # new[j].hw OBVIOUS
  <2> QED BY <2>2, <2>3, <2>4, ErasedKept
<1> QED BY <1>2, <1>5 DEF NamesFences

\* A fence that the modem watches gets other options, in the maps too.
SameFences(saved, saved2, modem, modem2) ==
    \A g \in HwId : /\ saved2[g] # NoFence <=> saved[g] # NoFence
                    /\ modem2[g] # Unwatched <=> modem[g] # Unwatched
                    /\ saved2[g].id = saved[g].id /\ saved2[g].client = saved[g].client
ChangedAs(h, f, w, saved, saved2, modem, modem2) ==
    /\ f \in FenceRecord /\ f.id = saved[h].id /\ f.client = saved[h].client
    /\ w \in [paused : BOOLEAN, version : 0..1] /\ f.version = w.version
    /\ f.paused => w.paused
    /\ saved2 = [saved EXCEPT ![h] = f] /\ modem2 = [modem EXCEPT ![h] = w]

\* The maps have the new options.
LEMMA ChangeKeeps ==
    ASSUME NEW saved, SavedShape(saved), NEW modem, ModemShape(modem), Known(saved, modem),
           NEW h \in HwId, modem[h] # Unwatched, NEW f, NEW w, NEW saved2, NEW modem2,
           ChangedAs(h, f, w, saved, saved2, modem, modem2)
    PROVE  /\ SavedShape(saved2) /\ ModemShape(modem2) /\ Known(saved2, modem2)
           /\ SameFences(saved, saved2, modem, modem2)
<1>0. /\ f \in FenceRecord /\ f.id = saved[h].id /\ f.client = saved[h].client
      /\ w \in [paused : BOOLEAN, version : 0..1] /\ f.version = w.version /\ (f.paused => w.paused)
      /\ saved2 = [saved EXCEPT ![h] = f] /\ modem2 = [modem EXCEPT ![h] = w]
  BY DEF ChangedAs
<1> USE <1>0
<1>1. DOMAIN saved = HwId /\ DOMAIN modem = HwId BY DEF SavedShape, ModemShape
<1>2. /\ saved2[h] = f /\ modem2[h] = w
      /\ \A g \in HwId : g # h => saved2[g] = saved[g] /\ modem2[g] = modem[g]
  BY <1>1
<1>3. SavedShape(saved2) /\ ModemShape(modem2) BY DEF SavedShape, ModemShape
<1>4. f # NoFence BY FenceIsNone
<1>5. saved[h] # NoFence BY DEF Known
<1>6. w # Unwatched BY WatchedHas
<1>7. Known(saved2, modem2) BY <1>2, <1>4 DEF Known
<1> QED BY <1>2, <1>3, <1>4, <1>5, <1>6, <1>7 DEF SameFences

\* Names stay when the maps and the modem keep their fences.
LEMMA ChangingNames ==
    ASSUME NEW q \in Seq(QueueItem), NEW new, NEW q2, Moves(q, 1, new, q2), NEW ids,
           NEW saved, NEW saved2, NEW modem, NEW modem2,
           NamesFences(q, ids, saved, modem, TRUE), IdsShape(ids),
           SameFences(saved, saved2, modem, modem2), NoneErases(new)
    PROVE  NamesFences(q2, ids, saved2, modem2, TRUE)
<1>1. \A k \in FenceKey : ids[k] > 0 => ids[k] \in HwId BY FenceBounds DEF HwId, IdsShape
<1>2. NamesFences(q, ids, saved2, modem2, TRUE) BY <1>1 DEF NamesFences, SameFences
<1>3. PICK d : d = 1 OBVIOUS
<1>4. Moves(q, d, new, q2) BY <1>3
<1> QED BY <1>2, <1>4, NamesLeft DEF NoneErases

-----------------------------------------------------------------------------
(* The modem does a request *)

\* The request at the head of the queue.
LEMMA HeadRequest ==
    ASSUME Shapes, fenceQueue # <<>>, NEW r, r = Head(fenceQueue), r.op # "turn"
    PROVE  /\ r \in QueueItem /\ r = fenceQueue[1] /\ 1 \in 1..Len(fenceQueue)
           /\ PartOf(r, fenceCalls, nextFenceCall)
           /\ r.op \in {"add", "readd"} => /\ r.key \in FenceKey /\ r.version \in 0..1
                                           /\ Adds(r, fenceCalls) /\ AddedId(r, fenceCalls) = r.key[2]
           /\ r.op \notin {"add", "readd"} => /\ r.op \in {"remove", "pause", "resume", "modify"}
                                              /\ r.hw \in HwId
           /\ r.op = "modify" => r.call # 0 /\ r.version \in 0..1
<1>1. fenceQueue \in Seq(QueueItem) BY DEF Shapes
<1>2. r \in QueueItem /\ r = fenceQueue[1] /\ 1 \in 1..Len(fenceQueue) BY <1>1, HeadLeft
<1>3. PartOf(r, fenceCalls, nextFenceCall) BY <1>2 DEF Shapes
<1>4. CASE r.call \in FenceCall /\ r.op \in CallOps /\ r.key \in FenceKey /\ r.version \in 0..1 /\ r.hw \in 0..MaxFence
  <2>1. r.call > 0 BY <1>4 DEF FenceCall
  <2>2. r.op # "add" => r.hw > 0 BY <1>3, <2>1 DEF PartOf
  <2>3. r.op # "add" => r.hw \in HwId BY <1>4, <2>2, FenceBounds DEF HwId
  <2> QED BY <1>2, <1>3, <1>4, <2>1, <2>3 DEF CallOps, Adds, AddedId
<1>5. CASE /\ r.call = 0
           /\ \/ r.op = "remove" /\ r.hw \in HwId
              \/ r.op \in {"pause", "resume"} /\ r.hw \in HwId
              \/ r.op = "readd" /\ r.key \in FenceKey /\ r.version \in 0..1
  BY <1>2, <1>3, <1>5 DEF Adds, AddedId
<1> QED BY <1>2, <1>4, <1>5, ItemIs

\* The number a new fence gets.
LEMMA FreeHwIs ==
    ASSUME FenceInv, fenceQueue # <<>>, NEW r, r = Head(fenceQueue), r.op \in {"add", "readd"}
    PROVE  FreeHw \in HwId /\ watched[FreeHw] = Unwatched
<1>1. Shapes BY DEF FenceInv
<1>2. /\ r = fenceQueue[1] /\ 1 \in 1..Len(fenceQueue) /\ r.key \in FenceKey
      /\ Adds(r, fenceCalls) /\ AddedId(r, fenceCalls) = r.key[2]
  BY <1>1, HeadRequest
<1>3. PICK a \in FenceId : a = r.key[2] BY <1>2 DEF FenceKey
<1>4. AddedOnce(fenceQueue, fenceCalls, mGeofences, nextFence) BY DEF FenceInv
<1>5. SavedShape(mGeofences) /\ Known(mGeofences, watched)
  BY <1>1 DEF Shapes, SavedShape, FenceInv, WatchedIsKnown, Known
<1>6. \A h \in HwId : mGeofences[h] # NoFence => mGeofences[h].id # a
  BY <1>2, <1>3, <1>4 DEF AddedOnce
<1>7. \A h, g \in HwId : mGeofences[h] # NoFence /\ mGeofences[g] # NoFence /\ mGeofences[h].id = mGeofences[g].id
                            => h = g
  BY <1>4 DEF AddedOnce
<1>8. \E h \in HwId : watched[h] = Unwatched /\ \A g \in HwId : g < h => watched[g] # Unwatched
  BY <1>5, <1>6, <1>7, FreeNumber
<1> QED BY <1>8 DEF FreeHw

\* What the request's success does to the queue and the calls.
LEMMA DoneQueue ==
    ASSUME FenceInv, FenceDone, NEW r, r = Head(fenceQueue), NEW h \in HwId,
           r.op \in {"add", "readd"} => h = FreeHw
    PROVE  \E new \in Seq(QueueItem) :
              /\ \A j \in 1..Len(new) : new[j].call = 0 /\ new[j].op = "pause"
              /\ Moves(fenceQueue, 1, new, fenceQueue') /\ fenceQueue' \in Seq(QueueItem)
              /\ \A k \in 1..Len(fenceQueue') : PartOf(fenceQueue'[k], fenceCalls', nextFenceCall')
              /\ PartsOnce(fenceQueue') /\ Replies'
              /\ CallsShape(fenceCalls', nextFenceCall') /\ SameCalls(fenceCalls, fenceCalls', nextFenceCall)
<1>1. Shapes /\ PartsOnce(fenceQueue) /\ Replies BY DEF FenceInv
<1>2. fenceQueue # <<>> /\ r.op # "turn" BY DEF FenceDone
<1>3. UNCHANGED <<fenceCbs, nextFenceCall>> BY DEF FenceDone
<1>4. PICK calls2 : calls2 = fenceCalls' OBVIOUS
<1>5. AnswerOf(r, fenceCalls, calls2)
  <2>1. "success" \in FenceError BY DEF FenceError
  <2>2. calls2 = IF r.call = 0 THEN fenceCalls
                 ELSE [ItemDone(fenceCalls, r.call, r.item, "success") EXCEPT ![r.call].done = @ \cup {r.item}]
    BY <1>4 DEF FenceDone
  <2> QED BY <2>1, <2>2 DEF AnswerOf
<1>6. /\ CallsShape(calls2, nextFenceCall) /\ SameCalls(fenceCalls, calls2, nextFenceCall)
      /\ ResultNoted(r, fenceCalls, calls2, fenceCbs)
  BY <1>1, <1>2, <1>5, AnswerNoted
<1>7. PICK new \in Seq(QueueItem) : /\ fenceQueue' = Tail(fenceQueue) \o new
                                    /\ \A j \in 1..Len(new) : new[j].call = 0 /\ new[j].op = "pause"
  <2>1. CASE r.op = "readd" /\ r.paused
    <3>1. r.key \in FenceKey BY <1>1, <1>2, <2>1, HeadRequest
    <3> DEFINE p == [op |-> "pause", call |-> 0, hw |-> h, key |-> r.key]
    <3>2. p \in QueueItem BY <3>1 DEF QueueItem, PauseItem
    <3>3. p.call = 0 /\ p.op = "pause" OBVIOUS
    <3>4. fenceQueue' = Tail(fenceQueue) \o <<p>> BY <2>1 DEF FenceDone
    <3> HIDE DEF p
    <3>5. <<p>> \in Seq(QueueItem) /\ \A j \in 1..Len(<<p>>) : <<p>>[j].call = 0 /\ <<p>>[j].op = "pause"
      BY <3>2, <3>3
    <3> QED BY <3>4, <3>5, Zenon
  <2>2. CASE ~(r.op = "readd" /\ r.paused)
    <3>1. fenceQueue' = Tail(fenceQueue) \o <<>> BY <2>2 DEF FenceDone
    <3>2. <<>> \in Seq(QueueItem) /\ \A j \in 1..Len(<<>>) : <<>>[j].call = 0 /\ <<>>[j].op = "pause"
      OBVIOUS
    <3> QED BY <3>1, <3>2, Zenon
  <2> QED BY <2>1, <2>2
<1>8. /\ fenceQueue' \in Seq(QueueItem) /\ Moves(fenceQueue, 1, new, fenceQueue')
      /\ \A k \in 1..Len(fenceQueue') : PartOf(fenceQueue'[k], fenceCalls', nextFenceCall')
      /\ PartsOnce(fenceQueue') /\ Replies'
  BY <1>1, <1>2, <1>3, <1>4, <1>6, <1>7, HeadDone
<1> QED BY <1>3, <1>4, <1>6, <1>7, <1>8

\* The part of the invariant about the maps and the modem.
MapsInv ==
    /\ SavedShape(mGeofences) /\ ModemShape(watched) /\ mGeofenceIds \in [FenceKey -> 0..MaxFence]
    /\ Known(mGeofences, watched)
    /\ AddedOnce(fenceQueue, fenceCalls, mGeofences, nextFence)
    /\ ~crossed => NamesFences(fenceQueue, mGeofenceIds, mGeofences, watched, fenceUp)

\* FenceInv says it.
LEMMA FenceMaps ==
    ASSUME FenceInv
    PROVE  MapsInv
BY DEF FenceInv, MapsInv, Shapes, SavedShape, ModemShape, Known, WatchedIsKnown

\* Names, while the modem is up.
LEMMA UpNames ==
    ASSUME NEW q, NEW ids, NEW saved, NEW modem, NEW up \in BOOLEAN, up
    PROVE  NamesFences(q, ids, saved, modem, up) <=> NamesFences(q, ids, saved, modem, TRUE)
BY DEF NamesFences

\* FenceDone of a request to add a fence, or to add it again.
LEMMA AddDone ==
    ASSUME FenceInv, FenceDone, NEW r, r = Head(fenceQueue), r.op \in {"add", "readd"},
           NEW new \in Seq(QueueItem), \A j \in 1..Len(new) : new[j].call = 0 /\ new[j].op = "pause",
           Moves(fenceQueue, 1, new, fenceQueue'), SameCalls(fenceCalls, fenceCalls', nextFenceCall)
    PROVE  MapsInv'
<1>1. Shapes /\ MapsInv BY FenceMaps DEF FenceInv
<1>2. fenceQueue # <<>> /\ r.op # "turn" /\ fenceUp BY DEF FenceDone
<1>3. /\ r = fenceQueue[1] /\ 1 \in 1..Len(fenceQueue) /\ r.key \in FenceKey /\ r.version \in 0..1
      /\ Adds(r, fenceCalls) /\ AddedId(r, fenceCalls) = r.key[2]
  BY <1>1, <1>2, HeadRequest
<1>4. PICK h \in HwId : h = FreeHw /\ watched[h] = Unwatched BY <1>2, FreeHwIs
<1>5. PICK c \in FenceClient, a \in FenceId, version \in 0..1 :
         c = r.key[1] /\ a = r.key[2] /\ version = r.version
  BY <1>3 DEF FenceKey
<1>6. PICK saved2, modem2, ids2, q2, calls2 :
         /\ saved2 = mGeofences' /\ modem2 = watched' /\ ids2 = mGeofenceIds'
         /\ q2 = fenceQueue' /\ calls2 = fenceCalls'
  OBVIOUS
<1>7. /\ saved2 = [mGeofences EXCEPT ![h] = [client |-> c, id |-> a, version |-> version, paused |-> FALSE]]
      /\ ids2 = [mGeofenceIds EXCEPT ![r.key] = h]
      /\ modem2 = [watched EXCEPT ![h] = [paused |-> FALSE, version |-> version]]
  <2>1. Saved(r, h) BY <1>2, <1>4 DEF FenceDone
  <2>2. watched' = [watched EXCEPT ![h] = [paused |-> FALSE, version |-> r.version]]
    BY <1>2, <1>4 DEF FenceDone, Watch
  <2> QED BY <1>5, <1>6, <2>1, <2>2 DEF Saved
<1>8. /\ SavedShape(saved2) /\ ModemShape(modem2) /\ Known(saved2, modem2)
      /\ Elsewhere(h, mGeofences, saved2) /\ Elsewhere(h, watched, modem2)
      /\ Names(h, <<c, a>>, saved2) /\ modem2[h] # Unwatched
  <2>1. SavedShape(mGeofences) /\ ModemShape(watched) /\ Known(mGeofences, watched) BY <1>1 DEF MapsInv
  <2>2. SavedAs(h, c, a, version, mGeofences, saved2, watched, modem2) BY <1>7 DEF SavedAs
  <2> QED BY <1>4, <2>1, <2>2, SaveKeeps
<1>9. /\ ids2 \in [FenceKey -> 0..MaxFence] /\ ids2[r.key] = h
      /\ \A k \in FenceKey : k # r.key => ids2[k] = mGeofenceIds[k]
  BY <1>1, <1>3, <1>7, FenceBounds DEF MapsInv, HwId
<1>10. NoneAdds(new, calls2) /\ NoneErases(new) BY DEF NoneAdds, NoneErases, Adds, Erases
<1>11. fenceQueue \in Seq(QueueItem) /\ nextFence \in Nat /\ fenceUp \in BOOLEAN
       /\ AllParts(fenceQueue, fenceCalls, nextFenceCall)
  BY <1>1, FenceBounds DEF Shapes, AllParts
<1>0. PICK key \in FenceKey : key = r.key /\ key = <<c, a>> BY <1>3, <1>5 DEF FenceKey
<1>12. Moves(fenceQueue, 1, new, q2) /\ SameCalls(fenceCalls, calls2, nextFenceCall) BY <1>6
<1>13. AddedOnce(q2, calls2, saved2, nextFence)
  <2>1. AddedOnce(fenceQueue, fenceCalls, mGeofences, nextFence) BY <1>1 DEF MapsInv
  <2>2. HeadAdds(fenceQueue, fenceCalls, key[2]) BY <1>0, <1>3 DEF HeadAdds
  <2>3. Names(h, key, saved2) BY <1>0, <1>8
  <2> QED BY <1>8, <1>10, <1>11, <1>12, <2>1, <2>2, <2>3, AddingKeeps
<1>14. UNCHANGED <<nextFence, fenceUp>> BY DEF FenceDone
<1>15. ASSUME ~crossed' PROVE NamesFences(q2, ids2, saved2, modem2, TRUE)
  <2>1. ~crossed /\ ~NumberInUse(h) BY <1>2, <1>4, <1>15 DEF FenceDone
  <2>2. NamesFences(fenceQueue, mGeofenceIds, mGeofences, watched, fenceUp) BY <1>1, <2>1 DEF MapsInv
  <2>3. NamesFences(fenceQueue, mGeofenceIds, mGeofences, watched, TRUE)
    BY <1>2, <1>11, <2>2, UpNames
  <2>4. NoneErasesIt(fenceQueue, h)
    <3>1. DOMAIN fenceQueue = 1..Len(fenceQueue) BY <1>11
    <3> QED BY <2>1, <3>1 DEF NumberInUse, Erases, NoneErasesIt
  <2>5. IdsShape(mGeofenceIds) BY <1>1 DEF MapsInv, IdsShape
  <2>6. KeySet(key, h, mGeofenceIds, ids2) BY <1>0, <1>9 DEF KeySet
  <2>7. Names(h, key, saved2) BY <1>0, <1>8
  <2> QED BY <1>4, <1>8, <1>10, <1>11, <1>12, <2>3, <2>4, <2>5, <2>6, <2>7, AddingNames
<1>16. ~crossed' => NamesFences(fenceQueue', mGeofenceIds', mGeofences', watched', fenceUp')
  <2> SUFFICES ASSUME ~crossed' PROVE NamesFences(q2, ids2, saved2, modem2, fenceUp)
    BY <1>6, <1>14
  <2> QED BY <1>2, <1>11, <1>15, UpNames
<1> QED BY <1>6, <1>8, <1>9, <1>13, <1>14, <1>16 DEF MapsInv

\* FenceDone of a removal.
LEMMA RemoveDone ==
    ASSUME FenceInv, FenceDone, NEW r, r = Head(fenceQueue), r.op = "remove",
           NEW new \in Seq(QueueItem), \A j \in 1..Len(new) : new[j].call = 0 /\ new[j].op = "pause",
           Moves(fenceQueue, 1, new, fenceQueue'), SameCalls(fenceCalls, fenceCalls', nextFenceCall)
    PROVE  MapsInv'
<1>1. Shapes /\ MapsInv BY FenceMaps DEF FenceInv
<1>2. fenceQueue # <<>> /\ r.op # "turn" /\ fenceUp /\ watched[r.hw] # Unwatched BY DEF FenceDone
<1>3. r = fenceQueue[1] /\ 1 \in 1..Len(fenceQueue) /\ r.hw \in HwId /\ r \in QueueItem
  BY <1>1, <1>2, HeadRequest
<1>4. PICK h \in HwId : h = r.hw BY <1>3
<1>6. PICK saved2, modem2, ids2, q2, calls2 :
         /\ saved2 = mGeofences' /\ modem2 = watched' /\ ids2 = mGeofenceIds'
         /\ q2 = fenceQueue' /\ calls2 = fenceCalls'
  OBVIOUS
<1>5. SavedShape(mGeofences) /\ ModemShape(watched) /\ Known(mGeofences, watched)
      /\ mGeofenceIds \in [FenceKey -> 0..MaxFence]
  BY <1>1 DEF MapsInv
<1>7. mGeofences[h] \in FenceRecord /\ mGeofences[h] # NoFence BY <1>2, <1>4, <1>5, FenceOf
<1>8. KeyOf(h) \in FenceKey BY <1>7 DEF KeyOf, FenceRecord, FenceKey
<1>9. PICK known \in BOOLEAN : known <=> (r.call = 0 \/ mGeofenceIds[KeyOf(h)] > 0) OBVIOUS
<1>10. Removed(r) BY <1>2 DEF FenceDone
<1>11. /\ saved2 = IF known THEN [mGeofences EXCEPT ![h] = NoFence] ELSE mGeofences
       /\ ids2 = IF known /\ r.call > 0 THEN [mGeofenceIds EXCEPT ![KeyOf(h)] = 0] ELSE mGeofenceIds
  BY <1>4, <1>6, <1>7, <1>9, <1>10 DEF Removed
<1>12. modem2 = [watched EXCEPT ![h] = Unwatched] BY <1>4, <1>6 DEF FenceDone, Watch
<1>13. RemovedAs(h, mGeofences, saved2, watched, modem2) BY <1>11, <1>12 DEF RemovedAs
<1>14. /\ SavedShape(saved2) /\ ModemShape(modem2) /\ Known(saved2, modem2)
       /\ Elsewhere(h, mGeofences, saved2) /\ Elsewhere(h, watched, modem2)
       /\ \A g \in HwId : saved2[g] # NoFence => saved2[g] = mGeofences[g]
  BY <1>5, <1>13, RemoveKeeps
<1>15. r.call \in Nat BY <1>3, ItemIs DEF FenceCall
<1>16. /\ ids2 \in [FenceKey -> 0..MaxFence]
       /\ \A k \in FenceKey : ids2[k] = mGeofenceIds[k] \/ ids2[k] = 0
  BY <1>5, <1>8, <1>11, FenceBounds
<1>17. fenceQueue \in Seq(QueueItem) /\ nextFence \in Nat /\ fenceUp \in BOOLEAN
       /\ \A i \in 1..Len(fenceQueue) : PartOf(fenceQueue[i], fenceCalls, nextFenceCall)
  BY <1>1, FenceBounds DEF Shapes
<1>18. Moves(fenceQueue, 1, new, q2) /\ SameCalls(fenceCalls, calls2, nextFenceCall) BY <1>6
<1>19. \A j \in 1..Len(new) : ~Adds(new[j], calls2) /\ ~Erases(new[j]) BY DEF Adds, Erases
<1>20. AddedOnce(q2, calls2, saved2, nextFence)
  <2>1. AddedOnce(fenceQueue, fenceCalls, mGeofences, nextFence) BY <1>1 DEF MapsInv
  <2>2. PICK d : d = 1 OBVIOUS
  <2>3. Moves(fenceQueue, d, new, q2) BY <1>18, <2>2
  <2>4. \A j \in 1..Len(new) : Adds(new[j], calls2) =>
           /\ d = 1 /\ j = 1 /\ Adds(fenceQueue[1], fenceCalls)
           /\ AddedId(new[j], calls2) = AddedId(fenceQueue[1], fenceCalls)
    BY <1>19
  <2>5. \A g \in HwId : saved2[g] # NoFence => mGeofences[g] # NoFence /\ saved2[g].id = mGeofences[g].id
    BY <1>14
  <2> HIDE <1>11, <1>13
  <2> QED BY <1>17, <1>18, <2>1, <2>3, <2>4, <2>5, AddedOnceKept
<1>21. UNCHANGED <<nextFence, fenceUp>> BY DEF FenceDone
<1>22. ASSUME ~crossed' PROVE NamesFences(q2, ids2, saved2, modem2, TRUE)
  <2>1. ~crossed BY <1>22 DEF FenceDone
  <2>2. NamesFences(fenceQueue, mGeofenceIds, mGeofences, watched, fenceUp) BY <1>1, <2>1 DEF MapsInv
  <2>3. NamesFences(fenceQueue, mGeofenceIds, mGeofences, watched, TRUE)
    BY <1>2, <1>17, <2>2, UpNames
  <2>4. \A k \in FenceKey : ids2[k] # h
    <3> SUFFICES ASSUME NEW k \in FenceKey, ids2[k] = h PROVE FALSE OBVIOUS
    <3>1. h > 0 BY DEF HwId
    <3>2. mGeofenceIds[k] = h BY <1>16, <3>1
    <3>3. mGeofences[h].client = k[1] /\ mGeofences[h].id = k[2] BY <2>3, <3>1, <3>2 DEF NamesFences
    <3>4. k = KeyOf(h) BY <3>3 DEF KeyOf, FenceKey
    <3>5. CASE r.call = 0
      <4>1. Erases(fenceQueue[1]) /\ fenceQueue[1].hw = h BY <1>3, <1>4, <3>5 DEF Erases
      <4> QED BY <1>3, <2>3, <3>2, <4>1 DEF NamesFences
    <3>6. CASE r.call # 0
      <4>1. r.call > 0 /\ known BY <1>9, <1>15, <3>1, <3>2, <3>4, <3>6
      <4>2. ids2[k] = 0 BY <1>5, <1>8, <1>11, <3>4, <4>1
      <4> QED BY <3>1, <4>2
    <3> QED BY <3>5, <3>6
  <2>5. KeysLeft(h, mGeofenceIds, ids2) BY <1>16, <2>4 DEF KeysLeft
  <2>6. IdsShape(mGeofenceIds) /\ NoneErases(new) BY <1>5, <1>19 DEF IdsShape, NoneErases
  <2> QED BY <1>14, <1>17, <1>18, <2>3, <2>5, <2>6, RemovingNames
<1>23. ~crossed' => NamesFences(fenceQueue', mGeofenceIds', mGeofences', watched', fenceUp')
  <2> SUFFICES ASSUME ~crossed' PROVE NamesFences(q2, ids2, saved2, modem2, fenceUp)
    BY <1>6, <1>21
  <2> QED BY <1>2, <1>17, <1>22, UpNames
<1> QED BY <1>6, <1>14, <1>16, <1>20, <1>21, <1>23 DEF MapsInv

\* FenceDone of a pause, a resumption or a change of options.
LEMMA ChangeDone ==
    ASSUME FenceInv, FenceDone, NEW r, r = Head(fenceQueue), r.op \in {"pause", "resume", "modify"},
           NEW new \in Seq(QueueItem), \A j \in 1..Len(new) : new[j].call = 0 /\ new[j].op = "pause",
           Moves(fenceQueue, 1, new, fenceQueue'), SameCalls(fenceCalls, fenceCalls', nextFenceCall)
    PROVE  MapsInv'
<1>1. Shapes /\ MapsInv BY FenceMaps DEF FenceInv
<1>2. fenceQueue # <<>> /\ r.op # "turn" /\ fenceUp /\ watched[r.hw] # Unwatched BY DEF FenceDone
<1>3. /\ r = fenceQueue[1] /\ r.hw \in HwId /\ r \in QueueItem
      /\ r.op = "modify" => r.call # 0 /\ r.version \in 0..1
  BY <1>1, <1>2, HeadRequest
<1>4. PICK h \in HwId : h = r.hw BY <1>3
<1>5. SavedShape(mGeofences) /\ ModemShape(watched) /\ Known(mGeofences, watched) /\ IdsShape(mGeofenceIds)
  BY <1>1 DEF MapsInv, IdsShape
<1>6. PICK saved2, modem2, q2, calls2 :
         /\ saved2 = mGeofences' /\ modem2 = watched' /\ q2 = fenceQueue' /\ calls2 = fenceCalls'
  OBVIOUS
<1>7. /\ mGeofences[h] \in FenceRecord /\ mGeofences[h] # NoFence /\ watched[h].version \in 0..1
      /\ watched[h] \in [paused : BOOLEAN, version : -1..1]
      /\ mGeofences[h].version = watched[h].version /\ (mGeofences[h].paused => watched[h].paused)
  <2>1. watched[h] # Unwatched BY <1>2, <1>4
  <2>2. mGeofences[h] \in FenceRecord /\ mGeofences[h] # NoFence /\ watched[h].version \in 0..1
    BY <1>5, <2>1, FenceOf
  <2> QED BY <1>5, <2>1, <2>2 DEF Known, ModemShape
<1>8. \E f, w : ChangedAs(h, f, w, mGeofences, saved2, watched, modem2)
  <2>1. DOMAIN mGeofences = HwId /\ DOMAIN watched = HwId BY <1>5 DEF SavedShape, ModemShape
  <2>2. CASE r.op = "modify"
    <3> DEFINE f == [mGeofences[h] EXCEPT !.version = r.version]
               w == [watched[h] EXCEPT !.version = r.version]
    <3>1. modem2 = [watched EXCEPT ![h] = w] BY <1>4, <1>6, <1>7, <2>1, <2>2 DEF FenceDone, Watch
    <3>2. saved2 = [mGeofences EXCEPT ![h] = f]
      BY <1>2, <1>3, <1>4, <1>6, <1>7, <2>1, <2>2 DEF FenceDone, Changed
    <3>3. /\ f \in FenceRecord /\ f.id = mGeofences[h].id /\ f.client = mGeofences[h].client
          /\ f.version = r.version /\ (f.paused => mGeofences[h].paused)
      BY <1>3, <1>7, <2>2 DEF FenceRecord
    <3>4. /\ w \in [paused : BOOLEAN, version : 0..1] /\ w.version = r.version
          /\ watched[h].paused => w.paused
      BY <1>3, <1>7, <2>2
    <3> HIDE DEF f, w
    <3>5. ChangedAs(h, f, w, mGeofences, saved2, watched, modem2)
      BY <1>7, <3>1, <3>2, <3>3, <3>4 DEF ChangedAs
    <3> QED BY <3>5
  <2>3. CASE r.op \in {"pause", "resume"}
    <3> DEFINE p == r.op = "pause"
               f == IF r.call = 0 /\ r.key # <<>> THEN mGeofences[h] ELSE [mGeofences[h] EXCEPT !.paused = p]
               w == [watched[h] EXCEPT !.paused = p]
    <3>1. modem2 = [watched EXCEPT ![h] = w] BY <1>4, <1>6, <1>7, <2>1, <2>3 DEF FenceDone, Watch
    <3>2. saved2 = [mGeofences EXCEPT ![h] = f]
      <4>1. CASE r.call = 0 /\ r.key # <<>>
        <5>1. saved2 = mGeofences BY <1>6, <2>3, <4>1 DEF FenceDone, fenceMaps
        <5>2. f = mGeofences[h] BY <4>1
        <5>3. [mGeofences EXCEPT ![h] = mGeofences[h]] = mGeofences BY <1>5 DEF SavedShape
        <5> HIDE DEF f
        <5> QED BY <5>1, <5>2, <5>3
      <4>2. CASE ~(r.call = 0 /\ r.key # <<>>)
        BY <1>2, <1>4, <1>6, <1>7, <2>1, <2>3, <4>2 DEF FenceDone, Changed
      <4> QED BY <4>1, <4>2
    <3>3. /\ f \in FenceRecord /\ f.id = mGeofences[h].id /\ f.client = mGeofences[h].client
          /\ f.version = mGeofences[h].version
      BY <1>7 DEF FenceRecord
    <3>4. w \in [paused : BOOLEAN, version : 0..1] /\ w.version = watched[h].version /\ (w.paused <=> p)
      BY <1>7
    <3>5. f.paused => p
      <4>1. CASE r.call = 0 /\ r.key # <<>>
        <5>1. r.op = "pause" BY <1>3, <2>3, <4>1, ItemIs DEF FenceCall
        <5> QED BY <5>1
      <4>2. CASE ~(r.call = 0 /\ r.key # <<>>) BY <1>7, <4>2 DEF FenceRecord
      <4> QED BY <4>1, <4>2
    <3> HIDE DEF f, w, p
    <3>6. ChangedAs(h, f, w, mGeofences, saved2, watched, modem2)
      BY <1>7, <3>1, <3>2, <3>3, <3>4, <3>5 DEF ChangedAs
    <3> QED BY <3>6
  <2> QED BY <2>2, <2>3
<1>9. /\ SavedShape(saved2) /\ ModemShape(modem2) /\ Known(saved2, modem2)
      /\ SameFences(mGeofences, saved2, watched, modem2)
  <2>1. PICK f, w : ChangedAs(h, f, w, mGeofences, saved2, watched, modem2) BY <1>8
  <2>2. watched[h] # Unwatched BY <1>2, <1>4
  <2> QED BY <1>5, <2>1, <2>2, ChangeKeeps
<1>10. UNCHANGED <<nextFence, fenceUp, mGeofenceIds>> BY DEF FenceDone, Changed, fenceMaps
<1>11. fenceQueue \in Seq(QueueItem) /\ nextFence \in Nat /\ fenceUp \in BOOLEAN
       /\ \A i \in 1..Len(fenceQueue) : PartOf(fenceQueue[i], fenceCalls, nextFenceCall)
  BY <1>1, FenceBounds DEF Shapes
<1>12. Moves(fenceQueue, 1, new, q2) /\ SameCalls(fenceCalls, calls2, nextFenceCall) BY <1>6
<1>13. NoneErases(new) /\ \A j \in 1..Len(new) : ~Adds(new[j], calls2) BY DEF NoneErases, Erases, Adds
<1>14. AddedOnce(q2, calls2, saved2, nextFence)
  <2>1. AddedOnce(fenceQueue, fenceCalls, mGeofences, nextFence) BY <1>1 DEF MapsInv
  <2>2. PICK d : d = 1 OBVIOUS
  <2>3. Moves(fenceQueue, d, new, q2) BY <1>12, <2>2
  <2>4. \A j \in 1..Len(new) : Adds(new[j], calls2) =>
           /\ d = 1 /\ j = 1 /\ Adds(fenceQueue[1], fenceCalls)
           /\ AddedId(new[j], calls2) = AddedId(fenceQueue[1], fenceCalls)
    BY <1>13
  <2>5. \A g \in HwId : saved2[g] # NoFence => mGeofences[g] # NoFence /\ saved2[g].id = mGeofences[g].id
    BY <1>9 DEF SameFences
  <2> QED BY <1>11, <1>12, <2>1, <2>3, <2>4, <2>5, AddedOnceKept
<1>15. ASSUME ~crossed' PROVE NamesFences(q2, mGeofenceIds, saved2, modem2, TRUE)
  <2>1. ~crossed BY <1>15 DEF FenceDone
  <2>2. NamesFences(fenceQueue, mGeofenceIds, mGeofences, watched, fenceUp) BY <1>1, <2>1 DEF MapsInv
  <2>3. NamesFences(fenceQueue, mGeofenceIds, mGeofences, watched, TRUE)
    BY <1>2, <1>11, <2>2, UpNames
  <2> QED BY <1>5, <1>9, <1>11, <1>12, <1>13, <2>3, ChangingNames
<1>16. ~crossed' => NamesFences(fenceQueue', mGeofenceIds', mGeofences', watched', fenceUp')
  <2> SUFFICES ASSUME ~crossed' PROVE NamesFences(q2, mGeofenceIds, saved2, modem2, fenceUp)
    BY <1>6, <1>10
  <2> QED BY <1>2, <1>11, <1>15, UpNames
<1> QED BY <1>5, <1>6, <1>9, <1>10, <1>14, <1>16 DEF MapsInv, IdsShape

\* FenceDone: one of the three has changed the maps, and the queue moves alike in all.
LEMMA FenceDoneKeeps ==
    ASSUME FenceInv, FenceDone
    PROVE  FenceInv'
<1>1. PICK r : r = Head(fenceQueue) OBVIOUS
<1>2. Shapes BY DEF FenceInv
<1>3. fenceQueue # <<>> /\ r.op # "turn" /\ fenceUp BY <1>1 DEF FenceDone
<1>4. r.op \notin {"add", "readd"} => r.hw \in HwId /\ r.op \in {"remove", "pause", "resume", "modify"}
  BY <1>1, <1>2, <1>3, HeadRequest
<1>5. \E h \in HwId : r.op \in {"add", "readd"} => h = FreeHw
  <2>1. CASE r.op \in {"add", "readd"} BY <1>1, <1>3, <2>1, FreeHwIs
  <2>2. CASE r.op \notin {"add", "readd"} BY <1>4, <2>2
  <2> QED BY <2>1, <2>2
<1>6. PICK h \in HwId : r.op \in {"add", "readd"} => h = FreeHw BY <1>5
<1>7. PICK new \in Seq(QueueItem) :
              /\ \A j \in 1..Len(new) : new[j].call = 0 /\ new[j].op = "pause"
              /\ Moves(fenceQueue, 1, new, fenceQueue') /\ fenceQueue' \in Seq(QueueItem)
              /\ \A k \in 1..Len(fenceQueue') : PartOf(fenceQueue'[k], fenceCalls', nextFenceCall')
              /\ PartsOnce(fenceQueue') /\ Replies'
              /\ CallsShape(fenceCalls', nextFenceCall') /\ SameCalls(fenceCalls, fenceCalls', nextFenceCall)
  BY <1>1, <1>6, DoneQueue
<1>8. MapsInv'
  <2>1. CASE r.op \in {"add", "readd"} BY <1>1, <1>7, <2>1, AddDone
  <2>2. CASE r.op = "remove" BY <1>1, <1>7, <2>2, RemoveDone
  <2>3. CASE r.op \in {"pause", "resume", "modify"} BY <1>1, <1>7, <2>3, ChangeDone
  <2> QED BY <1>4, <2>1, <2>2, <2>3
<1>9. UNCHANGED <<fenceCbs, fenceUp, nextFence, nextFenceCall>> BY DEF FenceDone
<1>10. crossed' \in BOOLEAN
  <2>1. crossed \in BOOLEAN BY <1>2 DEF Shapes
  <2> QED BY <2>1 DEF FenceDone
<1>11. Shapes' BY <1>2, <1>7, <1>8, <1>9, <1>10 DEF Shapes, MapsInv, SavedShape, ModemShape
<1>12. WatchedIsKnown' BY <1>8 DEF MapsInv, Known, WatchedIsKnown
<1>13. ModemKept' BY <1>3, <1>9 DEF ModemKept
<1> QED BY <1>7, <1>8, <1>11, <1>12, <1>13 DEF FenceInv, MapsInv

-----------------------------------------------------------------------------
(* Requests that no call has made *)

\* Requests of no call enter the queue; clients may leave.
LEMMA EnteredParts ==
    ASSUME Shapes, PartsOnce(fenceQueue), Replies, NEW new \in Seq(QueueItem),
           \A j \in 1..Len(new) : new[j].call = 0, fenceQueue' = fenceQueue \o new,
           UNCHANGED <<fenceCalls, nextFenceCall>>, fenceCbs' \subseteq fenceCbs
    PROVE  /\ fenceQueue' \in Seq(QueueItem) /\ Moves(fenceQueue, 0, new, fenceQueue')
           /\ \A k \in 1..Len(fenceQueue') : PartOf(fenceQueue'[k], fenceCalls', nextFenceCall')
           /\ PartsOnce(fenceQueue') /\ Replies'
<1>1. /\ fenceQueue \in Seq(QueueItem) /\ nextFenceCall \in Nat
      /\ \A i \in 1..Len(fenceQueue) : PartOf(fenceQueue[i], fenceCalls, nextFenceCall)
  BY FenceBounds DEF Shapes
<1>2. PICK q2 : q2 = fenceQueue' OBVIOUS
<1>3. q2 \in Seq(QueueItem) /\ Moves(fenceQueue, 0, new, q2) BY <1>1, <1>2, Entered
<1>4. PICK d : d = 0 OBVIOUS
<1>5. Moves(fenceQueue, d, new, q2) BY <1>3, <1>4
<1>6. SameCalls(fenceCalls, fenceCalls, nextFenceCall) BY DEF SameCalls
<1>7. \A k \in 1..Len(q2) : PartOf(q2[k], fenceCalls, nextFenceCall)
  <2>1. \A j \in 1..Len(new) : PartOf(new[j], fenceCalls, nextFenceCall) BY DEF PartOf
  <2>2. nextFenceCall <= nextFenceCall BY <1>1
  <2> QED BY <1>1, <1>5, <1>6, <2>1, <2>2, PartsKept
<1>8. PartsOnce(q2)
  <2>1. PartsOnce(new) BY DEF PartsOnce
  <2>2. \A i \in 1..Len(fenceQueue), j \in 1..Len(new) :
           i > d /\ new[j].call > 0 /\ fenceQueue[i].call = new[j].call => fenceQueue[i].item # new[j].item
    OBVIOUS
  <2> QED BY <1>5, <2>1, <2>2, PartsOnceKept
<1>9. ASSUME NEW m \in FenceCall, m < nextFenceCall, fenceCalls[m].client \in fenceCbs
      PROVE  RepliesOf(q2, fenceCalls, m)
  <2>1. RepliesOf(fenceQueue, fenceCalls, m) BY <1>9 DEF Replies
  <2>2. \A j \in 1..Len(new) : new[j].call # m BY DEF FenceCall
  <2>3. d = 1 => fenceQueue[1].call # m BY <1>4
  <2>4. fenceCalls[m] = fenceCalls[m] OBVIOUS
  <2> QED BY <1>1, <1>5, <2>1, <2>2, <2>3, <2>4, RepliesLeft
<1>10. Replies' BY <1>2, <1>9 DEF Replies
<1> QED BY <1>2, <1>3, <1>7, <1>8, <1>10

\* The parts of the invariant that a step of the maps and one of the queue prove.
LEMMA Together ==
    ASSUME Shapes, MapsInv', ModemKept', PartsOnce(fenceQueue'), Replies',
           CallsShape(fenceCalls', nextFenceCall'), fenceQueue' \in Seq(QueueItem),
           \A k \in 1..Len(fenceQueue') : PartOf(fenceQueue'[k], fenceCalls', nextFenceCall'),
           UNCHANGED <<nextFence, nextFenceCall>>, fenceCbs' \subseteq fenceCbs,
           fenceUp' \in BOOLEAN, crossed' \in BOOLEAN
    PROVE  FenceInv'
<1>1. Shapes' BY DEF Shapes, MapsInv, SavedShape, ModemShape
<1>2. WatchedIsKnown' BY DEF MapsInv, Known, WatchedIsKnown
<1> QED BY <1>1, <1>2 DEF FenceInv, MapsInv

\* Requests that add no fence leave the fences to be added.
LEMMA EnteredAdds ==
    ASSUME Shapes, AddedOnce(fenceQueue, fenceCalls, mGeofences, nextFence), NEW new, NEW q2,
           Moves(fenceQueue, 0, new, q2), NoneAdds(new, fenceCalls)
    PROVE  AddedOnce(q2, fenceCalls, mGeofences, nextFence)
<1>1. /\ fenceQueue \in Seq(QueueItem) /\ nextFence \in Nat
      /\ \A i \in 1..Len(fenceQueue) : PartOf(fenceQueue[i], fenceCalls, nextFenceCall)
  BY FenceBounds DEF Shapes
<1>2. PICK d : d = 0 OBVIOUS
<1>3. Moves(fenceQueue, d, new, q2) BY <1>2
<1>4. SameCalls(fenceCalls, fenceCalls, nextFenceCall) BY DEF SameCalls
<1>5. \A j \in 1..Len(new) : Adds(new[j], fenceCalls) =>
         /\ d = 1 /\ j = 1 /\ Adds(fenceQueue[1], fenceCalls)
         /\ AddedId(new[j], fenceCalls) = AddedId(fenceQueue[1], fenceCalls)
  BY DEF NoneAdds
<1>6. \A h \in HwId : mGeofences[h] # NoFence => mGeofences[h] # NoFence /\ mGeofences[h].id = mGeofences[h].id
  OBVIOUS
<1> QED BY <1>1, <1>3, <1>4, <1>5, <1>6, AddedOnceKept

\* The numbers of removals, when requests enter.
LEMMA EnteredErased ==
    ASSUME NEW q, NEW new, NEW q2, Moves(q, 0, new, q2), NEW ids2,
           \A i \in 1..Len(q), k \in FenceKey : Erases(q[i]) => ids2[k] # q[i].hw,
           \A j \in 1..Len(new), k \in FenceKey : Erases(new[j]) => ids2[k] # new[j].hw,
           NEW i \in 1..Len(q2), NEW k \in FenceKey, Erases(q2[i])
    PROVE  ids2[k] # q2[i].hw
<1>1. PICK d : d = 0 OBVIOUS
<1>2. Moves(q, d, new, q2) BY <1>1
<1> QED BY <1>2, ErasedKept

\* The ids of a client's fences, in their order.
LEMMA IdsInOrder ==
    ASSUME NEW S \in SUBSET FenceId
    PROVE  /\ Len(InOrder(S)) \in Nat /\ DOMAIN InOrder(S) = 1..Len(InOrder(S))
           /\ \A i \in 1..Len(InOrder(S)) : InOrder(S)[i] \in S
           /\ \A i, j \in 1..Len(InOrder(S)) : InOrder(S)[i] = InOrder(S)[j] => i = j
           /\ \A x \in S : Len(InOrder(S)) > 0
<1>1. S \in SUBSET Int /\ IsFiniteSet(S)
  <2>1. IsFiniteSet(FenceId) /\ FenceId \in SUBSET Int BY FenceBounds, FS_Interval DEF FenceId
  <2> QED BY <2>1, FS_Subset
<1> DEFINE n == Cardinality(S)
           seq == InOrder(S)
<1>2. /\ n \in Nat /\ DOMAIN seq = 1..n
      /\ \A i \in 1..n : seq[i] \in S /\ Cardinality({y \in S : y <= seq[i]}) = i
  BY <1>1, InOrderLists
<1>3. \A x \in S : n > 0 BY <1>1, <1>2, FS_EmptySet
<1>4. seq = [i \in 1..n |-> seq[i]] BY DEF InOrder
<1> HIDE DEF n, seq
<1>5. seq \in Seq(S) /\ Len(seq) = n
  <2>1. PICK g : g = seq OBVIOUS
  <2>2. \A i \in 1..n : g[i] \in S BY <1>2, <2>1
  <2>3. [i \in 1..n |-> g[i]] \in Seq(S) /\ Len([i \in 1..n |-> g[i]]) = n BY <1>2, <2>2
  <2> QED BY <1>4, <2>1, <2>3, Zenon
<1>6. \A i, j \in 1..n : seq[i] = seq[j] => i = j BY <1>2
<1> QED BY <1>2, <1>3, <1>5, <1>6 DEF seq

\* RemoveFenceClient: the ids are erased as the removals enter the queue.
LEMMA RemoveFenceClientKeeps ==
    ASSUME FenceInv, NEW c \in FenceClient, RemoveFenceClient(c)
    PROVE  FenceInv'
<1> DEFINE mine == InOrder({id \in FenceId : mGeofenceIds[<<c, id>>] > 0})
           new == [i \in DOMAIN mine |-> [op |-> "remove", call |-> 0, hw |-> mGeofenceIds[<<c, mine[i]>>]]]
<1>1. Shapes /\ PartsOnce(fenceQueue) /\ Replies /\ MapsInv /\ ModemKept BY FenceMaps DEF FenceInv
<1>2. /\ fenceQueue' = fenceQueue \o new /\ fenceCbs' = fenceCbs \ {c}
      /\ mGeofenceIds' = [k \in FenceKey |-> IF k[1] = c THEN 0 ELSE mGeofenceIds[k]]
      /\ UNCHANGED <<mGeofences, fencePower, fenceUp, fenceCalls, watched, fenceCounts>>
  BY DEF RemoveFenceClient
<1>3. UNCHANGED <<nextFence, nextFenceCall, crossed>> BY <1>2 DEF fenceCounts
<1>4. /\ Len(mine) \in Nat /\ DOMAIN mine = 1..Len(mine)
      /\ \A i \in 1..Len(mine) : mine[i] \in {id \in FenceId : mGeofenceIds[<<c, id>>] > 0}
  BY IdsInOrder
<1> HIDE DEF mine
<1>5. \A k \in FenceKey : mGeofenceIds[k] \in 0..MaxFence BY <1>1 DEF MapsInv
<1>6. \A i \in 1..Len(mine) : <<c, mine[i]>> \in FenceKey /\ mGeofenceIds[<<c, mine[i]>>] \in HwId
  <2> TAKE i \in 1..Len(mine)
  <2>1. mine[i] \in FenceId /\ mGeofenceIds[<<c, mine[i]>>] > 0 BY <1>4
  <2>2. <<c, mine[i]>> \in FenceKey BY <2>1 DEF FenceKey
  <2> QED BY <1>5, <2>1, <2>2, FenceBounds DEF HwId
<1>7. \A i \in 1..Len(mine) : [op |-> "remove", call |-> 0, hw |-> mGeofenceIds[<<c, mine[i]>>]] \in QueueItem
  BY <1>6 DEF QueueItem, EraseItem
<1>8. /\ new \in Seq(QueueItem) /\ Len(new) = Len(mine)
      /\ \A j \in 1..Len(new) : new[j].op = "remove" /\ new[j].call = 0 /\ new[j].hw = mGeofenceIds[<<c, mine[j]>>]
  BY <1>4, <1>7
<1> HIDE DEF new
<1>9. /\ fenceQueue' \in Seq(QueueItem) /\ Moves(fenceQueue, 0, new, fenceQueue')
      /\ \A k \in 1..Len(fenceQueue') : PartOf(fenceQueue'[k], fenceCalls', nextFenceCall')
      /\ PartsOnce(fenceQueue') /\ Replies'
  <2>1. fenceCbs' \subseteq fenceCbs /\ UNCHANGED <<fenceCalls, nextFenceCall>> BY <1>2, <1>3
  <2>2. \A j \in 1..Len(new) : new[j].call = 0 BY <1>8
  <2> QED BY <1>1, <1>2, <1>8, <2>1, <2>2, EnteredParts
<1>10. PICK q2, ids2 : q2 = fenceQueue' /\ ids2 = mGeofenceIds' OBVIOUS
<1>11. AddedOnce(q2, fenceCalls, mGeofences, nextFence)
  <2>1. NoneAdds(new, fenceCalls) BY <1>8 DEF NoneAdds, Adds
  <2>2. AddedOnce(fenceQueue, fenceCalls, mGeofences, nextFence) BY <1>1 DEF MapsInv
  <2>3. Moves(fenceQueue, 0, new, q2) BY <1>9, <1>10
  <2> QED BY <1>1, <2>1, <2>2, <2>3, EnteredAdds
<1>12. /\ ids2 \in [FenceKey -> 0..MaxFence]
       /\ \A k \in FenceKey : ids2[k] = IF k[1] = c THEN 0 ELSE mGeofenceIds[k]
  BY <1>2, <1>5, <1>10, FenceBounds
<1>13. ASSUME ~crossed PROVE NamesFences(q2, ids2, mGeofences, watched, fenceUp)
  <2>1. NamesFences(fenceQueue, mGeofenceIds, mGeofences, watched, fenceUp) BY <1>1, <1>13 DEF MapsInv
  <2>2. \A k \in FenceKey : ids2[k] > 0 => /\ mGeofences[ids2[k]] # NoFence
                                           /\ mGeofences[ids2[k]].client = k[1] /\ mGeofences[ids2[k]].id = k[2]
                                           /\ fenceUp => watched[ids2[k]] # Unwatched
    BY <1>12, <2>1 DEF NamesFences
  <2>3. \A i \in 1..Len(fenceQueue), k \in FenceKey : Erases(fenceQueue[i]) => ids2[k] # fenceQueue[i].hw
    <3> TAKE i \in 1..Len(fenceQueue), k \in FenceKey
    <3>1. fenceQueue[i] \in QueueItem BY <1>1 DEF Shapes
    <3>2. Erases(fenceQueue[i]) => fenceQueue[i].hw \in HwId BY <3>1, ItemIs DEF Erases, FenceCall
    <3>3. Erases(fenceQueue[i]) => mGeofenceIds[k] # fenceQueue[i].hw BY <2>1 DEF NamesFences
    <3> QED BY <1>12, <3>2, <3>3 DEF HwId
  <2>4. \A j \in 1..Len(new), k \in FenceKey : Erases(new[j]) => ids2[k] # new[j].hw
    <3> SUFFICES ASSUME NEW j \in 1..Len(new), NEW k \in FenceKey, ids2[k] = new[j].hw PROVE FALSE
      OBVIOUS
    <3>1. j \in 1..Len(mine) /\ new[j].hw = mGeofenceIds[<<c, mine[j]>>] BY <1>8
    <3>2. PICK l \in FenceKey : l = <<c, mine[j]>> /\ mGeofenceIds[l] \in HwId BY <1>6, <3>1
    <3>3. ids2[k] = mGeofenceIds[l] /\ ids2[k] > 0 BY <3>1, <3>2 DEF HwId
    <3>4. k[1] # c /\ ids2[k] = mGeofenceIds[k] BY <1>12, <3>3
    <3>5. mGeofences[mGeofenceIds[k]].client = k[1] BY <2>1, <3>3, <3>4 DEF NamesFences
    <3>6. mGeofences[mGeofenceIds[l]].client = l[1] BY <2>1, <3>2 DEF NamesFences, HwId
    <3>7. l[1] = c BY <3>2
    <3> QED BY <3>3, <3>4, <3>5, <3>6, <3>7
  <2>5. Moves(fenceQueue, 0, new, q2) BY <1>9, <1>10
  <2>6. \A i \in 1..Len(q2), k \in FenceKey : Erases(q2[i]) => ids2[k] # q2[i].hw
    BY <2>3, <2>4, <2>5, EnteredErased
  <2> QED BY <2>2, <2>6 DEF NamesFences
<1>14. MapsInv'
  BY <1>1, <1>2, <1>3, <1>10, <1>11, <1>12, <1>13 DEF MapsInv
<1>15. ModemKept' BY <1>1, <1>2 DEF ModemKept
<1>16. /\ CallsShape(fenceCalls', nextFenceCall') /\ fenceUp' \in BOOLEAN /\ crossed' \in BOOLEAN
       /\ fenceCbs' \subseteq fenceCbs
  BY <1>1, <1>2, <1>3 DEF Shapes
<1> QED BY <1>1, <1>3, <1>9, <1>14, <1>15, <1>16, Together

\* ChangeFencePower: a pause or a resumption of each fence enters the queue.
LEMMA ChangeFencePowerKeeps ==
    ASSUME FenceInv, NEW state \in {"suspend", "resume"}, ChangeFencePower(state)
    PROVE  FenceInv'
<1> DEFINE ids == InOrder({id \in FenceId : \E c \in FenceClient : mGeofenceIds[<<c, id>>] > 0})
           hwOf(id) == CHOOSE h \in HwId : \E c \in FenceClient : mGeofenceIds[<<c, id>>] = h
           op == IF state = "suspend" THEN "pause" ELSE "resume"
           new == [i \in DOMAIN ids |-> [op |-> op, call |-> 0, hw |-> hwOf(ids[i]), key |-> <<>>]]
<1>1. Shapes /\ PartsOnce(fenceQueue) /\ Replies /\ MapsInv /\ ModemKept BY FenceMaps DEF FenceInv
<1>2. /\ fenceQueue' = fenceQueue \o new
      /\ UNCHANGED <<fenceCbs, fenceMaps, fenceUp, fenceCalls, watched, crossed, fenceUps,
                     nextFence, nextFenceCall>>
  BY DEF ChangeFencePower
<1>3. UNCHANGED <<mGeofences, mGeofenceIds>> BY <1>2 DEF fenceMaps
<1>4. /\ Len(ids) \in Nat /\ DOMAIN ids = 1..Len(ids)
      /\ \A i \in 1..Len(ids) : ids[i] \in {id \in FenceId : \E c \in FenceClient : mGeofenceIds[<<c, id>>] > 0}
  BY IdsInOrder
<1> HIDE DEF ids
<1>5. \A k \in FenceKey : mGeofenceIds[k] \in 0..MaxFence BY <1>1 DEF MapsInv
<1>6. \A i \in 1..Len(ids) : hwOf(ids[i]) \in HwId
  <2> TAKE i \in 1..Len(ids)
  <2>1. PICK c \in FenceClient : mGeofenceIds[<<c, ids[i]>>] > 0 /\ ids[i] \in FenceId BY <1>4
  <2>2. <<c, ids[i]>> \in FenceKey BY <2>1 DEF FenceKey
  <2>3. mGeofenceIds[<<c, ids[i]>>] \in HwId BY <1>5, <2>1, <2>2, FenceBounds DEF HwId
  <2>4. \E h \in HwId : \E b \in FenceClient : mGeofenceIds[<<b, ids[i]>>] = h BY <2>3
  <2> QED BY <2>4
<1>7. op \in {"pause", "resume"} OBVIOUS
<1> HIDE DEF hwOf, op
<1>8. \A i \in 1..Len(ids) : [op |-> op, call |-> 0, hw |-> hwOf(ids[i]), key |-> <<>>] \in QueueItem
  BY <1>6, <1>7 DEF QueueItem, PowerItem
<1>9. /\ new \in Seq(QueueItem) /\ Len(new) = Len(ids)
      /\ \A j \in 1..Len(new) : new[j].op = op /\ new[j].call = 0
  BY <1>4, <1>8
<1> HIDE DEF new
<1>10. /\ fenceQueue' \in Seq(QueueItem) /\ Moves(fenceQueue, 0, new, fenceQueue')
       /\ \A k \in 1..Len(fenceQueue') : PartOf(fenceQueue'[k], fenceCalls', nextFenceCall')
       /\ PartsOnce(fenceQueue') /\ Replies'
  <2>1. fenceCbs' \subseteq fenceCbs /\ UNCHANGED <<fenceCalls, nextFenceCall>> BY <1>2
  <2>2. \A j \in 1..Len(new) : new[j].call = 0 BY <1>9
  <2> QED BY <1>1, <1>2, <1>9, <2>1, <2>2, EnteredParts
<1>11. PICK q2 : q2 = fenceQueue' OBVIOUS
<1>12. AddedOnce(q2, fenceCalls, mGeofences, nextFence)
  <2>1. NoneAdds(new, fenceCalls) BY <1>7, <1>9 DEF NoneAdds, Adds
  <2>2. AddedOnce(fenceQueue, fenceCalls, mGeofences, nextFence) BY <1>1 DEF MapsInv
  <2>3. Moves(fenceQueue, 0, new, q2) BY <1>10, <1>11
  <2> QED BY <1>1, <2>1, <2>2, <2>3, EnteredAdds
<1>13. ASSUME ~crossed PROVE NamesFences(q2, mGeofenceIds, mGeofences, watched, fenceUp)
  <2>1. NamesFences(fenceQueue, mGeofenceIds, mGeofences, watched, fenceUp) BY <1>1, <1>13 DEF MapsInv
  <2>2. \A j \in 1..Len(new) : ~Erases(new[j]) BY <1>7, <1>9 DEF Erases
  <2>3. Moves(fenceQueue, 0, new, q2) BY <1>10, <1>11
  <2> QED BY <2>1, <2>2, <2>3, NamesLeft
<1>14. MapsInv' BY <1>1, <1>2, <1>3, <1>11, <1>12, <1>13 DEF MapsInv
<1>15. ModemKept' BY <1>1, <1>2 DEF ModemKept
<1>16. /\ CallsShape(fenceCalls', nextFenceCall') /\ fenceUp' \in BOOLEAN /\ crossed' \in BOOLEAN
       /\ fenceCbs' \subseteq fenceCbs
  BY <1>1, <1>2 DEF Shapes
<1>17. UNCHANGED <<nextFence, nextFenceCall>> BY <1>2
<1> QED BY <1>1, <1>10, <1>14, <1>15, <1>16, <1>17, Together

\* ModemRestarts: the modem forgets, and nothing else changes.
LEMMA ModemRestartsKeeps ==
    ASSUME FenceInv, ModemRestarts
    PROVE  FenceInv'
<1>1. Shapes /\ PartsOnce(fenceQueue) /\ Replies /\ MapsInv BY FenceMaps DEF FenceInv
<1>2. /\ fenceUp' = FALSE /\ watched' = [h \in HwId |-> Unwatched]
      /\ UNCHANGED <<fenceCbs, mGeofences, mGeofenceIds, fenceQueue, fenceCalls, crossed, nextFence,
                     nextFenceCall>>
  BY DEF ModemRestarts, fenceMaps
<1>3. Unwatched \in [paused : BOOLEAN, version : -1..1] BY DEF Unwatched
<1>4. MapsInv'
  <2>1. ModemShape(watched') BY <1>2, <1>3 DEF ModemShape
  <2>2. \A h \in HwId : watched'[h] = Unwatched BY <1>2
  <2>3. Known(mGeofences', watched') BY <2>2 DEF Known
  <2>4. ASSUME ~crossed PROVE NamesFences(fenceQueue, mGeofenceIds, mGeofences, watched', FALSE)
    BY <1>1, <2>4 DEF MapsInv, NamesFences
  <2> QED BY <1>1, <1>2, <2>1, <2>3, <2>4 DEF MapsInv
<1>5. ModemKept' BY <1>2 DEF ModemKept
<1>6. Shapes' BY <1>1, <1>2, <1>4 DEF Shapes, MapsInv, ModemShape
<1>7. WatchedIsKnown' BY <1>4 DEF MapsInv, Known, WatchedIsKnown
<1>8. PartsOnce(fenceQueue') /\ Replies' BY <1>1, <1>2 DEF Replies
<1> QED BY <1>4, <1>5, <1>6, <1>7, <1>8 DEF FenceInv, MapsInv

\* All saved fences are taken out of the maps and enter the queue, to be added again.
AddsAgain(new, again, saved) ==
    \A j \in 1..Len(new) : /\ new[j].op = "readd" /\ again[j] \in HwId /\ saved[again[j]] # NoFence
                           /\ new[j].key[2] = saved[again[j]].id
Distinct(new, again) == \A i, j \in 1..Len(new) : again[i] = again[j] => i = j

\* They are added once, since each is saved under one number.
LEMMA AgainAdds ==
    ASSUME NEW q \in Seq(QueueItem), NEW new, NEW q2, Moves(q, 0, new, q2), NEW calls, NEW again,
           NEW saved, NEW saved2, NEW next, AddedOnce(q, calls, saved, next),
           AddsAgain(new, again, saved), Distinct(new, again), \A h \in HwId : saved2[h] = NoFence
    PROVE  AddedOnce(q2, calls, saved2, next)
<1>1. PICK d : d = 0 OBVIOUS
<1>2. Moves(q, d, new, q2) BY <1>1
<1>3. ASSUME NEW k \in 1..Len(q2)
      PROVE  \/ \E i \in 1..Len(q) : k = i /\ q2[k] = q[i]
             \/ \E j \in 1..Len(new) : k = Len(q) + j /\ q2[k] = new[j]
  <2>1. \/ \E i \in 1..Len(q) : i > d /\ k = i - d /\ q2[k] = q[i]
        \/ \E j \in 1..Len(new) : k = Len(q) - d + j /\ q2[k] = new[j]
    BY <1>2, CameFrom
  <2> QED BY <1>1, <2>1
<1>4. \A j \in 1..Len(new) : AddedId(new[j], calls) = saved[again[j]].id
  BY DEF AddsAgain, AddedId
<1>5. ASSUME NEW k \in 1..Len(q2), Adds(q2[k], calls) PROVE AddedId(q2[k], calls) \in 1..(next - 1)
  <2>1. CASE \E i \in 1..Len(q) : k = i /\ q2[k] = q[i] BY <1>5, <2>1 DEF AddedOnce
  <2>2. CASE \E j \in 1..Len(new) : k = Len(q) + j /\ q2[k] = new[j]
    BY <1>4, <2>2 DEF AddedOnce, AddsAgain
  <2> QED BY <1>3, <2>1, <2>2
<1>6. ASSUME NEW i \in 1..Len(q), NEW j \in 1..Len(new), Adds(q[i], calls)
      PROVE  AddedId(q[i], calls) # AddedId(new[j], calls)
  BY <1>4, <1>6 DEF AddedOnce, AddsAgain
<1>7. ASSUME NEW i \in 1..Len(new), NEW j \in 1..Len(new), AddedId(new[i], calls) = AddedId(new[j], calls)
      PROVE  i = j
  <2>1. again[i] = again[j] BY <1>4, <1>7 DEF AddedOnce, AddsAgain
  <2> QED BY <2>1 DEF Distinct
<1>8. ASSUME NEW k \in 1..Len(q2), NEW l \in 1..Len(q2), Adds(q2[k], calls), Adds(q2[l], calls),
             AddedId(q2[k], calls) = AddedId(q2[l], calls)
      PROVE  k = l
  <2>1. CASE \E i \in 1..Len(q) : k = i /\ q2[k] = q[i]
    <3>1. CASE \E m \in 1..Len(q) : l = m /\ q2[l] = q[m] BY <1>8, <2>1, <3>1 DEF AddedOnce
    <3>2. CASE \E m \in 1..Len(new) : l = Len(q) + m /\ q2[l] = new[m] BY <1>6, <1>8, <2>1, <3>2
    <3> QED BY <1>3, <3>1, <3>2
  <2>2. CASE \E j \in 1..Len(new) : k = Len(q) + j /\ q2[k] = new[j]
    <3>1. CASE \E m \in 1..Len(q) : l = m /\ q2[l] = q[m] BY <1>6, <1>8, <2>2, <3>1
    <3>2. CASE \E m \in 1..Len(new) : l = Len(q) + m /\ q2[l] = new[m] BY <1>7, <1>8, <2>2, <3>2
    <3> QED BY <1>3, <3>1, <3>2
  <2> QED BY <1>3, <2>1, <2>2
<1> QED BY <1>5, <1>8 DEF AddedOnce

\* EngineUpFences: the maps are emptied, and what they had enters the queue.
LEMMA EngineUpFencesKeeps ==
    ASSUME FenceInv, EngineUpFences
    PROVE  FenceInv'
<1> DEFINE again == InOrder(Fences)
           new == [i \in DOMAIN again |->
                      LET f == mGeofences[again[i]]
                      IN  [op |-> "readd", call |-> 0, key |-> <<f.client, f.id>>,
                           version |-> f.version, paused |-> f.paused]]
<1>1. Shapes /\ PartsOnce(fenceQueue) /\ Replies /\ MapsInv /\ ModemKept BY FenceMaps DEF FenceInv
<1>2. /\ ~fenceUp /\ fenceUp' = TRUE /\ crossed' \in BOOLEAN
      /\ UNCHANGED <<fenceCbs, fenceCalls, watched, nextFence, nextFenceCall>>
  BY DEF EngineUpFences, AddAgain
<1>3. \A h \in HwId : watched[h] = Unwatched BY <1>1, <1>2 DEF ModemKept
<1>4. ModemKept' BY <1>2 DEF ModemKept
<1>5. \A k \in FenceKey : mGeofenceIds[k] \in 0..MaxFence BY <1>1 DEF MapsInv
<1>6. ASSUME ~crossed', Fences = {} PROVE \A k \in FenceKey : mGeofenceIds[k] = 0
  <2>1. ~crossed BY <1>6 DEF EngineUpFences
  <2>2. NamesFences(fenceQueue, mGeofenceIds, mGeofences, watched, fenceUp) BY <1>1, <2>1 DEF MapsInv
  <2>3. ASSUME NEW k \in FenceKey, mGeofenceIds[k] > 0 PROVE FALSE
    <3>1. mGeofenceIds[k] \in HwId BY <1>5, <2>3, FenceBounds DEF HwId
    <3>2. mGeofences[mGeofenceIds[k]] # NoFence BY <2>2, <2>3 DEF NamesFences
    <3> QED BY <1>6, <3>1, <3>2 DEF Fences
  <2> QED BY <1>5, <2>3, FenceBounds
<1>7. ASSUME NEW q \in Seq(QueueItem), NEW ids2, \A k \in FenceKey : ids2[k] = 0, NEW saved2
      PROVE  NamesFences(q, ids2, saved2, watched, TRUE)
  <2>1. \A i \in 1..Len(q) : Erases(q[i]) => q[i].hw # 0
    <3> TAKE i \in 1..Len(q)
    <3>1. q[i] \in QueueItem OBVIOUS
    <3>2. Erases(q[i]) => q[i].hw \in HwId BY <3>1, ItemIs DEF Erases, FenceCall
    <3> QED BY <3>2, FenceBounds DEF HwId
  <2> QED BY <1>7, <2>1 DEF NamesFences
<1>8. CASE fencePower = "suspend"
  <2>1. UNCHANGED <<mGeofences, mGeofenceIds, fenceQueue>> BY <1>8 DEF EngineUpFences, fenceMaps
  <2>2. ~crossed' => Fences = {} BY <1>8 DEF EngineUpFences
  <2>3. fenceQueue \in Seq(QueueItem) BY <1>1 DEF Shapes
  <2>4. ASSUME ~crossed' PROVE NamesFences(fenceQueue, mGeofenceIds, mGeofences, watched, TRUE)
    BY <1>6, <1>7, <2>2, <2>3, <2>4
  <2>5. MapsInv' BY <1>1, <1>2, <2>1, <2>4 DEF MapsInv
  <2>6. /\ fenceQueue' \in Seq(QueueItem) /\ PartsOnce(fenceQueue') /\ Replies'
        /\ \A k \in 1..Len(fenceQueue') : PartOf(fenceQueue'[k], fenceCalls', nextFenceCall')
        /\ CallsShape(fenceCalls', nextFenceCall') /\ fenceUp' \in BOOLEAN /\ fenceCbs' \subseteq fenceCbs
    BY <1>1, <1>2, <2>1 DEF Shapes, Replies
  <2> QED BY <1>1, <1>2, <1>4, <2>5, <2>6, Together
<1>9. CASE fencePower # "suspend"
  <2>1. /\ mGeofences' = [h \in HwId |-> NoFence]
        /\ mGeofenceIds' = IF Fences = {} THEN mGeofenceIds ELSE [k \in FenceKey |-> 0]
        /\ fenceQueue' = fenceQueue \o new
    BY <1>9 DEF EngineUpFences, AddAgain
  <2>2. /\ Len(again) \in Nat /\ DOMAIN again = 1..Len(again)
        /\ \A i \in 1..Len(again) : again[i] \in Fences
        /\ \A i, j \in 1..Len(again) : again[i] = again[j] => i = j
    <3>1. Fences \in SUBSET FenceId BY DEF Fences, HwId, FenceId
    <3> QED BY <3>1, IdsInOrder
  <2> HIDE DEF again
  <2>3. \A i \in 1..Len(again) : /\ again[i] \in HwId /\ mGeofences[again[i]] # NoFence
                                 /\ mGeofences[again[i]] \in FenceRecord
    BY <1>1, <2>2 DEF Fences, Shapes
  <2>4. \A i \in 1..Len(again) : LET f == mGeofences[again[i]]
                                 IN  [op |-> "readd", call |-> 0, key |-> <<f.client, f.id>>,
                                      version |-> f.version, paused |-> f.paused] \in QueueItem
    <3> TAKE i \in 1..Len(again)
    <3>1. PICK f \in FenceRecord : f = mGeofences[again[i]] BY <2>3
    <3>2. <<f.client, f.id>> \in FenceKey BY DEF FenceRecord, FenceKey
    <3>3. [op |-> "readd", call |-> 0, key |-> <<f.client, f.id>>, version |-> f.version,
           paused |-> f.paused] \in ReaddItem
      BY <3>2 DEF FenceRecord, ReaddItem
    <3> QED BY <3>1, <3>3 DEF QueueItem
  <2>5. /\ new \in Seq(QueueItem) /\ Len(new) = Len(again)
        /\ \A j \in 1..Len(new) : /\ new[j].op = "readd" /\ new[j].call = 0
                                  /\ new[j].key = <<mGeofences[again[j]].client, mGeofences[again[j]].id>>
    BY <2>2, <2>4
  <2> HIDE DEF new
  <2>6. /\ fenceQueue' \in Seq(QueueItem) /\ Moves(fenceQueue, 0, new, fenceQueue')
        /\ \A k \in 1..Len(fenceQueue') : PartOf(fenceQueue'[k], fenceCalls', nextFenceCall')
        /\ PartsOnce(fenceQueue') /\ Replies'
    <3>1. fenceCbs' \subseteq fenceCbs /\ UNCHANGED <<fenceCalls, nextFenceCall>> BY <1>2
    <3>2. \A j \in 1..Len(new) : new[j].call = 0 BY <2>5
    <3> QED BY <1>1, <2>1, <2>5, <3>1, <3>2, EnteredParts
  <2>7. PICK q2, saved2, ids2 : q2 = fenceQueue' /\ saved2 = mGeofences' /\ ids2 = mGeofenceIds' OBVIOUS
  <2>8. AddedOnce(q2, fenceCalls, saved2, nextFence)
    <3>1. AddsAgain(new, again, mGeofences) BY <2>3, <2>5 DEF AddsAgain
    <3>2. Distinct(new, again) BY <2>2, <2>5 DEF Distinct
    <3>3. \A h \in HwId : saved2[h] = NoFence BY <2>1, <2>7
    <3>4. fenceQueue \in Seq(QueueItem) /\ AddedOnce(fenceQueue, fenceCalls, mGeofences, nextFence)
      BY <1>1 DEF MapsInv, Shapes
    <3>5. Moves(fenceQueue, 0, new, q2) BY <2>6, <2>7
    <3> QED BY <3>1, <3>2, <3>3, <3>4, <3>5, AgainAdds
  <2>9. /\ SavedShape(saved2) /\ Known(saved2, watched)
        /\ ids2 \in [FenceKey -> 0..MaxFence]
    <3>1. SavedShape(saved2) BY <2>1, <2>7 DEF SavedShape
    <3>2. Known(saved2, watched) BY <1>3 DEF Known
    <3>3. ids2 \in [FenceKey -> 0..MaxFence] BY <1>1, <2>1, <2>7, FenceBounds DEF MapsInv
    <3> QED BY <3>1, <3>2, <3>3
  <2>10. ASSUME ~crossed' PROVE NamesFences(q2, ids2, saved2, watched, TRUE)
    <3>1. \A k \in FenceKey : ids2[k] = 0
      <4>1. CASE Fences = {} BY <1>6, <2>1, <2>7, <2>10, <4>1
      <4>2. CASE Fences # {} BY <2>1, <2>7, <4>2
      <4> QED BY <4>1, <4>2
    <3>2. q2 \in Seq(QueueItem) BY <2>6, <2>7
    <3> QED BY <1>7, <3>1, <3>2
  <2>11. MapsInv' BY <1>1, <1>2, <2>7, <2>8, <2>9, <2>10 DEF MapsInv
  <2>12. /\ CallsShape(fenceCalls', nextFenceCall') /\ fenceUp' \in BOOLEAN /\ fenceCbs' \subseteq fenceCbs
    BY <1>1, <1>2 DEF Shapes
  <2> QED BY <1>1, <1>2, <1>4, <2>6, <2>11, <2>12, Together
<1> QED BY <1>8, <1>9

-----------------------------------------------------------------------------
(* The theorems *)

\* The invariant holds at first.
LEMMA FenceInvInit ==
    ASSUME FenceInit
    PROVE  FenceInv
<1>1. fenceQueue = <<>> /\ fenceQueue \in Seq(QueueItem) /\ Len(fenceQueue) = 0 BY DEF FenceInit
<1>2. /\ nextFence = 1 /\ nextFenceCall = 1 /\ fenceUp = TRUE /\ crossed = FALSE /\ fenceCbs = FenceClient
      /\ mGeofences = [h \in HwId |-> NoFence] /\ mGeofenceIds = [k \in FenceKey |-> 0]
      /\ fenceCalls = [n \in FenceCall |-> NoFenceCall] /\ watched = [h \in HwId |-> Unwatched]
  BY DEF FenceInit
<1>3. CallsShape(fenceCalls, nextFenceCall) BY <1>2 DEF CallsShape, FenceCall
<1>4. Unwatched \in [paused : BOOLEAN, version : -1..1] BY DEF Unwatched
<1>5. Shapes
  <2>1. MaxFence \in Nat /\ MaxFenceCalls \in Nat BY FenceBounds
  <2>2. nextFence \in 1..(MaxFence + 1) /\ nextFenceCall \in 1..(MaxFenceCalls + 1) BY <1>2, <2>1
  <2>3. mGeofences \in [HwId -> FenceRecord \cup {NoFence}] BY <1>2
  <2>4. mGeofenceIds \in [FenceKey -> 0..MaxFence] BY <1>2, <2>1
  <2>5. watched \in [HwId -> [paused : BOOLEAN, version : -1..1]] BY <1>2, <1>4
  <2>6. fenceCbs \subseteq FenceClient /\ fenceUp \in BOOLEAN /\ crossed \in BOOLEAN BY <1>2
  <2>7. \A i \in 1..Len(fenceQueue) : PartOf(fenceQueue[i], fenceCalls, nextFenceCall) BY <1>1
  <2> QED BY <1>1, <1>3, <2>2, <2>3, <2>4, <2>5, <2>6, <2>7 DEF Shapes
<1>6. PartsOnce(fenceQueue) BY <1>1 DEF PartsOnce
<1>7. Replies BY <1>2 DEF Replies, FenceCall
<1>8. AddedOnce(fenceQueue, fenceCalls, mGeofences, nextFence) BY <1>1, <1>2 DEF AddedOnce
<1>9. WatchedIsKnown /\ ModemKept BY <1>2 DEF WatchedIsKnown, ModemKept
<1>10. NamesFences(fenceQueue, mGeofenceIds, mGeofences, watched, fenceUp) BY <1>1, <1>2 DEF NamesFences
<1> QED BY <1>5, <1>6, <1>7, <1>8, <1>9, <1>10 DEF FenceInv

\* Every step keeps it.
LEMMA FenceInvStep ==
    ASSUME FenceInv, [FenceNext]_fenceVars
    PROVE  FenceInv'
<1>1. ASSUME NEW c \in FenceClient, NEW ids \in UNION {[1..k -> FenceId] : k \in 1..MaxPerCall},
             \/ CallFences("add", c, ids, 0)
             \/ \E op \in {"remove", "pause", "resume"} : CallFences(op, c, ids, 0)
             \/ CallFences("modify", c, ids, 1)
      PROVE  FenceInv'
  <2>1. PICK size \in 1..MaxPerCall : ids \in [1..size -> FenceId] OBVIOUS
  <2>2. PICK op \in CallOps, version \in 0..1 : CallFences(op, c, ids, version) BY <1>1 DEF CallOps
  <2> QED BY <2>1, <2>2, CallFencesKeeps
<1>2. CASE TakeTurn BY <1>2, TakeTurnKeeps
<1>3. CASE FenceDone BY <1>3, FenceDoneKeeps
<1>4. CASE FenceRefusal BY <1>4, FenceRefusalKeeps
<1>5. CASE \E c \in FenceClient : RemoveFenceClient(c) BY <1>5, RemoveFenceClientKeeps
<1>6. CASE \E state \in {"suspend", "resume"} : ChangeFencePower(state) BY <1>6, ChangeFencePowerKeeps
<1>7. CASE ModemRestarts BY <1>7, ModemRestartsKeeps
<1>8. CASE EngineUpFences BY <1>8, EngineUpFencesKeeps
<1>9. CASE UNCHANGED fenceVars
  <2>1. UNCHANGED <<fenceCbs, mGeofences, mGeofenceIds, fenceUp, fenceQueue, fenceCalls, watched, crossed,
                    nextFence, nextFenceCall>>
    BY <1>9 DEF fenceVars, fenceMaps, fenceCounts
  <2>2. MapsInv /\ Shapes BY FenceMaps DEF FenceInv
  <2>3. MapsInv' BY <2>1, <2>2 DEF MapsInv
  <2>4. Shapes' BY <2>1, <2>2 DEF Shapes
  <2>5. PartsOnce(fenceQueue') /\ Replies' /\ ModemKept' BY <2>1 DEF FenceInv, Replies, ModemKept
  <2>6. WatchedIsKnown' BY <2>3 DEF MapsInv, Known, WatchedIsKnown
  <2> QED BY <2>3, <2>4, <2>5, <2>6 DEF FenceInv, MapsInv
<1> QED BY <1>1, <1>2, <1>3, <1>4, <1>5, <1>6, <1>7, <1>8, <1>9 DEF FenceNext

\* The types.
LEMMA FenceInvTypes ==
    ASSUME FenceInv
    PROVE  FenceTypeOK
<1>1. Shapes BY DEF FenceInv
<1>2. ASSUME NEW h \in HwId, mGeofences[h] # NoFence PROVE KeyOf(h) \in FenceKey
  <2>1. mGeofences[h] \in FenceRecord BY <1>1, <1>2 DEF Shapes
  <2> QED BY <2>1 DEF FenceRecord, KeyOf, FenceKey
<1>3. \A n \in FenceCall : Len(fenceCalls[n].errs) = Len(fenceCalls[n].ids)
  <2> TAKE n \in FenceCall
  <2>1. CASE n < nextFenceCall BY <1>1, <2>1 DEF Shapes, CallsShape, CallShape
  <2>2. CASE ~(n < nextFenceCall) BY <1>1, <2>2 DEF Shapes, CallsShape, NoFenceCall
  <2> QED BY <2>1, <2>2
<1> QED BY <1>1, <1>2, <1>3 DEF FenceTypeOK, Shapes

\* What the adapter knows of the fences that are watched.
LEMMA FenceInvTracked ==
    ASSUME FenceInv
    PROVE  FencesTracked
<1>1. WatchedIsKnown BY DEF FenceInv
<1>2. ASSUME ~crossed, NEW k \in FenceKey, mGeofenceIds[k] > 0
      PROVE  mGeofences[mGeofenceIds[k]] # NoFence /\ KeyOf(mGeofenceIds[k]) = k
  <2>1. NamesFences(fenceQueue, mGeofenceIds, mGeofences, watched, fenceUp) BY <1>2 DEF FenceInv
  <2>2. /\ mGeofences[mGeofenceIds[k]] # NoFence
        /\ mGeofences[mGeofenceIds[k]].client = k[1] /\ mGeofences[mGeofenceIds[k]].id = k[2]
    BY <1>2, <2>1 DEF NamesFences
  <2> QED BY <2>2 DEF KeyOf, FenceKey
<1> QED BY <1>1, <1>2 DEF FencesTracked, IdsNameFences

\* What the clients have been answered.
LEMMA FenceInvAnswered ==
    ASSUME FenceInv
    PROVE  FenceCallsAnswered
<1> SUFFICES ASSUME NEW n \in FenceCall, fenceCalls[n].op # "none", fenceCalls[n].client \in fenceCbs
             PROVE  /\ fenceCalls[n].replies <= 1
                    /\ UnderWay(n) \/ fenceCalls[n].replies = 1
                       \/ (fenceCalls[n].op = "resume" /\ fenceCalls[n].refused)
  BY DEF FenceCallsAnswered
<1>1. Shapes /\ Replies BY DEF FenceInv
<1>2. n < nextFenceCall BY <1>1 DEF Shapes, CallsShape, NoFenceCall
<1>3. RepliesOf(fenceQueue, fenceCalls, n) BY <1>1, <1>2 DEF Replies
<1>4. fenceQueue \in Seq(QueueItem) BY <1>1 DEF Shapes
<1>5. CASE LastUnderWay(fenceQueue, fenceCalls, n)
  <2>1. UnderWay(n) BY <1>4, <1>5 DEF LastUnderWay, UnderWay
  <2> QED BY <1>3, <1>5, <2>1 DEF RepliesOf
<1>6. CASE ~LastUnderWay(fenceQueue, fenceCalls, n) BY <1>3, <1>6 DEF RepliesOf
<1> QED BY <1>5, <1>6

\* The state keeps its types: among others, no number, id or item of a call is ever out of its range.
THEOREM FenceTypes == FenceSpec => []FenceTypeOK
<1>1. FenceInit => FenceInv BY FenceInvInit
<1>2. FenceInv /\ [FenceNext]_fenceVars => FenceInv' BY FenceInvStep
<1>3. FenceInv => FenceTypeOK BY FenceInvTypes
<1> QED BY <1>1, <1>2, <1>3, PTL DEF FenceSpec

\* The adapter knows each fence that the modem watches, with the options it has there, in
\* the middle of every call, suspension and restart of the modem; and the number that a
\* client's id has is that of the client's fence, until a number has crossed.
THEOREM FencesAreTracked == FenceSpec => []FencesTracked
<1>1. FenceInit => FenceInv BY FenceInvInit
<1>2. FenceInv /\ [FenceNext]_fenceVars => FenceInv' BY FenceInvStep
<1>3. FenceInv => FencesTracked BY FenceInvTracked
<1> QED BY <1>1, <1>2, <1>3, PTL DEF FenceSpec

\* No call is answered twice, and each call of a client that is still there is answered once
\* nothing of it is under way, but for a resumption of which the modem refused a part.
THEOREM FenceCallsAreAnswered == FenceSpec => []FenceCallsAnswered
<1>1. FenceInit => FenceInv BY FenceInvInit
<1>2. FenceInv /\ [FenceNext]_fenceVars => FenceInv' BY FenceInvStep
<1>3. FenceInv => FenceCallsAnswered BY FenceInvAnswered
<1> QED BY <1>1, <1>2, <1>3, PTL DEF FenceSpec
=============================================================================
