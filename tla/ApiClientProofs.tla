---------------------------- MODULE ApiClientProofs ----------------------------
(***************************************************************************)
(* Proofs about LocationAPIClientBase, for any numbers of sessions, fences *)
(* and NI requests, any number of outstanding answers, in every order in   *)
(* which adapters and modem give them.  An answer names a session and not  *)
(* a call; that it is given to a call of its own session, and that no call *)
(* waits for ever, rests on counting: a queue of requests is as long as    *)
(* there are answers owed to its session, and no other answer is ever      *)
(* matched with it, because a number that the tracking queue had is never  *)
(* that of a numbered session.                                             *)
(***************************************************************************)
EXTENDS ApiClient, FiniteSetTheorems, TLAPS

-----------------------------------------------------------------------------
(* Counting what is owed *)

Places(o, q, s) == {i \in 1..Len(o) : o[i].queue = q /\ o[i].session = s}

\* An item enters a sequence at its end.
Grown(o, a, o2) == /\ Len(o) \in Nat /\ Len(o2) = Len(o) + 1
                   /\ \A i \in 1..Len(o) : o2[i] = o[i]
                   /\ o2[Len(o) + 1] = a

\* The item in place i leaves.
Shrunk(o, i, o2) == /\ Len(o) \in Nat /\ i \in 1..Len(o) /\ Len(o2) = Len(o) - 1
                    /\ \A j \in 1..Len(o2) : o2[j] = IF j < i THEN o[j] ELSE o[j + 1]

\* Finitely many answers are owed.
LEMMA PlacesFinite ==
    ASSUME NEW o, Len(o) \in Nat, NEW q, NEW s
    PROVE  IsFiniteSet(Places(o, q, s)) /\ Cardinality(Places(o, q, s)) \in Nat
<1>1. IsFiniteSet(1..Len(o)) BY FS_Interval
<1>2. Places(o, q, s) \in SUBSET (1..Len(o)) BY DEF Places
<1> QED BY <1>1, <1>2, FS_Subset, FS_CardinalityType

\* One more is owed to its own queue and session, and as many as before to the others.
LEMMA PlacesGrown ==
    ASSUME NEW o, NEW a, NEW o2, Grown(o, a, o2), NEW q, NEW s
    PROVE  Cardinality(Places(o2, q, s)) = IF a.queue = q /\ a.session = s
                                           THEN Cardinality(Places(o, q, s)) + 1
                                           ELSE Cardinality(Places(o, q, s))
<1> DEFINE n == Len(o)
<1>1. n \in Nat /\ Len(o2) = n + 1 /\ o2[n + 1] = a /\ \A i \in 1..n : o2[i] = o[i] BY DEF Grown
<1>2. \A i : i \in 1..Len(o2) <=> i \in 1..n \/ i = n + 1 BY <1>1
<1>3. n + 1 \notin Places(o, q, s) BY <1>1 DEF Places
<1>4. CASE a.queue = q /\ a.session = s
  <2>1. Places(o2, q, s) = Places(o, q, s) \cup {n + 1} BY <1>1, <1>2, <1>4 DEF Places
  <2>2. IsFiniteSet(Places(o, q, s)) BY <1>1, PlacesFinite
  <2>3. Cardinality(Places(o, q, s) \cup {n + 1}) = Cardinality(Places(o, q, s)) + 1
    BY <1>3, <2>2, FS_AddElement
  <2> QED BY <1>4, <2>1, <2>3
<1>5. CASE ~(a.queue = q /\ a.session = s)
  <2>1. Places(o2, q, s) = Places(o, q, s) BY <1>1, <1>2, <1>5 DEF Places
  <2> QED BY <1>5, <2>1
<1> QED BY <1>4, <1>5

\* One fewer is owed to the queue and session of the one that leaves.
LEMMA PlacesShrunk ==
    ASSUME NEW o, NEW i, NEW o2, Shrunk(o, i, o2), NEW q, NEW s
    PROVE  Cardinality(Places(o2, q, s)) = IF o[i].queue = q /\ o[i].session = s
                                           THEN Cardinality(Places(o, q, s)) - 1
                                           ELSE Cardinality(Places(o, q, s))
<1> DEFINE n == Len(o)
           P == Places(o, q, s) \ {i}
           P2 == Places(o2, q, s)
           f == [k \in P2 |-> IF k < i THEN k ELSE k + 1]
<1>1. n \in Nat /\ i \in 1..n /\ Len(o2) = n - 1 /\ Len(o2) \in Nat BY DEF Shrunk
<1>2. \A j \in 1..(n - 1) : o2[j] = IF j < i THEN o[j] ELSE o[j + 1] BY <1>1 DEF Shrunk
<1>3. P2 \subseteq 1..(n - 1) /\ P \subseteq 1..n BY <1>1 DEF Places
<1>4. \A k \in P2 : f[k] \in P
  <2>1. SUFFICES ASSUME NEW k \in P2 PROVE f[k] \in P OBVIOUS
  <2>2. k \in 1..(n - 1) /\ o2[k].queue = q /\ o2[k].session = s BY <1>1, <2>1 DEF Places
  <2>3. CASE k < i
    <3>1. f[k] = k /\ k \in 1..n /\ k # i BY <1>1, <2>1, <2>2, <2>3
    <3>2. o2[k] = o[k] BY <1>2, <2>2, <2>3
    <3> QED BY <2>2, <3>1, <3>2 DEF Places
  <2>4. CASE ~(k < i)
    <3>1. f[k] = k + 1 /\ k + 1 \in 1..n /\ k + 1 # i BY <1>1, <2>1, <2>2, <2>4
    <3>2. o2[k] = o[k + 1] BY <1>2, <2>2, <2>4
    <3> QED BY <2>2, <3>1, <3>2 DEF Places
  <2> QED BY <2>3, <2>4
<1>5. f \in [P2 -> P] BY <1>4
<1>6. \A k, l \in P2 : f[k] = f[l] => k = l BY <1>1, <1>3
<1>7. \A j \in P : \E k \in P2 : f[k] = j
  <2>1. SUFFICES ASSUME NEW j \in P PROVE \E k \in P2 : f[k] = j OBVIOUS
  <2>2. j \in 1..n /\ j # i /\ o[j].queue = q /\ o[j].session = s BY <2>1 DEF Places
  <2>3. CASE j < i
    <3>1. j \in 1..(n - 1) /\ o2[j] = o[j] BY <1>1, <1>2, <2>2, <2>3
    <3>2. j \in P2 BY <1>1, <2>2, <3>1 DEF Places
    <3> QED BY <2>3, <3>2
  <2>4. CASE ~(j < i)
    <3>1. j - 1 \in 1..(n - 1) /\ ~(j - 1 < i) /\ (j - 1) + 1 = j BY <1>1, <2>2, <2>4
    <3>2. o2[j - 1] = o[j] BY <1>2, <3>1
    <3>3. j - 1 \in P2 BY <1>1, <2>2, <3>1, <3>2 DEF Places
    <3> QED BY <3>1, <3>3
  <2> QED BY <2>3, <2>4
<1>8. ExistsBijection(P2, P)
  <2> HIDE DEF f, P, P2
  <2>1. f \in Bijection(P2, P)
    BY <1>5, <1>6, <1>7 DEF Bijection, Injection, Surjection, IsInjective
  <2> QED BY <2>1 DEF ExistsBijection
<1>9. IsFiniteSet(P2) /\ IsFiniteSet(Places(o, q, s)) BY <1>1, PlacesFinite
<1>10. Cardinality(P) = Cardinality(P2) BY <1>8, <1>9, FS_Bijection
<1>11. i \in Places(o, q, s) <=> o[i].queue = q /\ o[i].session = s BY <1>1 DEF Places
<1>12. Cardinality(P) = IF i \in Places(o, q, s) THEN Cardinality(Places(o, q, s)) - 1
                                                 ELSE Cardinality(Places(o, q, s))
  BY <1>9, FS_RemoveElement
<1> HIDE DEF P, P2
<1>13. Cardinality(P2) = Cardinality(P) BY <1>10
<1> QED BY <1>11, <1>12, <1>13 DEF P2

-----------------------------------------------------------------------------
(* The invariant *)

Numbers == Nat \cup NiIds
Words == StartOps \cup StopOps \cup FenceOps
         \cup {"updateTracking", "updateBatching", "getBatched", "ni", "none"}
OwedAnswer == [queue : QueueOf, session : Numbers, op : Words, call : Words, asked : BOOLEAN]
RequestQueues ==
    [QueueOf -> [session : Numbers, requests : Seq([session : Numbers, call : Words])]]
Entities(next) == [SessionIds -> [session : 1..(next - 1), mode : Modes] \cup {NoEntity}]

\* What is owed to a queue has a number of its kind, and only numbered sessions are asked
\* some things, and only fences others.
OwedShape(a, next) ==
    /\ a.queue \in {"tracking", "session"} => a.session \in 1..(next - 1)
    /\ a.queue = "geofence" => a.session = GeofenceSession
    /\ a.queue = "ni" => a.session \in NiIds
    /\ a.op \in {"updateBatching", "stopBatching"} => a.queue = "session"
    /\ a.op = "resumeFence" => a.queue = "geofence"

Shape == /\ owed \in Seq(OwedAnswer)
         /\ \A i \in 1..Len(owed) : OwedShape(owed[i], nextSession)
         /\ mRequestQueues \in RequestQueues
         /\ mSessionBiDict \in Entities(nextSession)
         /\ nextSession \in 1..(MaxSession + 1)

\* A number that the tracking queue has, or had when an answer was owed to it, is not that
\* of a numbered session.
Apart == LET t == mRequestQueues["tracking"].session
         IN  /\ t \in 0..(nextSession - 1) /\ ~HasSession(t)
             /\ \A i \in 1..Len(owed) :
                   /\ owed[i].queue = "tracking" => ~HasSession(owed[i].session)
                   /\ owed[i].queue = "session" => owed[i].session # t

\* The queues' requests are about the queues' sessions.
OwnRequests ==
    /\ \A k \in 1..Len(mRequestQueues["tracking"].requests) :
          mRequestQueues["tracking"].requests[k].session = mRequestQueues["tracking"].session
    /\ \A k \in 1..Len(mRequestQueues["geofence"].requests) :
          mRequestQueues["geofence"].requests[k].session = GeofenceSession
    /\ mRequestQueues["ni"].session \in NiIds \cup {NoSession}
    /\ mLocationAPI /\ mRequestQueues["geofence"].session # GeofenceSession =>
          \A i \in 1..Len(owed) : owed[i].queue # "geofence"

ClientInv == Shape /\ Apart /\ OwnRequests /\ TrackingMatched /\ FencesMatched /\ NiMatched

\* The bounds of numbers, and the lengths of the queues.
LEMMA Bounds ==
    ASSUME ClientInv
    PROVE  /\ MaxSession \in Nat /\ MaxSession < 999 /\ nextSession \in Nat /\ nextSession >= 1
           /\ nextSession <= MaxSession + 1
           /\ owed \in Seq(OwedAnswer) /\ Len(owed) \in Nat
           /\ \A i \in 1..Len(owed) : owed[i] \in OwedAnswer
           /\ \A q \in QueueOf : /\ mRequestQueues[q].session \in Numbers
                                 /\ mRequestQueues[q].requests \in Seq([session : Numbers, call : Words])
                                 /\ Len(mRequestQueues[q].requests) \in Nat
           /\ NoSession \notin NiIds /\ GeofenceSession \notin NiIds
<1>1. MaxSession \in Nat /\ MaxSession < 999 /\ NoSession \notin NiIds /\ GeofenceSession \notin NiIds
  BY ClientNumbers DEF GeofenceSession
<1>2. nextSession \in 1..(MaxSession + 1) /\ owed \in Seq(OwedAnswer) /\ mRequestQueues \in RequestQueues
  BY DEF ClientInv, Shape
<1>3. \A q \in QueueOf : mRequestQueues[q] \in [session : Numbers,
                                               requests : Seq([session : Numbers, call : Words])]
  BY <1>2 DEF RequestQueues
<1>4. \A q \in QueueOf : mRequestQueues[q].requests \in Seq([session : Numbers, call : Words])
  BY <1>3
<1>5. \A q \in QueueOf : /\ mRequestQueues[q].session \in Numbers
                         /\ Len(mRequestQueues[q].requests) \in Nat
  BY <1>3, <1>4
<1>6. Len(owed) \in Nat /\ \A i \in 1..Len(owed) : owed[i] \in OwedAnswer BY <1>2
<1>7. nextSession \in Nat /\ nextSession >= 1 /\ nextSession <= MaxSession + 1 BY <1>1, <1>2
<1> QED BY <1>1, <1>2, <1>4, <1>5, <1>6, <1>7

\* A session that has a name was numbered.
LEMMA NamedIsNumbered ==
    ASSUME ClientInv, NEW id \in SessionIds, Has(id)
    PROVE  /\ mSessionBiDict[id].session \in 1..(nextSession - 1)
           /\ HasSession(mSessionBiDict[id].session)
<1>1. mSessionBiDict[id] \in [session : 1..(nextSession - 1), mode : Modes] \cup {NoEntity}
  BY DEF ClientInv, Shape, Entities
<1> QED BY <1>1 DEF Has, HasSession

\* The properties follow: an answer for tracking finds no queue but its own.
LEMMA InvAnswers == ClientInv => AnswersMatched
<1> SUFFICES ASSUME ClientInv, NEW i \in 1..Len(owed), owed[i].queue \in {"tracking", "geofence"},
                    owed[i].session \notin NiIds
             PROVE  RequestFor(owed[i]).session \in {owed[i].session, NoSession}
  BY DEF ClientInv, AnswersMatched, SessionOfCallback
<1> DEFINE a == owed[i]
<1>1. OwedShape(a, nextSession) /\ a \in OwedAnswer BY Bounds DEF ClientInv, Shape
<1>2. CASE QueueFor(a) = "none" BY <1>2 DEF RequestFor, NoRequest, Request
<1>3. CASE QueueFor(a) # "none"
  <2> DEFINE rq == mRequestQueues[QueueFor(a)].requests
  <2>1. /\ a.queue = "geofence" => QueueFor(a) = "geofence" /\ rq # <<>>
        /\ a.queue = "tracking" => QueueFor(a) = "tracking" /\ rq # <<>>
                                   /\ mRequestQueues["tracking"].session = a.session
    <3>1. CASE a.queue = "geofence" BY <1>3, <3>1 DEF QueueFor, QueueOf
    <3>2. CASE a.queue = "tracking"
      <4>1. ~HasSession(a.session) BY <3>2 DEF ClientInv, Apart
      <4>2. a.session # NoSession BY <1>1, <3>2, Bounds DEF OwedShape, NoSession
      <4>3. mRequestQueues["ni"].session # a.session BY <4>2 DEF ClientInv, OwnRequests
      <4> QED BY <1>3, <3>2, <4>1, <4>3 DEF QueueFor, QueueOf
    <3> QED BY <3>1, <3>2
  <2>2. rq \in Seq([session : Numbers, call : Words]) /\ rq # <<>> BY <2>1, Bounds DEF QueueOf
  <2>3. Head(rq) = rq[1] /\ 1 \in 1..Len(rq) BY <2>2
  <2>4. CASE a.queue = "geofence" BY <1>1, <1>3, <2>1, <2>3, <2>4 DEF RequestFor, ClientInv, OwnRequests, OwedShape
  <2>5. CASE a.queue = "tracking" BY <1>3, <2>1, <2>3, <2>5 DEF RequestFor, ClientInv, OwnRequests
  <2> QED BY <2>4, <2>5
<1> QED BY <1>2, <1>3

-----------------------------------------------------------------------------
(* Steps *)

\* Numbered sessions are called, asked about or forgotten; nothing is owed to the other
\* queues that was not, and their requests stay.
LEMMA NumberedKeeps ==
    ASSUME ClientInv,
           owed' \in Seq(OwedAnswer), Len(owed) <= Len(owed'),
           \A k \in 1..Len(owed') : OwedShape(owed'[k], nextSession'),
           \A k \in 1..Len(owed) : owed'[k].queue = owed[k].queue /\ owed'[k].session = owed[k].session,
           \A k \in 1..Len(owed') : k \notin 1..Len(owed) =>
               owed'[k].queue = "session" /\ owed'[k].session # mRequestQueues["tracking"].session,
           mRequestQueues' \in RequestQueues,
           mRequestQueues'["tracking"] = mRequestQueues["tracking"],
           mRequestQueues'["geofence"] = mRequestQueues["geofence"],
           mRequestQueues'["ni"].session = mRequestQueues["ni"].session,
           mRequestQueues'["ni"] = mRequestQueues["ni"] \/ mRequestQueues["ni"].session \in 1..MaxSession,
           mSessionBiDict' \in Entities(nextSession'),
           \A s : HasSession(s)' => HasSession(s) \/ s = nextSession,
           nextSession' \in 1..(MaxSession + 1), nextSession <= nextSession',
           UNCHANGED <<mLocationAPI, resumeLost>>
    PROVE  ClientInv'
<1>1. Shape' BY DEF Shape
<1>2. Apart'
  <2>1. mRequestQueues["tracking"].session \in 0..(nextSession - 1) /\ ~HasSession(mRequestQueues["tracking"].session)
    BY DEF ClientInv, Apart
  <2>2. mRequestQueues["tracking"].session # nextSession BY <2>1, Bounds
  <2>3. mRequestQueues["tracking"].session \in 0..(nextSession' - 1) BY <2>1, Bounds
  <2>4. ASSUME NEW k \in 1..Len(owed'), owed'[k].queue = "tracking" 
        PROVE  \A s : s = owed'[k].session => ~HasSession(s)'
    <3>1. k \in 1..Len(owed) /\ owed[k].queue = "tracking" /\ owed[k].session = owed'[k].session BY <2>4
    <3>2. owed[k].session \in 1..(nextSession - 1) /\ ~HasSession(owed[k].session)
      BY <3>1 DEF ClientInv, Shape, OwedShape, Apart
    <3>3. owed[k].session # nextSession BY <3>2, Bounds
    <3> QED BY <3>1, <3>2, <3>3
  <2>5. ASSUME NEW k \in 1..Len(owed'), owed'[k].queue = "session"
        PROVE  owed'[k].session # mRequestQueues["tracking"].session
    BY <2>5 DEF ClientInv, Apart
  <2>6. \A s : s = mRequestQueues["tracking"].session => ~HasSession(s)' BY <2>1, <2>2
  <2> QED BY <2>3, <2>4, <2>5, <2>6 DEF Apart, HasSession
<1>3. OwnRequests' BY DEF ClientInv, OwnRequests
<1>4. \A q, s : q # "session" => OwedTo(q, s)' = OwedTo(q, s)
  <2>1. Len(owed) \in Nat /\ Len(owed') \in Nat BY Bounds
  <2> QED BY <2>1 DEF OwedTo
<1>5. TrackingMatched' BY <1>4 DEF ClientInv, TrackingMatched, Waiting
<1>6. FencesMatched' BY <1>4 DEF ClientInv, FencesMatched, Waiting
<1>7. NiMatched' BY <1>4 DEF ClientInv, NiMatched, Waiting
<1> QED BY <1>1, <1>2, <1>3, <1>5, <1>6, <1>7 DEF ClientInv

\* An answer leaves, whose request is the first of queue r, if r is one: its own.
Takes(i, r) ==
    LET a == owed[i]
        waits == [q \in QueueOf |-> Len(mRequestQueues[q].requests) > 0]
    IN  /\ r = "tracking" => /\ a.session = mRequestQueues["tracking"].session
                             /\ a.queue \in {"tracking", "ni"}
        /\ r = "geofence" => a.queue = "geofence"
        /\ r = "ni" => a.session = mRequestQueues["ni"].session /\ a.queue # "geofence"
        /\ a.queue = "tracking" /\ a.session = mRequestQueues["tracking"].session
           /\ waits["tracking"] => r = "tracking"
        /\ a.queue = "geofence" /\ mRequestQueues["geofence"].session = GeofenceSession
           /\ waits["geofence"] => r = "geofence" \/ resumeLost'
        /\ a.queue = "ni" /\ a.session = mRequestQueues["ni"].session
           /\ a.session # mRequestQueues["tracking"].session /\ waits["ni"] => r = "ni"

Popped(r) ==
    /\ mRequestQueues' \in RequestQueues
    /\ \A q \in QueueOf : mRequestQueues'[q].session = mRequestQueues[q].session
    /\ \A q \in QueueOf : q # r => mRequestQueues'[q] = mRequestQueues[q]
    /\ r \in QueueOf => Shrunk(mRequestQueues[r].requests, 1, mRequestQueues'[r].requests)

LEMMA LeavesKeeps ==
    ASSUME ClientInv, NEW i \in 1..Len(owed), NEW r, Takes(i, r), Popped(r),
           owed' = Without(i), resumeLost => resumeLost',
           UNCHANGED <<mLocationAPI, mSessionBiDict, nextSession>>
    PROVE  ClientInv'
<1> DEFINE a == owed[i]
           t == mRequestQueues["tracking"].session
<1>1. /\ Len(owed) \in Nat /\ a \in OwedAnswer /\ OwedShape(a, nextSession)
      /\ \A k \in 1..Len(owed) : owed[k] \in OwedAnswer /\ OwedShape(owed[k], nextSession)
  BY Bounds DEF ClientInv, Shape
<1>2. owed' \in Seq(OwedAnswer) /\ Shrunk(owed, i, owed')
  <2>1. \A j \in 1..(Len(owed) - 1) : j \in 1..Len(owed) /\ j + 1 \in 1..Len(owed) BY <1>1
  <2>2. \A j \in 1..(Len(owed) - 1) : (IF j < i THEN owed[j] ELSE owed[j + 1]) \in OwedAnswer
    BY <1>1, <2>1
  <2>3. Without(i) \in [1..(Len(owed) - 1) -> OwedAnswer] BY <2>2 DEF Without
  <2>4. Len(owed) - 1 \in Nat BY <1>1
  <2>5. Without(i) \in Seq(OwedAnswer) /\ Len(Without(i)) = Len(owed) - 1 BY <2>3, <2>4
  <2> QED BY <1>1, <2>5 DEF Without, Shrunk
<1>3. \A k \in 1..Len(owed') : \E j \in 1..Len(owed) : owed'[k] = owed[j]
  <2>1. SUFFICES ASSUME NEW k \in 1..Len(owed') PROVE \E j \in 1..Len(owed) : owed'[k] = owed[j]
    OBVIOUS
  <2>2. CASE k < i BY <1>2, <2>1, <2>2 DEF Shrunk
  <2>3. CASE ~(k < i)
    <3>1. k + 1 \in 1..Len(owed) BY <1>2, <2>1 DEF Shrunk
    <3> QED BY <1>2, <2>3, <3>1 DEF Shrunk
  <2> QED BY <2>2, <2>3
<1>4. Shape' BY <1>1, <1>2, <1>3 DEF Shape, ClientInv, Popped
<1>5. \A s : HasSession(s)' <=> HasSession(s) BY DEF HasSession, Has
<1>6. mRequestQueues'["tracking"].session = t /\ mRequestQueues'["geofence"].session = mRequestQueues["geofence"].session
      /\ mRequestQueues'["ni"].session = mRequestQueues["ni"].session
  BY DEF Popped, QueueOf
<1>7. Apart'
  <2>1. /\ t \in 0..(nextSession - 1) /\ ~HasSession(t)
        /\ \A k \in 1..Len(owed) : /\ owed[k].queue = "tracking" => ~HasSession(owed[k].session)
                                   /\ owed[k].queue = "session" => owed[k].session # t
    BY DEF ClientInv, Apart
  <2>2. \A k \in 1..Len(owed') : /\ owed'[k].queue = "tracking" => \A s : s = owed'[k].session => ~HasSession(s)'
                                 /\ owed'[k].queue = "session" => owed'[k].session # t
    BY <1>3, <1>5, <2>1
  <2>3. \A s : s = t => ~HasSession(s)' BY <1>5, <2>1
  <2> QED BY <1>6, <2>1, <2>2, <2>3 DEF Apart, HasSession
<1>8. OwnRequests'
  <2>1. ASSUME NEW q \in {"tracking", "geofence"}, NEW s,
               \A k \in 1..Len(mRequestQueues[q].requests) : mRequestQueues[q].requests[k].session = s
        PROVE  \A k \in 1..Len(mRequestQueues'[q].requests) : mRequestQueues'[q].requests[k].session = s
    <3>1. CASE q # r BY <2>1, <3>1 DEF Popped, QueueOf
    <3>2. CASE q = r
      <4>1. Shrunk(mRequestQueues[q].requests, 1, mRequestQueues'[q].requests) BY <3>2 DEF Popped, QueueOf
      <4>2. \A k \in 1..Len(mRequestQueues'[q].requests) :
                /\ k + 1 \in 1..Len(mRequestQueues[q].requests)
                /\ mRequestQueues'[q].requests[k] = mRequestQueues[q].requests[k + 1]
        BY <4>1 DEF Shrunk
      <4> QED BY <2>1, <4>2
    <3> QED BY <3>1, <3>2
  <2>2. /\ \A k \in 1..Len(mRequestQueues'["tracking"].requests) :
              mRequestQueues'["tracking"].requests[k].session = t
        /\ \A k \in 1..Len(mRequestQueues'["geofence"].requests) :
              mRequestQueues'["geofence"].requests[k].session = GeofenceSession
    BY <2>1 DEF ClientInv, OwnRequests
  <2>3. mRequestQueues["ni"].session \in NiIds \cup {NoSession} BY DEF ClientInv, OwnRequests
  <2>4. mLocationAPI /\ mRequestQueues["geofence"].session # GeofenceSession =>
            \A k \in 1..Len(owed') : owed'[k].queue # "geofence"
    BY <1>3 DEF ClientInv, OwnRequests
  <2> QED BY <1>6, <2>2, <2>3, <2>4 DEF OwnRequests
<1> DEFINE Now(q, s) == Cardinality(Places(owed, q, s))
           Then(q, s) == Cardinality(Places(owed', q, s))
<1>9. \A q, s : Then(q, s) = IF a.queue = q /\ a.session = s THEN Now(q, s) - 1 ELSE Now(q, s)
  BY <1>2, PlacesShrunk
<1>10. \A q, s : Now(q, s) \in Nat /\ (a.queue = q /\ a.session = s => Now(q, s) > 0)
  <2>1. \A q, s : a.queue = q /\ a.session = s => i \in Places(owed, q, s) BY DEF Places
  <2>2. \A q, s : IsFiniteSet(Places(owed, q, s)) /\ Now(q, s) \in Nat BY <1>1, PlacesFinite
  <2>3. \A q, s : Places(owed, q, s) # {} => Now(q, s) # 0 BY <2>2, FS_EmptySet
  <2> QED BY <2>1, <2>2, <2>3
<1> HIDE DEF Now, Then
<1>11. \A q \in QueueOf : /\ Waiting(q) \in Nat
                          /\ q # r => Waiting(q)' = Waiting(q)
                          /\ q = r => Waiting(q) > 0 /\ Waiting(q)' = Waiting(q) - 1
  <2>1. ASSUME NEW q \in QueueOf, q = r
        PROVE  Waiting(q) > 0 /\ Waiting(q)' = Waiting(q) - 1
    <3>1. Shrunk(mRequestQueues[q].requests, 1, mRequestQueues'[q].requests) BY <2>1 DEF Popped
    <3> QED BY <3>1 DEF Shrunk, Waiting
  <2> QED BY <2>1, Bounds DEF Popped, Waiting
<1>12. TrackingMatched'
  <2>1. SUFFICES ASSUME t \notin NiIds PROVE Waiting("tracking")' = Then("tracking", t)
    BY <1>6 DEF TrackingMatched, OwedTo, Places, Then
  <2>2. Waiting("tracking") = Now("tracking", t) BY <2>1 DEF ClientInv, TrackingMatched, OwedTo, Places, Now
  <2>3. CASE a.queue = "tracking" /\ a.session = t
    <3>1. Waiting("tracking") > 0 BY <1>10, <2>2, <2>3
    <3>2. r = "tracking" BY <2>3, <3>1 DEF Takes, Waiting, QueueOf
    <3> QED BY <1>9, <1>11, <2>2, <2>3, <3>2 DEF QueueOf
  <2>4. CASE ~(a.queue = "tracking" /\ a.session = t)
    <3>1. r # "tracking" BY <1>1, <2>1, <2>4 DEF Takes, OwedShape
    <3> QED BY <1>9, <1>11, <2>2, <2>4, <3>1 DEF QueueOf
  <2> QED BY <2>3, <2>4
<1>13. FencesMatched'
  <2> DEFINE g == GeofenceSession
  <2>1. SUFFICES ASSUME mRequestQueues["geofence"].session = g, ~resumeLost'
                 PROVE  Waiting("geofence")' = Then("geofence", g)
    BY <1>6 DEF FencesMatched, OwedTo, Places, Then
  <2>2. Waiting("geofence") = Now("geofence", g) BY <2>1 DEF ClientInv, FencesMatched, OwedTo, Places, Now
  <2>3. CASE a.queue = "geofence"
    <3>1. a.session = g BY <1>1, <2>3 DEF OwedShape
    <3>2. Waiting("geofence") > 0 BY <1>10, <2>2, <2>3, <3>1
    <3>3. r = "geofence" BY <2>1, <2>3, <3>2 DEF Takes, Waiting, QueueOf
    <3> QED BY <1>9, <1>11, <2>2, <2>3, <3>1, <3>3 DEF QueueOf
  <2>4. CASE a.queue # "geofence"
    <3>1. r # "geofence" BY <2>4 DEF Takes
    <3> QED BY <1>9, <1>11, <2>2, <2>4, <3>1 DEF QueueOf
  <2> QED BY <2>3, <2>4
<1>14. NiMatched'
  <2> DEFINE s == mRequestQueues["ni"].session
  <2>1. SUFFICES ASSUME s \notin 1..MaxSession PROVE Waiting("ni")' <= Then("ni", s)
    BY <1>6 DEF NiMatched, OwedTo, Places, Then
  <2>2. Waiting("ni") <= Now("ni", s) BY <2>1 DEF ClientInv, NiMatched, OwedTo, Places, Now
  <2>3. r = "ni" => a.queue = "ni" /\ a.session = s
    <3>1. 1..(nextSession - 1) \subseteq 1..MaxSession BY Bounds
    <3> QED BY <1>1, <2>1, <3>1 DEF Takes, OwedShape, OwedAnswer, QueueOf
  <2>4. CASE a.queue = "ni" /\ a.session = s
    <3>1. s # t
      <4>1. t \in 0..(nextSession - 1) BY DEF ClientInv, Apart
      <4>2. s # 0 BY <1>1, <2>4, Bounds DEF OwedShape, NoSession
      <4> QED BY <2>1, <4>1, <4>2, Bounds
    <3>2. Waiting("ni") > 0 => r = "ni" BY <2>4, <3>1 DEF Takes, Waiting, QueueOf
    <3>3. Now("ni", s) > 0 /\ Now("ni", s) \in Nat BY <1>10, <2>4
    <3>4. Then("ni", s) = Now("ni", s) - 1 BY <1>9, <2>4
    <3>5. CASE r = "ni" BY <1>11, <2>2, <3>3, <3>4, <3>5 DEF QueueOf
    <3>6. CASE r # "ni"
      <4>1. Waiting("ni")' = 0 BY <1>11, <3>2, <3>6 DEF QueueOf
      <4> QED BY <3>3, <3>4, <4>1
    <3> QED BY <3>5, <3>6
  <2>5. CASE ~(a.queue = "ni" /\ a.session = s)
    <3>1. Then("ni", s) = Now("ni", s) BY <1>9, <2>5
    <3>2. Waiting("ni")' = Waiting("ni") BY <1>11, <2>3, <2>5 DEF QueueOf
    <3> QED BY <2>2, <3>1, <3>2
  <2> QED BY <2>4, <2>5
<1> QED BY <1>4, <1>7, <1>8, <1>12, <1>13, <1>14 DEF ClientInv

\* An answer is matched with one of its own queues.
LEMMA DeliverIs ==
    ASSUME ClientInv, NEW i \in 1..Len(owed), NEW error, Deliver(owed[i], error)
    PROVE  Takes(i, QueueFor(owed[i])) /\ Popped(QueueFor(owed[i]))
<1> DEFINE a == owed[i]
           r == QueueFor(a)
           rq == mRequestQueues[r].requests
<1>1. OwedShape(a, nextSession) /\ a.queue \in QueueOf
  BY Bounds DEF ClientInv, Shape, OwedAnswer
<1>2. /\ a.queue = "tracking" => ~HasSession(a.session)
      /\ a.queue = "session" => a.session # mRequestQueues["tracking"].session
  BY DEF ClientInv, Apart
<1>3. \A q \in QueueOf : /\ Len(mRequestQueues[q].requests) \in Nat
                         /\ mRequestQueues[q].requests # <<>> <=> Len(mRequestQueues[q].requests) > 0
  <2>1. \A q \in QueueOf : mRequestQueues[q].requests \in Seq([session : Numbers, call : Words])
    BY Bounds
  <2> QED BY <2>1
<1>4. r \in QueueOf => rq # <<>> BY DEF QueueFor, QueueOf
<1>5. Takes(i, r)
  <2>1. "tracking" \in QueueOf /\ "geofence" \in QueueOf /\ "ni" \in QueueOf /\ "session" \in QueueOf
    BY DEF QueueOf
  <2>2. /\ mRequestQueues["tracking"].requests # <<>> <=> Len(mRequestQueues["tracking"].requests) > 0
        /\ mRequestQueues["geofence"].requests # <<>> <=> Len(mRequestQueues["geofence"].requests) > 0
        /\ mRequestQueues["ni"].requests # <<>> <=> Len(mRequestQueues["ni"].requests) > 0
    BY <1>3, <2>1
  <2>3. a.queue = "geofence" => a.session = GeofenceSession BY <1>1 DEF OwedShape
  <2>4. a.queue \in {"tracking", "session", "geofence", "ni"} BY <1>1 DEF QueueOf
  <2> QED BY <1>2, <2>1, <2>2, <2>3, <2>4 DEF Takes, QueueFor
<1>6. Popped(r)
  <2>1. CASE r = "none"
    <3>1. mRequestQueues' = mRequestQueues BY <2>1 DEF Deliver
    <3>2. r \notin QueueOf BY <2>1 DEF QueueOf
    <3> QED BY <3>1, <3>2 DEF Popped, ClientInv, Shape
  <2>2. CASE r # "none"
    <3>1. r \in QueueOf BY <2>2 DEF QueueFor, QueueOf
    <3>2. mRequestQueues' = [mRequestQueues EXCEPT ![r].requests = Tail(rq)] BY <2>2 DEF Deliver
    <3>3. mRequestQueues \in RequestQueues BY DEF ClientInv, Shape
    <3>4. mRequestQueues[r] \in [session : Numbers, requests : Seq([session : Numbers, call : Words])]
      BY <3>1, <3>3 DEF RequestQueues
    <3> DEFINE Requests == [session : Numbers, call : Words]
    <3>5. rq \in Seq(Requests) /\ rq # <<>> BY <1>4, <3>1, <3>4
    <3> HIDE DEF Requests, r, rq
    <3>6. /\ Tail(rq) \in Seq(Requests) /\ Len(rq) \in Nat /\ 1 \in 1..Len(rq)
          /\ Len(Tail(rq)) = Len(rq) - 1
          /\ \A j \in 1..Len(Tail(rq)) : Tail(rq)[j] = rq[j + 1]
      BY <3>5
    <3>7. Shrunk(rq, 1, Tail(rq)) BY <3>6 DEF Shrunk
    <3>8. mRequestQueues' \in RequestQueues BY <3>1, <3>2, <3>3, <3>4, <3>6 DEF RequestQueues, Requests
    <3>9. /\ \A q \in QueueOf : q # r => mRequestQueues'[q] = mRequestQueues[q]
          /\ mRequestQueues'[r].session = mRequestQueues[r].session
          /\ mRequestQueues'[r].requests = Tail(rq)
      BY <3>1, <3>2, <3>3, <3>4 DEF RequestQueues
    <3>10. \A q \in QueueOf : mRequestQueues'[q].session = mRequestQueues[q].session BY <3>9
    <3>11. Shrunk(mRequestQueues[r].requests, 1, mRequestQueues'[r].requests) BY <3>7, <3>9 DEF rq
    <3> QED BY <3>8, <3>9, <3>10, <3>11 DEF Popped
  <2> QED BY <2>1, <2>2
<1> QED BY <1>5, <1>6

\* An entry is changed in place: what the adapter is asked, and whether it came to it.
LEMMA ChangedInPlace ==
    ASSUME ClientInv, NEW i \in 1..Len(owed), owed' \in Seq(OwedAnswer), Len(owed') = Len(owed),
           \A k \in 1..Len(owed) : k # i => owed'[k] = owed[k],
           owed'[i].queue = owed[i].queue, owed'[i].session = owed[i].session,
           OwedShape(owed'[i], nextSession),
           UNCHANGED <<mLocationAPI, mSessionBiDict, nextSession, resumeLost>>,
           mRequestQueues' \in RequestQueues,
           \A q \in {"tracking", "geofence", "ni"} : mRequestQueues'[q].session = mRequestQueues[q].session,
           \A q \in {"tracking", "geofence"} : mRequestQueues'[q] = mRequestQueues[q],
           mRequestQueues'["ni"] = mRequestQueues["ni"] \/ mRequestQueues["ni"].session \in 1..MaxSession
    PROVE  ClientInv'
<1>1. /\ \A k \in 1..Len(owed) : owed'[k].queue = owed[k].queue /\ owed'[k].session = owed[k].session
      /\ \A k \in 1..Len(owed') : OwedShape(owed'[k], nextSession')
  BY DEF ClientInv, Shape
<1>2. \A s : HasSession(s)' <=> HasSession(s) BY DEF HasSession, Has
<1>3. /\ mSessionBiDict' \in Entities(nextSession') /\ nextSession' \in 1..(MaxSession + 1)
      /\ nextSession <= nextSession' /\ Len(owed) <= Len(owed')
  BY Bounds DEF ClientInv, Shape
<1> QED BY <1>1, <1>2, <1>3, NumberedKeeps

LEMMA AskModemKeeps ==
    ASSUME ClientInv, NEW i \in 1..Len(owed), AskModem(i)
    PROVE  ClientInv'
<1>1. owed[i] \in OwedAnswer /\ OwedShape(owed[i], nextSession) /\ owed \in Seq(OwedAnswer)
  BY Bounds DEF ClientInv, Shape
<1>2. owed' = [owed EXCEPT ![i] = [owed[i] EXCEPT !.asked = TRUE]] BY DEF AskModem
<1>3. [owed[i] EXCEPT !.asked = TRUE] \in OwedAnswer BY <1>1 DEF OwedAnswer
<1>4. owed' \in Seq(OwedAnswer) /\ Len(owed') = Len(owed) BY <1>1, <1>2, <1>3
<1>5. /\ \A k \in 1..Len(owed) : k # i => owed'[k] = owed[k]
      /\ owed'[i].queue = owed[i].queue /\ owed'[i].session = owed[i].session
      /\ owed'[i].op = owed[i].op
  BY <1>1, <1>2 DEF OwedAnswer
<1>6. OwedShape(owed'[i], nextSession) BY <1>1, <1>5 DEF OwedShape
<1>7. UNCHANGED <<mLocationAPI, mRequestQueues, mSessionBiDict, nextSession, resumeLost>>
  BY DEF AskModem, clientRest
<1>8. mRequestQueues \in RequestQueues BY DEF ClientInv, Shape
<1> QED BY <1>4, <1>5, <1>6, <1>7, <1>8, ChangedInPlace

LEMMA ForgetKeeps ==
    ASSUME ClientInv, Forget
    PROVE  ClientInv'
<1>1. UNCHANGED <<mLocationAPI, mRequestQueues, nextSession, owed, resumeLost>> BY DEF Forget, clientRest
<1>2. mSessionBiDict' = RemoveSession(forgetting) BY DEF Forget
<1>3. mSessionBiDict' \in Entities(nextSession)
  BY <1>2 DEF RemoveSession, ClientInv, Shape, Entities
<1>4. \A s : HasSession(s)' => HasSession(s) BY <1>2 DEF HasSession, Has, RemoveSession
<1>5. /\ owed \in Seq(OwedAnswer) /\ Len(owed) <= Len(owed) /\ mRequestQueues \in RequestQueues
      /\ \A k \in 1..Len(owed) : OwedShape(owed[k], nextSession)
      /\ nextSession \in 1..(MaxSession + 1) /\ nextSession <= nextSession
  BY Bounds DEF ClientInv, Shape
<1> QED BY <1>1, <1>3, <1>4, <1>5, NumberedKeeps

LEMMA AnswerAtOnceKeeps ==
    ASSUME ClientInv, NEW i \in 1..Len(owed), AnswerAtOnce(i)
    PROVE  ClientInv'
<1>1. /\ Deliver(owed[i], NotSaved(owed[i])) /\ owed' = Without(i)
      /\ UNCHANGED <<mLocationAPI, mSessionBiDict, nextSession, resumeLost>>
  BY DEF AnswerAtOnce, clientRest
<1>2. Takes(i, QueueFor(owed[i])) /\ Popped(QueueFor(owed[i])) BY <1>1, DeliverIs
<1> QED BY <1>1, <1>2, LeavesKeeps

\* BatchingAdapter says nothing; only numbered sessions ask it so.
LEMMA SayNothingKeeps ==
    ASSUME ClientInv, NEW i \in 1..Len(owed), SayNothing(i)
    PROVE  ClientInv'
<1>1. /\ owed' = Without(i) /\ owed[i].op \in {"stopBatching", "updateBatching"}
      /\ UNCHANGED <<mLocationAPI, mRequestQueues, mSessionBiDict, nextSession, resumeLost>>
  BY DEF SayNothing, clientRest
<1>2. owed[i].queue = "session" BY <1>1 DEF ClientInv, Shape, OwedShape
<1>3. Takes(i, "none") BY <1>2 DEF Takes
<1>4. Popped("none") BY <1>1 DEF Popped, QueueOf, ClientInv, Shape
<1> QED BY <1>1, <1>3, <1>4, LeavesKeeps

LEMMA ResumeRefusedKeeps ==
    ASSUME ClientInv, NEW i \in 1..Len(owed), ResumeRefused(i)
    PROVE  ClientInv'
<1>1. /\ owed' = Without(i) /\ owed[i].op = "resumeFence" /\ resumeLost' = TRUE
      /\ UNCHANGED <<mLocationAPI, mRequestQueues, mSessionBiDict, nextSession>>
  BY DEF ResumeRefused, clientRest
<1>2. owed[i].queue = "geofence" BY <1>1 DEF ClientInv, Shape, OwedShape
<1>3. Takes(i, "none") BY <1>1, <1>2 DEF Takes
<1>4. Popped("none") BY <1>1 DEF Popped, QueueOf, ClientInv, Shape
<1> QED BY <1>1, <1>3, <1>4, LeavesKeeps

LEMMA AskedForStart ==
    ASSUME NEW a \in OwedAnswer
    PROVE  [a EXCEPT !.op = "startBatching", !.call = "none"] \in OwedAnswer
<1> DEFINE b == [a EXCEPT !.op = "startBatching"]
<1>1. "startBatching" \in Words /\ "none" \in Words BY DEF Words, StartOps
<1>2. b \in OwedAnswer BY <1>1 DEF OwedAnswer
<1> HIDE DEF b
<1>3. [b EXCEPT !.call = "none"] \in OwedAnswer BY <1>1, <1>2 DEF OwedAnswer
<1>4. [a EXCEPT !.op = "startBatching", !.call = "none"] = [b EXCEPT !.call = "none"] BY DEF b
<1> QED BY <1>3, <1>4

\* The modem's answer leaves, or is the first half of one to an update of batching.
LEMMA ModemAnswersKeeps ==
    ASSUME ClientInv, NEW i \in 1..Len(owed), NEW error, ModemAnswers(i, error)
    PROVE  ClientInv'
<1> DEFINE a == owed[i]
<1>1. /\ Deliver(a, error) /\ UNCHANGED <<mLocationAPI, mSessionBiDict, nextSession, resumeLost>>
  BY DEF ModemAnswers, clientRest
<1>2. Takes(i, QueueFor(a)) /\ Popped(QueueFor(a)) BY <1>1, DeliverIs
<1>3. CASE ~(a.op = "updateBatching" /\ ~error)
  <2>1. owed' = Without(i) BY <1>3 DEF ModemAnswers
  <2> QED BY <1>1, <1>2, <2>1, LeavesKeeps
<1>4. CASE a.op = "updateBatching" /\ ~error
  <2>1. owed' = [owed EXCEPT ![i].op = "startBatching", ![i].call = "none"] BY <1>4 DEF ModemAnswers
  <2>2. a \in OwedAnswer /\ OwedShape(a, nextSession) /\ owed \in Seq(OwedAnswer)
    BY Bounds DEF ClientInv, Shape
  <2>3. owed' = [owed EXCEPT ![i] = [a EXCEPT !.op = "startBatching", !.call = "none"]]
    BY <2>1, <2>2
  <2>4. [a EXCEPT !.op = "startBatching", !.call = "none"] \in OwedAnswer BY <2>2, AskedForStart
  <2>5. owed' \in Seq(OwedAnswer) /\ Len(owed') = Len(owed) BY <2>2, <2>3, <2>4
  <2>6. /\ \A k \in 1..Len(owed) : k # i => owed'[k] = owed[k]
        /\ owed'[i].queue = a.queue /\ owed'[i].session = a.session
        /\ owed'[i].op = "startBatching"
    BY <2>2, <2>3 DEF OwedAnswer
  <2>7. a.queue = "session" /\ a.session \in 1..MaxSession
    <3>1. a.queue = "session" BY <1>4, <2>2 DEF OwedShape
    <3>2. a.session \in 1..(nextSession - 1) BY <2>2, <3>1 DEF OwedShape
    <3> QED BY <3>1, <3>2, Bounds
  <2>8. OwedShape(owed'[i], nextSession) BY <2>2, <2>6 DEF OwedShape
  <2>9. QueueFor(a) # "tracking" /\ QueueFor(a) # "geofence" BY <1>2, <2>7 DEF Takes
  <2>10. mRequestQueues'["ni"] = mRequestQueues["ni"] \/ mRequestQueues["ni"].session \in 1..MaxSession
    BY <1>2, <2>7 DEF Takes, Popped, QueueOf
  <2>11. /\ mRequestQueues' \in RequestQueues
         /\ \A q \in {"tracking", "geofence", "ni"} : mRequestQueues'[q].session = mRequestQueues[q].session
         /\ \A q \in {"tracking", "geofence"} : mRequestQueues'[q] = mRequestQueues[q]
    BY <1>2, <2>9 DEF Popped, QueueOf
  <2> QED BY <1>1, <2>5, <2>6, <2>8, <2>10, <2>11, ChangedInPlace
<1> QED BY <1>3, <1>4

-----------------------------------------------------------------------------
(* Calls *)

\* A request enters a queue, which may be given a new session first.
LEMMA PushIs ==
    ASSUME NEW queues \in RequestQueues, NEW q \in QueueOf, NEW s \in Numbers, NEW call \in Words
    PROVE  /\ Push(queues, q, s, call) \in RequestQueues
           /\ \A p \in QueueOf : p # q => Push(queues, q, s, call)[p] = queues[p]
           /\ Push(queues, q, s, call)[q].session = queues[q].session
           /\ Grown(queues[q].requests, Request(s, call), Push(queues, q, s, call)[q].requests)
<1> DEFINE Requests == [session : Numbers, call : Words]
           rq == queues[q].requests
           rq2 == Append(rq, Request(s, call))
<1>1. queues[q] \in [session : Numbers, requests : Seq(Requests)] BY DEF RequestQueues
<1>2. rq \in Seq(Requests) /\ Request(s, call) \in Requests BY <1>1 DEF Request
<1> HIDE DEF Requests
<1>3. /\ rq2 \in Seq(Requests) /\ Len(rq) \in Nat /\ Len(rq2) = Len(rq) + 1
      /\ \A k \in 1..Len(rq) : rq2[k] = rq[k]
      /\ rq2[Len(rq) + 1] = Request(s, call)
  BY <1>2
<1>4. Grown(rq, Request(s, call), rq2) BY <1>3 DEF Grown
<1>5. Push(queues, q, s, call) = [queues EXCEPT ![q] = [queues[q] EXCEPT !.requests = rq2]]
  BY DEF Push
<1>6. [queues[q] EXCEPT !.requests = rq2] \in [session : Numbers, requests : Seq(Requests)]
      /\ [queues[q] EXCEPT !.requests = rq2].session = queues[q].session
      /\ [queues[q] EXCEPT !.requests = rq2].requests = rq2
  BY <1>1, <1>3
<1> QED BY <1>4, <1>5, <1>6 DEF RequestQueues, Requests

LEMMA ResetIs ==
    ASSUME mRequestQueues \in RequestQueues, NEW q \in QueueOf, NEW s \in Numbers
    PROVE  /\ Reset(q, s) \in RequestQueues
           /\ \A p \in QueueOf : p # q => Reset(q, s)[p] = mRequestQueues[p]
           /\ Reset(q, s)[q] = [session |-> s, requests |-> <<>>]
<1>1. [session |-> s, requests |-> <<>>] \in [session : Numbers, requests : Seq([session : Numbers, call : Words])]
  OBVIOUS
<1>2. q \in DOMAIN mRequestQueues BY DEF RequestQueues
<1> QED BY <1>1, <1>2 DEF Reset, RequestQueues

\* Something is owed.
LEMMA OweIs ==
    ASSUME ClientInv, NEW q \in QueueOf, NEW s \in Numbers, NEW op \in Words, NEW call \in Words,
           owed' = Append(owed, Owe(q, s, op, call))
    PROVE  /\ owed' \in Seq(OwedAnswer) /\ Grown(owed, Owe(q, s, op, call), owed')
           /\ Owe(q, s, op, call).queue = q /\ Owe(q, s, op, call).session = s
           /\ Owe(q, s, op, call).op = op
<1> DEFINE a == Owe(q, s, op, call)
<1>1. owed \in Seq(OwedAnswer) /\ a \in OwedAnswer /\ owed' = Append(owed, a)
  BY Bounds DEF Owe, OwedAnswer
<1> HIDE DEF a
<1>2. /\ owed' \in Seq(OwedAnswer) /\ Len(owed) \in Nat /\ Len(owed') = Len(owed) + 1
      /\ \A k \in 1..Len(owed) : owed'[k] = owed[k]
      /\ owed'[Len(owed) + 1] = a
  BY <1>1
<1>3. Grown(owed, a, owed') BY <1>2 DEF Grown
<1> QED BY <1>2, <1>3 DEF Owe, a

\* Where an item of the longer sequence comes from.
LEMMA GrownFrom ==
    ASSUME NEW o, NEW a, NEW o2, Grown(o, a, o2), NEW k \in 1..Len(o2)
    PROVE  (k \in 1..Len(o) /\ o2[k] = o[k]) \/ (k = Len(o) + 1 /\ o2[k] = a)
BY DEF Grown

\* Several things are owed to numbered sessions.
LEMMA NumberedCall ==
    ASSUME ClientInv, NEW s, NEW call, NEW ops \in Seq(OwedAnswer), SessionCall(s, call, ops),
           nextSession' \in 1..(MaxSession + 1), nextSession <= nextSession',
           \A k \in 1..Len(ops) : /\ OwedShape(ops[k], nextSession') /\ ops[k].queue = "session"
                                  /\ ops[k].session # mRequestQueues["tracking"].session,
           mRequestQueues' \in RequestQueues,
           \A q \in QueueOf : q # "session" => mRequestQueues'[q] = mRequestQueues[q],
           mSessionBiDict' \in Entities(nextSession'),
           \A x : HasSession(x)' => HasSession(x) \/ x = nextSession
    PROVE  ClientInv'
<1>1. owed' = owed \o ops /\ UNCHANGED <<mLocationAPI, resumeLost>> BY DEF SessionCall
<1>2. owed \in Seq(OwedAnswer) /\ Len(owed) \in Nat /\ Len(ops) \in Nat BY Bounds
<1>3. /\ owed' \in Seq(OwedAnswer) /\ Len(owed') = Len(owed) + Len(ops)
      /\ \A k \in 1..Len(owed) : owed'[k] = owed[k]
      /\ \A k \in 1..Len(owed') : k \notin 1..Len(owed) =>
             k - Len(owed) \in 1..Len(ops) /\ owed'[k] = ops[k - Len(owed)]
  BY <1>1, <1>2
<1>4. \A k \in 1..Len(owed) : OwedShape(owed[k], nextSession')
  BY Bounds DEF ClientInv, Shape, OwedShape
<1>5. \A k \in 1..Len(owed') : OwedShape(owed'[k], nextSession') BY <1>3, <1>4
<1>6. \A k \in 1..Len(owed') : k \notin 1..Len(owed) =>
          owed'[k].queue = "session" /\ owed'[k].session # mRequestQueues["tracking"].session
  BY <1>3
<1>7. /\ mRequestQueues'["tracking"] = mRequestQueues["tracking"]
      /\ mRequestQueues'["geofence"] = mRequestQueues["geofence"]
      /\ mRequestQueues'["ni"] = mRequestQueues["ni"]
  BY DEF QueueOf
<1>8. Len(owed) <= Len(owed')
      /\ \A k \in 1..Len(owed) : owed'[k].queue = owed[k].queue /\ owed'[k].session = owed[k].session
  BY <1>2, <1>3
<1> QED BY <1>1, <1>3, <1>5, <1>6, <1>7, <1>8, NumberedKeeps

\* What is owed to a numbered session.
LEMMA OweNumbered ==
    ASSUME NEW next \in Nat, NEW s \in 1..(next - 1), NEW op \in Words, NEW call \in Words, op # "resumeFence",
           NEW a, a = Owe("session", s, op, call)
    PROVE  a \in OwedAnswer /\ OwedShape(a, next) /\ a.queue = "session" /\ a.session = s
BY DEF Owe, OwedAnswer, OwedShape, QueueOf, Numbers

\* The clients' words are ones of those that adapters know.
LEMMA WordsAre ==
    ASSUME NEW mode
    PROVE  /\ StartOf(mode) \in Words /\ StopOf(mode) \in Words /\ UpdateOf(mode) \in Words
           /\ StartOf(mode) # "resumeFence" /\ StopOf(mode) # "resumeFence" /\ UpdateOf(mode) # "resumeFence"
           /\ "none" \in Words /\ "getBatched" \in Words /\ "ni" \in Words
           /\ FenceOps \subseteq Words /\ {"startTracking", "stopTracking", "updateTracking"} \subseteq Words
BY DEF StartOf, StopOf, UpdateOf, Words, StartOps, StopOps, FenceOps

\* What was numbered stays so.
LEMMA MoreNumbers ==
    ASSUME ClientInv, nextSession' \in 1..(MaxSession + 1), nextSession <= nextSession'
    PROVE  mSessionBiDict \in Entities(nextSession')
<1>1. mSessionBiDict \in Entities(nextSession) BY DEF ClientInv, Shape
<1>2. 1..(nextSession - 1) \subseteq 1..(nextSession' - 1) BY Bounds
<1>3. \A i \in SessionIds :
          mSessionBiDict[i] \in [session : 1..(nextSession' - 1), mode : Modes] \cup {NoEntity}
  <2>1. SUFFICES ASSUME NEW i \in SessionIds, mSessionBiDict[i] # NoEntity
                 PROVE  mSessionBiDict[i] \in [session : 1..(nextSession' - 1), mode : Modes]
    OBVIOUS
  <2>2. mSessionBiDict[i] \in [session : 1..(nextSession - 1), mode : Modes]
    BY <1>1, <2>1 DEF Entities
  <2> QED BY <1>2, <2>2
<1> QED BY <1>1, <1>3 DEF Entities

\* A session is given the next number.
LEMMA NextNamed ==
    ASSUME ClientInv, Fresh, NEW id \in SessionIds, NEW mode \in Modes, nextSession' = nextSession + 1,
           mSessionBiDict' = [mSessionBiDict EXCEPT ![id] = [session |-> nextSession, mode |-> mode]]
    PROVE  /\ nextSession' \in 1..(MaxSession + 1) /\ nextSession <= nextSession'
           /\ nextSession \in 1..(nextSession' - 1)
           /\ mSessionBiDict' \in Entities(nextSession')
           /\ \A x : HasSession(x)' => HasSession(x) \/ x = nextSession
           /\ mRequestQueues["tracking"].session # nextSession
<1>1. nextSession' \in 1..(MaxSession + 1) /\ nextSession <= nextSession' /\ nextSession \in 1..(nextSession' - 1)
  BY Bounds DEF Fresh
<1>2. mSessionBiDict \in Entities(nextSession) BY DEF ClientInv, Shape
<1>3. mSessionBiDict' \in Entities(nextSession')
  <2>2. mSessionBiDict \in Entities(nextSession') BY <1>1, MoreNumbers
  <2>3. [session |-> nextSession, mode |-> mode] \in [session : 1..(nextSession' - 1), mode : Modes]
    BY <1>1
  <2> QED BY <2>2, <2>3 DEF Entities
<1>4. \A x : HasSession(x)' => HasSession(x) \/ x = nextSession
  <2>1. \A i \in SessionIds : mSessionBiDict'[i] = IF i = id THEN [session |-> nextSession, mode |-> mode]
                                                   ELSE mSessionBiDict[i]
    BY <1>2 DEF Entities
  <2> QED BY <2>1 DEF HasSession, Has
<1>5. mRequestQueues["tracking"].session # nextSession
  <2>1. mRequestQueues["tracking"].session \in 0..(nextSession - 1) BY DEF ClientInv, Apart
  <2> QED BY <2>1, Bounds
<1> QED BY <1>1, <1>3, <1>4, <1>5

LEMMA StartSessionKeeps ==
    ASSUME ClientInv, NEW id \in SessionIds, NEW mode \in Modes, StartSession(id, mode)
    PROVE  ClientInv'
<1> DEFINE s == nextSession
           a == Owe("session", s, StartOf(mode), StartOf(mode))
           queues == IF mode = "onFix" THEN mRequestQueues ELSE [mRequestQueues EXCEPT !["session"].session = s]
<1>1. /\ Fresh /\ SessionCall(s, StartOf(mode), <<a>>) /\ nextSession' = nextSession + 1
      /\ mRequestQueues' = Push(queues, "session", s, StartOf(mode))
      /\ mSessionBiDict' = [mSessionBiDict EXCEPT ![id] = [session |-> s, mode |-> mode]]
  BY DEF StartSession
<1>2. /\ nextSession' \in 1..(MaxSession + 1) /\ nextSession <= nextSession' /\ s \in 1..(nextSession' - 1)
      /\ mSessionBiDict' \in Entities(nextSession')
      /\ \A x : HasSession(x)' => HasSession(x) \/ x = nextSession
      /\ mRequestQueues["tracking"].session # s
  BY <1>1, NextNamed
<1>3. s \in Numbers /\ nextSession' \in Nat BY <1>2, Bounds DEF Numbers
<1>4. queues \in RequestQueues /\ \A q \in QueueOf : q # "session" => queues[q] = mRequestQueues[q]
  BY <1>3 DEF RequestQueues, QueueOf, ClientInv, Shape
<1>5. mRequestQueues' \in RequestQueues /\ \A q \in QueueOf : q # "session" => mRequestQueues'[q] = mRequestQueues[q]
  <2> HIDE DEF queues
  <2>1. "session" \in QueueOf /\ StartOf(mode) \in Words BY WordsAre DEF QueueOf
  <2>2. /\ Push(queues, "session", s, StartOf(mode)) \in RequestQueues
        /\ \A q \in QueueOf : q # "session" => Push(queues, "session", s, StartOf(mode))[q] = queues[q]
    BY <1>3, <1>4, <2>1, PushIs
  <2> QED BY <1>1, <1>4, <2>2
<1>6. a \in OwedAnswer /\ OwedShape(a, nextSession') /\ a.queue = "session" /\ a.session = s
  <2>1. StartOf(mode) \in Words /\ StartOf(mode) # "resumeFence" BY WordsAre
  <2>2. a = Owe("session", s, StartOf(mode), StartOf(mode)) OBVIOUS
  <2>3. nextSession' \in Nat /\ s \in 1..(nextSession' - 1) BY <1>2, <1>3
  <2> HIDE DEF a, s
  <2>4. PICK n : n = nextSession' OBVIOUS
  <2>5. n \in Nat /\ s \in 1..(n - 1) BY <2>3, <2>4
  <2>6. a \in OwedAnswer /\ OwedShape(a, n) /\ a.queue = "session" /\ a.session = s
    BY <2>1, <2>2, <2>5, OweNumbered
  <2> QED BY <2>4, <2>6
<1> HIDE DEF a
<1>7. <<a>> \in Seq(OwedAnswer) /\ Len(<<a>>) = 1 /\ <<a>>[1] = a BY <1>6
<1>8. \A k \in 1..Len(<<a>>) : <<a>>[k] = a BY <1>7
<1> QED BY <1>1, <1>2, <1>5, <1>6, <1>7, <1>8, NumberedCall

\* A session that has a name is asked about.
LEMMA AskSessionKeeps ==
    ASSUME ClientInv, NEW id \in SessionIds, Has(id), NEW op \in Words, op # "resumeFence", AskSession(id, op)
    PROVE  ClientInv'
<1> DEFINE s == mSessionBiDict[id].session
           a == Owe("session", s, op, op)
<1>1. /\ SessionCall(s, op, <<a>>) /\ UNCHANGED <<mSessionBiDict, nextSession>>
      /\ mRequestQueues' = Push(mRequestQueues, "session", s, op)
  BY DEF AskSession
<1>2. s \in 1..(nextSession - 1) /\ HasSession(s) BY NamedIsNumbered
<1>3. s \in Numbers /\ nextSession \in Nat BY <1>2, Bounds DEF Numbers
<1>4. s # mRequestQueues["tracking"].session BY <1>2 DEF ClientInv, Apart
<1>5. a \in OwedAnswer /\ OwedShape(a, nextSession) /\ a.queue = "session" /\ a.session = s
  <2>1. a = Owe("session", s, op, op) OBVIOUS
  <2> HIDE DEF a, s
  <2> QED BY <1>2, <1>3, <2>1, OweNumbered
<1>6. mRequestQueues' \in RequestQueues /\ \A q \in QueueOf : q # "session" => mRequestQueues'[q] = mRequestQueues[q]
  <2>1. "session" \in QueueOf /\ mRequestQueues \in RequestQueues BY DEF QueueOf, ClientInv, Shape
  <2> QED BY <1>1, <1>3, <2>1, PushIs
<1>7. \A x : HasSession(x)' <=> HasSession(x) BY <1>1 DEF HasSession, Has
<1>8. /\ nextSession' \in 1..(MaxSession + 1) /\ nextSession <= nextSession'
      /\ mSessionBiDict' \in Entities(nextSession')
  BY <1>1, Bounds DEF ClientInv, Shape
<1> HIDE DEF a
<1>9. <<a>> \in Seq(OwedAnswer) /\ Len(<<a>>) = 1 /\ <<a>>[1] = a BY <1>5
<1>10. \A k \in 1..Len(<<a>>) : <<a>>[k] = a BY <1>9
<1> QED BY <1>1, <1>4, <1>5, <1>6, <1>7, <1>8, <1>9, <1>10, NumberedCall

LEMMA SwitchSessionKeeps ==
    ASSUME ClientInv, NEW id \in SessionIds, NEW mode \in Modes, SwitchSession(id, mode)
    PROVE  ClientInv'
<1> DEFINE s == nextSession
           e == mSessionBiDict[id]
           a == Owe("session", e.session, StopOf(e.mode), "none")
           b == Owe("session", s, StartOf(mode), UpdateOf(mode))
           pushed == Push(mRequestQueues, "session", s, UpdateOf(mode))
           other == IF mode = "onFix" THEN NoSession ELSE s
<1>1. /\ Fresh /\ Has(id) /\ SessionCall(s, UpdateOf(mode), <<a, b>>) /\ nextSession' = nextSession + 1
      /\ mRequestQueues' = [pushed EXCEPT !["session"].session = other]
      /\ mSessionBiDict' = [mSessionBiDict EXCEPT ![id] = [session |-> s, mode |-> mode]]
  BY DEF SwitchSession
<1>2. /\ nextSession' \in 1..(MaxSession + 1) /\ nextSession <= nextSession' /\ s \in 1..(nextSession' - 1)
      /\ mSessionBiDict' \in Entities(nextSession')
      /\ \A x : HasSession(x)' => HasSession(x) \/ x = nextSession
      /\ mRequestQueues["tracking"].session # s
  BY <1>1, NextNamed
<1>3. e.session \in 1..(nextSession' - 1) /\ e.session # mRequestQueues["tracking"].session
  <2>1. e.session \in 1..(nextSession - 1) /\ HasSession(e.session) BY <1>1, NamedIsNumbered
  <2> QED BY <1>2, <2>1, Bounds DEF ClientInv, Apart
<1>4. s \in Numbers /\ nextSession' \in Nat /\ other \in Numbers BY <1>2, Bounds DEF Numbers, NoSession
<1>5. mRequestQueues' \in RequestQueues /\ \A q \in QueueOf : q # "session" => mRequestQueues'[q] = mRequestQueues[q]
  <2>1. "session" \in QueueOf /\ mRequestQueues \in RequestQueues BY DEF QueueOf, ClientInv, Shape
  <2>2. pushed \in RequestQueues /\ \A q \in QueueOf : q # "session" => pushed[q] = mRequestQueues[q]
    BY <1>4, <2>1, PushIs, WordsAre
  <2> HIDE DEF pushed, other
  <2> QED BY <1>1, <1>4, <2>1, <2>2 DEF RequestQueues
<1>6. /\ a \in OwedAnswer /\ OwedShape(a, nextSession') /\ a.queue = "session" /\ a.session = e.session
      /\ b \in OwedAnswer /\ OwedShape(b, nextSession') /\ b.queue = "session" /\ b.session = s
  <2> DEFINE old == e.session
  <2>1. old \in 1..(nextSession' - 1) BY <1>3
  <2>2. /\ StopOf(e.mode) \in Words /\ StopOf(e.mode) # "resumeFence" /\ "none" \in Words
        /\ StartOf(mode) \in Words /\ StartOf(mode) # "resumeFence" /\ UpdateOf(mode) \in Words
    BY WordsAre
  <2> HIDE DEF old
  <2>3. ASSUME NEW op \in Words, op # "resumeFence", NEW call \in Words,
               NEW n \in 1..(nextSession' - 1), NEW x, x = Owe("session", n, op, call)
        PROVE  x \in OwedAnswer /\ OwedShape(x, nextSession') /\ x.queue = "session" /\ x.session = n
    <3>1. PICK m : m = nextSession' OBVIOUS
    <3>2. m \in Nat /\ n \in 1..(m - 1) BY <1>4, <2>3, <3>1
    <3>3. x \in OwedAnswer /\ OwedShape(x, m) /\ x.queue = "session" /\ x.session = n
      BY <2>3, <3>2, OweNumbered
    <3> QED BY <3>1, <3>3
  <2>4. a = Owe("session", old, StopOf(e.mode), "none") BY DEF old
  <2>5. s \in 1..(nextSession' - 1) BY <1>2
  <2>6. a \in OwedAnswer /\ OwedShape(a, nextSession') /\ a.queue = "session" /\ a.session = old
    <3> HIDE DEF a
    <3> QED BY <2>1, <2>2, <2>3, <2>4
  <2>7. b \in OwedAnswer /\ OwedShape(b, nextSession') /\ b.queue = "session" /\ b.session = s
    <3>1. b = Owe("session", s, StartOf(mode), UpdateOf(mode)) OBVIOUS
    <3> HIDE DEF b, s
    <3> QED BY <2>2, <2>3, <2>5, <3>1
  <2> QED BY <2>6, <2>7 DEF old
<1> HIDE DEF a, b
<1>7. <<a, b>> \in Seq(OwedAnswer) /\ Len(<<a, b>>) = 2 /\ <<a, b>>[1] = a /\ <<a, b>>[2] = b BY <1>6
<1>8. \A k \in 1..Len(<<a, b>>) : <<a, b>>[k] = a \/ <<a, b>>[k] = b
  <2>1. \A k \in 1..2 : k = 1 \/ k = 2 OBVIOUS
  <2> QED BY <1>7, <2>1
<1>9. \A k \in 1..Len(<<a, b>>) : /\ OwedShape(<<a, b>>[k], nextSession') /\ <<a, b>>[k].queue = "session"
                                  /\ <<a, b>>[k].session # mRequestQueues["tracking"].session
  BY <1>2, <1>3, <1>6, <1>8
<1> QED BY <1>1, <1>2, <1>5, <1>7, <1>9, NumberedCall

\* A call of another queue is made: its request enters that queue, which may have been given a
\* session first, so that as many requests wait there as answers are owed.
LEMMA OtherCall ==
    ASSUME ClientInv, mLocationAPI, UNCHANGED <<mSessionBiDict, mLocationAPI, resumeLost>>,
           nextSession' \in 1..(MaxSession + 1), nextSession <= nextSession',
           NEW a, a.queue \in {"tracking", "geofence", "ni"}, OwedShape(a, nextSession'),
           Grown(owed, a, owed'), owed' \in Seq(OwedAnswer),
           mRequestQueues' \in RequestQueues,
           \A q \in QueueOf : q # a.queue => mRequestQueues'[q] = mRequestQueues[q],
           mRequestQueues'[a.queue].session = a.session,
           a.queue # "ni" => \A k \in 1..Len(mRequestQueues'[a.queue].requests) :
                                 mRequestQueues'[a.queue].requests[k].session = a.session,
           a.queue = "tracking" => /\ ~HasSession(a.session)
                                   /\ \A k \in 1..Len(owed) : owed[k].queue = "session" => owed[k].session # a.session,
           a.queue # "ni" => Len(mRequestQueues'[a.queue].requests) = Cardinality(Places(owed, a.queue, a.session)) + 1
                             \/ (a.queue = "tracking" /\ a.session \in NiIds) \/ (a.queue = "geofence" /\ resumeLost),
           a.queue = "ni" => Len(mRequestQueues'[a.queue].requests) = 1
    PROVE  ClientInv'
<1>1. /\ Len(owed) \in Nat /\ Len(owed') = Len(owed) + 1 /\ owed'[Len(owed) + 1] = a
      /\ \A k \in 1..Len(owed) : owed'[k] = owed[k]
  BY DEF Grown
<1>2. \A k \in 1..Len(owed') : (k \in 1..Len(owed) /\ owed'[k] = owed[k]) \/ owed'[k] = a
  BY GrownFrom
<1>3. Shape'
  <2>1. \A k \in 1..Len(owed) : OwedShape(owed[k], nextSession')
    BY Bounds DEF ClientInv, Shape, OwedShape
  <2>2. \A k \in 1..Len(owed') : OwedShape(owed'[k], nextSession') BY <1>2, <2>1
  <2> QED BY <2>2, MoreNumbers DEF Shape
<1>4. \A s : HasSession(s)' <=> HasSession(s) BY DEF HasSession, Has
<1>5. mRequestQueues'["tracking"].session \in 0..(nextSession' - 1) /\ ~HasSession(mRequestQueues'["tracking"].session)
  <2>1. CASE a.queue = "tracking" BY <2>1, Bounds DEF OwedShape
  <2>2. CASE a.queue # "tracking" BY <2>2, Bounds DEF ClientInv, Apart, QueueOf
  <2> QED BY <2>1, <2>2
<1>6. Apart'
  <2>1. /\ \A k \in 1..Len(owed) : /\ owed[k].queue = "tracking" => ~HasSession(owed[k].session)
                                   /\ owed[k].queue = "session" => owed[k].session # mRequestQueues["tracking"].session
    BY DEF ClientInv, Apart
  <2>2. \A k \in 1..Len(owed) : owed[k].queue = "session" => owed[k].session # mRequestQueues'["tracking"].session
    BY <2>1 DEF QueueOf
  <2>3. \A k \in 1..Len(owed') : /\ owed'[k].queue = "tracking" => ~HasSession(owed'[k].session)
                                 /\ owed'[k].queue = "session" => owed'[k].session # mRequestQueues'["tracking"].session
    BY <1>2, <2>1, <2>2
  <2> QED BY <1>4, <1>5, <2>3 DEF Apart, HasSession, Has
<1>7. OwnRequests'
  <2>1. /\ \A k \in 1..Len(mRequestQueues["tracking"].requests) :
              mRequestQueues["tracking"].requests[k].session = mRequestQueues["tracking"].session
        /\ \A k \in 1..Len(mRequestQueues["geofence"].requests) :
              mRequestQueues["geofence"].requests[k].session = GeofenceSession
        /\ mRequestQueues["ni"].session \in NiIds \cup {NoSession}
        /\ mRequestQueues["geofence"].session # GeofenceSession =>
              \A k \in 1..Len(owed) : owed[k].queue # "geofence"
    BY DEF ClientInv, OwnRequests
  <2>2. a.queue = "geofence" => a.session = GeofenceSession BY DEF OwedShape
  <2>3. a.queue = "ni" => a.session \in NiIds BY DEF OwedShape
  <2>4. {"tracking", "geofence", "ni"} \subseteq QueueOf BY DEF QueueOf
  <2>5. CASE a.queue = "tracking"
    <3>1. mRequestQueues'["geofence"] = mRequestQueues["geofence"] /\ mRequestQueues'["ni"] = mRequestQueues["ni"]
      BY <2>4, <2>5
    <3>2. \A k \in 1..Len(owed') : owed'[k].queue = "geofence" => k \in 1..Len(owed) /\ owed'[k] = owed[k]
      BY <1>2, <2>5
    <3> QED BY <2>1, <2>5, <3>1, <3>2 DEF OwnRequests
  <2>6. CASE a.queue = "geofence"
    <3>1. mRequestQueues'["tracking"] = mRequestQueues["tracking"] /\ mRequestQueues'["ni"] = mRequestQueues["ni"]
      BY <2>4, <2>6
    <3> QED BY <2>1, <2>2, <2>6, <3>1 DEF OwnRequests
  <2>7. CASE a.queue = "ni"
    <3>1. mRequestQueues'["tracking"] = mRequestQueues["tracking"] /\ mRequestQueues'["geofence"] = mRequestQueues["geofence"]
      BY <2>4, <2>7
    <3>2. \A k \in 1..Len(owed') : owed'[k].queue = "geofence" => k \in 1..Len(owed) /\ owed'[k] = owed[k]
      BY <1>2, <2>7
    <3> QED BY <2>1, <2>3, <2>7, <3>1, <3>2 DEF OwnRequests
  <2> QED BY <2>5, <2>6, <2>7
<1> DEFINE Now(q, s) == Cardinality(Places(owed, q, s))
           Then(q, s) == Cardinality(Places(owed', q, s))
<1>8. \A q, s : Then(q, s) = IF a.queue = q /\ a.session = s THEN Now(q, s) + 1 ELSE Now(q, s)
  BY PlacesGrown
<1>9. \A q, s : Now(q, s) \in Nat BY <1>1, PlacesFinite
<1>10. \A q \in QueueOf : q # a.queue => mRequestQueues'[q] = mRequestQueues[q] OBVIOUS
<1>11. {"tracking", "geofence", "ni"} \subseteq QueueOf BY DEF QueueOf
<1> HIDE DEF Now, Then
<1>12. TrackingMatched'
  <2> DEFINE t == mRequestQueues'["tracking"].session
  <2>1. SUFFICES ASSUME t \notin NiIds PROVE Len(mRequestQueues'["tracking"].requests) = Then("tracking", t)
    BY DEF TrackingMatched, OwedTo, Places, Waiting, Then
  <2>2. CASE a.queue = "tracking"
    <3>1. a.session = t BY <2>2
    <3>2. Len(mRequestQueues'["tracking"].requests) = Now("tracking", t) + 1
      BY <2>1, <2>2, <3>1 DEF Now
    <3> QED BY <1>8, <2>2, <3>1, <3>2
  <2>3. CASE a.queue # "tracking"
    <3>1. mRequestQueues'["tracking"] = mRequestQueues["tracking"] BY <1>10, <1>11, <2>3
    <3>2. Len(mRequestQueues["tracking"].requests) = Now("tracking", t)
      BY <2>1, <3>1 DEF ClientInv, TrackingMatched, OwedTo, Places, Waiting, Now
    <3> QED BY <1>8, <2>3, <3>1, <3>2
  <2> QED BY <2>2, <2>3
<1>13. FencesMatched'
  <2> DEFINE g == GeofenceSession
  <2>1. SUFFICES ASSUME mRequestQueues'["geofence"].session = g, ~resumeLost
                 PROVE  Len(mRequestQueues'["geofence"].requests) = Then("geofence", g)
    BY DEF FencesMatched, OwedTo, Places, Waiting, Then
  <2>2. CASE a.queue = "geofence" BY <1>8, <2>1, <2>2 DEF Now, OwedShape
  <2>3. CASE a.queue # "geofence"
    <3>1. mRequestQueues'["geofence"] = mRequestQueues["geofence"] BY <1>10, <1>11, <2>3
    <3>2. Len(mRequestQueues["geofence"].requests) = Now("geofence", g)
      BY <2>1, <3>1 DEF ClientInv, FencesMatched, OwedTo, Places, Waiting, Now
    <3> QED BY <1>8, <2>3, <3>1, <3>2
  <2> QED BY <2>2, <2>3
<1>14. NiMatched'
  <2> DEFINE s == mRequestQueues'["ni"].session
  <2>1. SUFFICES ASSUME s \notin 1..MaxSession PROVE Len(mRequestQueues'["ni"].requests) <= Then("ni", s)
    BY DEF NiMatched, OwedTo, Places, Waiting, Then
  <2>2. CASE a.queue = "ni"
    <3>1. a.session = s /\ Len(mRequestQueues'["ni"].requests) = 1 BY <2>2
    <3>2. Then("ni", s) = Now("ni", s) + 1 /\ Now("ni", s) \in Nat BY <1>8, <1>9, <2>2, <3>1
    <3> QED BY <3>1, <3>2
  <2>3. CASE a.queue # "ni"
    <3>1. mRequestQueues'["ni"] = mRequestQueues["ni"] BY <1>10, <1>11, <2>3
    <3>2. Len(mRequestQueues["ni"].requests) <= Now("ni", s)
      BY <2>1, <3>1 DEF ClientInv, NiMatched, OwedTo, Places, Waiting, Now
    <3> QED BY <1>8, <2>3, <3>1, <3>2
  <2> QED BY <2>2, <2>3
<1> QED BY <1>3, <1>6, <1>7, <1>12, <1>13, <1>14 DEF ClientInv

LEMMA StartTrackingKeeps ==
    ASSUME ClientInv, StartTracking
    PROVE  ClientInv'
<1> DEFINE s == nextSession
           a == Owe("tracking", s, "startTracking", "startTracking")
           queues == Reset("tracking", s)
<1>1. /\ mLocationAPI /\ Fresh /\ owed' = Append(owed, a) /\ nextSession' = nextSession + 1
      /\ mRequestQueues' = Push(queues, "tracking", s, "startTracking")
      /\ UNCHANGED <<mSessionBiDict, mLocationAPI, resumeLost>>
  BY DEF StartTracking, Callable
<1>2. /\ nextSession' \in 1..(MaxSession + 1) /\ nextSession <= nextSession' /\ s \in Numbers
      /\ s \in 1..(nextSession' - 1) /\ s \in Nat
  BY <1>1, Bounds DEF Fresh, Numbers
<1>3. "tracking" \in QueueOf /\ mRequestQueues \in RequestQueues BY DEF QueueOf, ClientInv, Shape
<1>4. /\ queues \in RequestQueues /\ queues["tracking"] = [session |-> s, requests |-> <<>>]
      /\ \A q \in QueueOf : q # "tracking" => queues[q] = mRequestQueues[q]
  BY <1>2, <1>3, ResetIs
<1>5. "startTracking" \in Words BY WordsAre
<1>6. /\ owed' \in Seq(OwedAnswer) /\ Grown(owed, a, owed') /\ a.queue = "tracking" /\ a.session = s
      /\ a.op = "startTracking"
  BY <1>1, <1>2, <1>3, <1>5, OweIs
<1>7. OwedShape(a, nextSession') BY <1>2, <1>6 DEF OwedShape
<1> HIDE DEF queues
<1>8. /\ mRequestQueues' \in RequestQueues
      /\ \A q \in QueueOf : q # "tracking" => mRequestQueues'[q] = queues[q]
      /\ mRequestQueues'["tracking"].session = queues["tracking"].session
      /\ Grown(queues["tracking"].requests, Request(s, "startTracking"), mRequestQueues'["tracking"].requests)
  BY <1>1, <1>2, <1>3, <1>4, <1>5, PushIs
<1>9. /\ Len(mRequestQueues'["tracking"].requests) = 1
      /\ \A k \in 1..1 : mRequestQueues'["tracking"].requests[k].session = s
  BY <1>4, <1>8 DEF Grown, Request
<1>10. \A k \in 1..Len(owed) : owed[k].queue \in {"tracking", "session"} => owed[k].session # s
  BY <1>2 DEF ClientInv, Shape, OwedShape
<1>11. ~HasSession(s)
  <2>1. ASSUME NEW id \in SessionIds, Has(id) PROVE mSessionBiDict[id].session # s
    <3>1. mSessionBiDict[id].session \in 1..(nextSession - 1) BY <2>1, NamedIsNumbered
    <3> QED BY <1>2, <3>1
  <2> QED BY <2>1 DEF HasSession
<1>12. Cardinality(Places(owed, "tracking", s)) = 0
  <2>1. Places(owed, "tracking", s) = {} BY <1>10 DEF Places
  <2> QED BY <2>1, FS_EmptySet
<1> HIDE DEF a, s
<1>13. \A q \in QueueOf : q # "tracking" => mRequestQueues'[q] = mRequestQueues[q] BY <1>4, <1>8
<1>14. /\ mRequestQueues'["tracking"].session = s
       /\ Len(mRequestQueues'["tracking"].requests) = Cardinality(Places(owed, "tracking", s)) + 1
  BY <1>4, <1>8, <1>9, <1>12
<1>15. /\ a.queue \in {"tracking", "geofence", "ni"} /\ a.queue # "ni" /\ a.queue # "geofence"
       /\ \A q \in QueueOf : q # a.queue => mRequestQueues'[q] = mRequestQueues[q]
       /\ mRequestQueues'[a.queue].session = a.session
       /\ \A k \in 1..Len(mRequestQueues'[a.queue].requests) :
             mRequestQueues'[a.queue].requests[k].session = a.session
       /\ ~HasSession(a.session)
       /\ \A k \in 1..Len(owed) : owed[k].queue = "session" => owed[k].session # a.session
       /\ \/ Len(mRequestQueues'[a.queue].requests) = Cardinality(Places(owed, a.queue, a.session)) + 1
          \/ a.queue = "tracking" /\ a.session \in NiIds
  BY <1>6, <1>9, <1>10, <1>11, <1>13, <1>14
<1>16. mLocationAPI /\ UNCHANGED <<mSessionBiDict, mLocationAPI, resumeLost>> BY <1>1
<1>17. nextSession' \in 1..(MaxSession + 1) /\ nextSession <= nextSession' BY <1>2
<1>18. owed' \in Seq(OwedAnswer) /\ Grown(owed, a, owed') /\ mRequestQueues' \in RequestQueues
  BY <1>6, <1>8
<1> QED BY <1>7, <1>15, <1>16, <1>17, <1>18, OtherCall

LEMMA ChangeTrackingKeeps ==
    ASSUME ClientInv, NEW op \in {"stopTracking", "updateTracking"}, ChangeTracking(op)
    PROVE  ClientInv'
<1> DEFINE s == mRequestQueues["tracking"].session
           a == Owe("tracking", s, op, op)
<1>1. /\ mLocationAPI /\ owed' = Append(owed, a) /\ s # NoSession
      /\ mRequestQueues' = Push(mRequestQueues, "tracking", s, op)
      /\ UNCHANGED <<mSessionBiDict, mLocationAPI, resumeLost, nextSession>>
  BY DEF ChangeTracking, Callable
<1>2. /\ nextSession' \in 1..(MaxSession + 1) /\ nextSession <= nextSession' BY <1>1, Bounds
<1>3. s \in 0..(nextSession - 1) /\ ~HasSession(s)
      /\ \A k \in 1..Len(owed) : owed[k].queue = "session" => owed[k].session # s
  BY DEF ClientInv, Apart
<1>4. s \in Numbers /\ s \in 1..(nextSession - 1) BY <1>1, <1>3, Bounds DEF Numbers, NoSession
<1>5. "tracking" \in QueueOf /\ mRequestQueues \in RequestQueues /\ op \in Words
  BY WordsAre DEF QueueOf, ClientInv, Shape
<1>6. /\ owed' \in Seq(OwedAnswer) /\ Grown(owed, a, owed') /\ a.queue = "tracking" /\ a.session = s
      /\ a.op = op
  BY <1>1, <1>4, <1>5, OweIs
<1>7. OwedShape(a, nextSession') BY <1>1, <1>4, <1>6 DEF OwedShape
<1>8. /\ mRequestQueues' \in RequestQueues
      /\ \A q \in QueueOf : q # "tracking" => mRequestQueues'[q] = mRequestQueues[q]
      /\ mRequestQueues'["tracking"].session = s
      /\ Grown(mRequestQueues["tracking"].requests, Request(s, op), mRequestQueues'["tracking"].requests)
  BY <1>1, <1>4, <1>5, PushIs
<1>9. \A k \in 1..Len(mRequestQueues'["tracking"].requests) :
          mRequestQueues'["tracking"].requests[k].session = s
  BY <1>8, GrownFrom DEF ClientInv, OwnRequests, Request
<1>10. s \notin NiIds =>
           Len(mRequestQueues'["tracking"].requests) = Cardinality(Places(owed, "tracking", s)) + 1
  BY <1>8 DEF Grown, ClientInv, TrackingMatched, OwedTo, Places, Waiting
<1> HIDE DEF a, s
<1>11. /\ a.queue \in {"tracking", "geofence", "ni"} /\ a.queue # "ni" /\ a.queue # "geofence"
       /\ \A q \in QueueOf : q # a.queue => mRequestQueues'[q] = mRequestQueues[q]
       /\ mRequestQueues'[a.queue].session = a.session
       /\ \A k \in 1..Len(mRequestQueues'[a.queue].requests) :
             mRequestQueues'[a.queue].requests[k].session = a.session
       /\ ~HasSession(a.session)
       /\ \A k \in 1..Len(owed) : owed[k].queue = "session" => owed[k].session # a.session
       /\ \/ Len(mRequestQueues'[a.queue].requests) = Cardinality(Places(owed, a.queue, a.session)) + 1
          \/ a.queue = "tracking" /\ a.session \in NiIds
  BY <1>3, <1>6, <1>8, <1>9, <1>10
<1> QED BY <1>1, <1>2, <1>6, <1>7, <1>8, <1>11, OtherCall

LEMMA GnssNiResponseKeeps ==
    ASSUME ClientInv, NEW id \in NiIds, GnssNiResponse(id)
    PROVE  ClientInv'
<1> DEFINE a == Owe("ni", id, "ni", "ni")
           queues == Reset("ni", id)
<1>1. /\ mLocationAPI /\ owed' = Append(owed, a)
      /\ mRequestQueues' = Push(queues, "ni", id, "ni")
      /\ UNCHANGED <<mSessionBiDict, mLocationAPI, resumeLost, nextSession>>
  BY DEF GnssNiResponse, Callable
<1>2. nextSession' \in 1..(MaxSession + 1) /\ nextSession <= nextSession' BY <1>1, Bounds
<1>3. "ni" \in QueueOf /\ mRequestQueues \in RequestQueues /\ "ni" \in Words /\ id \in Numbers
  BY WordsAre DEF QueueOf, ClientInv, Shape, Numbers
<1>4. /\ owed' \in Seq(OwedAnswer) /\ Grown(owed, a, owed') /\ a.queue = "ni" /\ a.session = id /\ a.op = "ni"
  BY <1>1, <1>3, OweIs
<1>5. OwedShape(a, nextSession') BY <1>4 DEF OwedShape
<1>6. /\ queues \in RequestQueues /\ queues["ni"] = [session |-> id, requests |-> <<>>]
      /\ \A q \in QueueOf : q # "ni" => queues[q] = mRequestQueues[q]
  BY <1>3, ResetIs
<1> HIDE DEF queues
<1>7. /\ mRequestQueues' \in RequestQueues
      /\ \A q \in QueueOf : q # "ni" => mRequestQueues'[q] = queues[q]
      /\ mRequestQueues'["ni"].session = queues["ni"].session
      /\ Grown(queues["ni"].requests, Request(id, "ni"), mRequestQueues'["ni"].requests)
  BY <1>1, <1>3, <1>6, PushIs
<1>8. Len(mRequestQueues'["ni"].requests) = 1 /\ mRequestQueues'["ni"].session = id
  BY <1>6, <1>7 DEF Grown
<1>9. \A q \in QueueOf : q # "ni" => mRequestQueues'[q] = mRequestQueues[q] BY <1>6, <1>7
<1> HIDE DEF a
<1> QED BY <1>1, <1>2, <1>4, <1>5, <1>7, <1>8, <1>9, OtherCall

\* A call about fences; the queue may be given its session first.
LEMMA FenceRequestKeeps ==
    ASSUME ClientInv, NEW queues \in RequestQueues, NEW op \in FenceOps,
           mLocationAPI, UNCHANGED <<mSessionBiDict, mLocationAPI, resumeLost>>,
           owed' = Append(owed, Owe("geofence", GeofenceSession, op, op)),
           mRequestQueues' = Push(queues, "geofence", GeofenceSession, op),
           nextSession' \in 1..(MaxSession + 1), nextSession <= nextSession',
           queues["geofence"].session = GeofenceSession,
           \A q \in QueueOf : q # "geofence" => queues[q] = mRequestQueues[q],
           queues["geofence"] = mRequestQueues["geofence"]
           \/ (queues["geofence"].requests = <<>> /\ mRequestQueues["geofence"].session # GeofenceSession)
    PROVE  ClientInv'
<1> DEFINE g == GeofenceSession
           a == Owe("geofence", g, op, op)
<1>1. /\ mLocationAPI /\ owed' = Append(owed, a)
      /\ mRequestQueues' = Push(queues, "geofence", g, op)
      /\ UNCHANGED <<mSessionBiDict, mLocationAPI, resumeLost>>
  OBVIOUS
<1>2. "geofence" \in QueueOf /\ op \in Words /\ g \in Numbers
  BY WordsAre DEF QueueOf, Numbers, GeofenceSession
<1>3. /\ owed' \in Seq(OwedAnswer) /\ Grown(owed, a, owed') /\ a.queue = "geofence" /\ a.session = g
      /\ a.op = op
  BY <1>1, <1>2, OweIs
<1>4. OwedShape(a, nextSession') BY <1>3 DEF OwedShape, FenceOps
<1>5. /\ mRequestQueues' \in RequestQueues
      /\ \A q \in QueueOf : q # "geofence" => mRequestQueues'[q] = queues[q]
      /\ mRequestQueues'["geofence"].session = queues["geofence"].session
      /\ Grown(queues["geofence"].requests, Request(g, op), mRequestQueues'["geofence"].requests)
  BY <1>1, <1>2, PushIs
<1>6. /\ \A k \in 1..Len(queues["geofence"].requests) : queues["geofence"].requests[k].session = g
      /\ ~resumeLost => Len(queues["geofence"].requests) = Cardinality(Places(owed, "geofence", g))
  <2>1. CASE queues["geofence"] = mRequestQueues["geofence"]
    BY <2>1 DEF ClientInv, OwnRequests, FencesMatched, OwedTo, Places, Waiting
  <2>2. CASE queues["geofence"].requests = <<>> /\ mRequestQueues["geofence"].session # GeofenceSession
    <3>1. Places(owed, "geofence", g) = {} BY <1>1, <2>2 DEF ClientInv, OwnRequests, Places
    <3>2. Cardinality(Places(owed, "geofence", g)) = 0 BY <3>1, FS_EmptySet
    <3> QED BY <2>2, <3>2
  <2> QED BY <2>1, <2>2
<1>7. \A k \in 1..Len(mRequestQueues'["geofence"].requests) :
          mRequestQueues'["geofence"].requests[k].session = g
  BY <1>5, <1>6, GrownFrom DEF Request
<1>8. ~resumeLost => Len(mRequestQueues'["geofence"].requests) = Cardinality(Places(owed, "geofence", g)) + 1
  BY <1>5, <1>6 DEF Grown
<1>9. \A q \in QueueOf : q # "geofence" => mRequestQueues'[q] = mRequestQueues[q] BY <1>5
<1> HIDE DEF a, g
<1>10. mRequestQueues'["geofence"].session = g BY <1>5 DEF g
<1> QED BY <1>1, <1>3, <1>4, <1>5, <1>7, <1>8, <1>9, <1>10, OtherCall

LEMMA AddGeofencesKeeps ==
    ASSUME ClientInv, NEW ids \in SUBSET FenceIds, AddGeofences(ids)
    PROVE  ClientInv'
<1> DEFINE queues == IF mRequestQueues["geofence"].session # GeofenceSession
                     THEN Reset("geofence", GeofenceSession) ELSE mRequestQueues
<1>1. /\ mLocationAPI /\ UNCHANGED <<mSessionBiDict, mLocationAPI, resumeLost>>
      /\ owed' = Append(owed, Owe("geofence", GeofenceSession, "addFence", "addFence"))
      /\ mRequestQueues' = Push(queues, "geofence", GeofenceSession, "addFence")
      /\ nextSession' = nextSession + Cardinality(ids)
      /\ ids # {} /\ nextSession + Cardinality(ids) - 1 <= MaxSession
  BY DEF AddGeofences, FenceRequest, Callable
<1>2. Cardinality(ids) \in Nat
  <2>1. IsFiniteSet(FenceIds) BY ClientNumbers
  <2>2. IsFiniteSet(ids) BY <2>1, FS_Subset
  <2> QED BY <2>2, FS_CardinalityType
<1>3. nextSession' \in 1..(MaxSession + 1) /\ nextSession <= nextSession' BY <1>1, <1>2, Bounds
<1>4. "geofence" \in QueueOf /\ mRequestQueues \in RequestQueues /\ GeofenceSession \in Numbers
  BY DEF QueueOf, ClientInv, Shape, Numbers, GeofenceSession
<1>5. /\ queues \in RequestQueues /\ queues["geofence"].session = GeofenceSession
      /\ \A q \in QueueOf : q # "geofence" => queues[q] = mRequestQueues[q]
      /\ \/ queues["geofence"] = mRequestQueues["geofence"]
         \/ queues["geofence"].requests = <<>> /\ mRequestQueues["geofence"].session # GeofenceSession
  <2>1. CASE mRequestQueues["geofence"].session = GeofenceSession BY <1>4, <2>1
  <2>2. CASE mRequestQueues["geofence"].session # GeofenceSession
    <3>1. queues = Reset("geofence", GeofenceSession) BY <2>2
    <3>2. /\ queues \in RequestQueues /\ queues["geofence"] = [session |-> GeofenceSession, requests |-> <<>>]
          /\ \A q \in QueueOf : q # "geofence" => queues[q] = mRequestQueues[q]
      BY <1>4, <3>1, ResetIs
    <3> QED BY <2>2, <3>2
  <2> QED BY <2>1, <2>2
<1>6. "addFence" \in FenceOps BY DEF FenceOps
<1> HIDE DEF queues
<1> QED BY <1>1, <1>3, <1>5, <1>6, FenceRequestKeeps

LEMMA ChangeGeofencesKeeps ==
    ASSUME ClientInv, NEW ids \in SUBSET FenceIds, NEW op \in FenceOps, ChangeGeofences(ids, op)
    PROVE  ClientInv'
<1>1. /\ mLocationAPI /\ UNCHANGED <<mSessionBiDict, mLocationAPI, resumeLost>> /\ UNCHANGED nextSession
      /\ owed' = Append(owed, Owe("geofence", GeofenceSession, op, op))
      /\ mRequestQueues' = Push(mRequestQueues, "geofence", GeofenceSession, op)
      /\ mRequestQueues["geofence"].session = GeofenceSession
  BY DEF ChangeGeofences, FenceRequest, Callable
<1>2. nextSession' \in 1..(MaxSession + 1) /\ nextSession <= nextSession' BY <1>1, Bounds
<1>3. mRequestQueues \in RequestQueues BY DEF ClientInv, Shape
<1> QED BY <1>1, <1>2, <1>3, FenceRequestKeeps

\* The requests are dropped, what is owed may still come and finds none.
LEMMA DestroyClientKeeps ==
    ASSUME ClientInv, DestroyClient
    PROVE  ClientInv'
<1>1. /\ ~mLocationAPI' /\ mRequestQueues' = [q \in QueueOf |-> Idle]
      /\ UNCHANGED <<owed, mSessionBiDict, nextSession, resumeLost>>
  BY DEF DestroyClient
<1>2. Idle \in [session : Numbers, requests : Seq([session : Numbers, call : Words])]
  BY DEF Idle, Numbers, NoSession
<1>3. mRequestQueues' \in RequestQueues BY <1>1, <1>2 DEF RequestQueues
<1>4. /\ mRequestQueues'["tracking"] = Idle /\ mRequestQueues'["geofence"] = Idle
      /\ mRequestQueues'["ni"] = Idle
  BY <1>1 DEF QueueOf
<1>5. Idle.session = 0 /\ Idle.requests = <<>> /\ Len(Idle.requests) = 0 BY DEF Idle, NoSession
<1>6. Shape' BY <1>1, <1>3 DEF ClientInv, Shape
<1>7. \A s : HasSession(s)' <=> HasSession(s) BY <1>1 DEF HasSession, Has
<1>8. \A s : HasSession(s) => s # 0
  <2>1. ASSUME NEW id \in SessionIds, Has(id) PROVE mSessionBiDict[id].session # 0
    BY <2>1, NamedIsNumbered, Bounds
  <2> QED BY <2>1 DEF HasSession
<1>9. Apart'
  <2>1. \A k \in 1..Len(owed) : /\ owed[k].queue = "tracking" => ~HasSession(owed[k].session)
                                /\ owed[k].queue = "session" => owed[k].session # 0
    BY Bounds DEF ClientInv, Apart, Shape, OwedShape
  <2>2. 0 \in 0..(nextSession - 1) /\ ~HasSession(0) BY <1>8, Bounds
  <2> QED BY <1>1, <1>4, <1>5, <1>7, <2>1, <2>2 DEF Apart, HasSession, Has
<1>10. OwnRequests' BY <1>1, <1>4, <1>5 DEF OwnRequests, NoSession
<1>11. Places(owed, "tracking", 0) = {}
  BY Bounds DEF ClientInv, Shape, OwedShape, Places
<1>12. Cardinality(Places(owed, "tracking", 0)) = 0 BY <1>11, FS_EmptySet
<1>13. TrackingMatched' BY <1>1, <1>4, <1>5, <1>12 DEF TrackingMatched, OwedTo, Places, Waiting
<1>14. FencesMatched' BY <1>4, <1>5 DEF FencesMatched, GeofenceSession
<1>15. NiMatched'
  <2>1. Cardinality(Places(owed, "ni", 0)) \in Nat
    <3>1. Len(owed) \in Nat BY Bounds
    <3> QED BY <3>1, PlacesFinite
  <2>2. mRequestQueues'["ni"].session = 0 /\ Len(mRequestQueues'["ni"].requests) = 0 BY <1>4, <1>5
  <2>3. 0 <= Cardinality(Places(owed, "ni", 0)) BY <2>1
  <2> QED BY <1>1, <2>2, <2>3 DEF NiMatched, OwedTo, Places, Waiting
<1> QED BY <1>6, <1>9, <1>10, <1>13, <1>14, <1>15 DEF ClientInv

-----------------------------------------------------------------------------
(* The specification *)

LEMMA InvInit == ClientInit => ClientInv
<1> SUFFICES ASSUME ClientInit PROVE ClientInv OBVIOUS
<1>1. /\ owed = <<>> /\ nextSession = 1 /\ mRequestQueues = [q \in QueueOf |-> Idle]
      /\ mSessionBiDict = [i \in SessionIds |-> NoEntity] /\ resumeLost = FALSE
  BY DEF ClientInit
<1>2. Idle \in [session : Numbers, requests : Seq([session : Numbers, call : Words])]
  BY DEF Idle, Numbers, NoSession
<1>3. mRequestQueues \in RequestQueues BY <1>1, <1>2 DEF RequestQueues
<1>4. /\ mRequestQueues["tracking"] = Idle /\ mRequestQueues["geofence"] = Idle
      /\ mRequestQueues["ni"] = Idle
  BY <1>1 DEF QueueOf
<1>5. Idle.session = 0 /\ Idle.requests = <<>> /\ Len(Idle.requests) = 0 BY DEF Idle, NoSession
<1>6. owed \in Seq(OwedAnswer) /\ Len(owed) = 0 BY <1>1
<1>7. mSessionBiDict \in Entities(nextSession) BY <1>1 DEF Entities
<1>8. nextSession \in 1..(MaxSession + 1) BY <1>1, ClientNumbers
<1>9. Shape BY <1>3, <1>6, <1>7, <1>8 DEF Shape
<1>10. \A s : ~HasSession(s) BY <1>1 DEF HasSession, Has
<1>11. Apart
  <2>1. mRequestQueues["tracking"].session = 0 /\ 0 \in 0..(nextSession - 1) BY <1>1, <1>4, <1>5
  <2>2. \A i \in 1..Len(owed) : FALSE BY <1>6
  <2> QED BY <1>10, <2>1, <2>2 DEF Apart
<1>12. OwnRequests
  <2>1. mRequestQueues["ni"].session \in NiIds \cup {NoSession} BY <1>4, <1>5 DEF NoSession
  <2>2. \A i \in 1..Len(owed) : FALSE BY <1>6
  <2>3. /\ \A k \in 1..Len(mRequestQueues["tracking"].requests) : FALSE
        /\ \A k \in 1..Len(mRequestQueues["geofence"].requests) : FALSE
    BY <1>4, <1>5
  <2> QED BY <2>1, <2>2, <2>3 DEF OwnRequests
<1>13. \A q, s : Places(owed, q, s) = {} BY <1>6 DEF Places
<1>14. \A q, s : Cardinality(OwedTo(q, s)) = 0 BY <1>13, FS_EmptySet DEF OwedTo, Places
<1>15. TrackingMatched BY <1>4, <1>5, <1>14 DEF TrackingMatched, Waiting
<1>16. FencesMatched BY <1>4, <1>5, <1>14 DEF FencesMatched, Waiting
<1>17. NiMatched BY <1>4, <1>5, <1>14 DEF NiMatched, Waiting
<1> QED BY <1>9, <1>11, <1>12, <1>15, <1>16, <1>17 DEF ClientInv

LEMMA InvStep == ClientInv /\ [ClientNext]_clientVars => ClientInv'
<1> SUFFICES ASSUME ClientInv, [ClientNext]_clientVars PROVE ClientInv' OBVIOUS
<1>1. CASE StartTracking BY <1>1, StartTrackingKeeps
<1>2. CASE \E op \in {"stopTracking", "updateTracking"} : ChangeTracking(op)
  BY <1>2, ChangeTrackingKeeps
<1>3. ASSUME NEW id \in SessionIds, StopSession(id) PROVE ClientInv'
  BY <1>3, AskSessionKeeps, WordsAre DEF StopSession
<1>4. ASSUME NEW id \in SessionIds, GetBatchedLocations(id) PROVE ClientInv'
  BY <1>4, AskSessionKeeps, WordsAre DEF GetBatchedLocations
<1>5. ASSUME NEW id \in SessionIds, NEW m \in Modes, UpdateSession(id, m) PROVE ClientInv'
  BY <1>5, AskSessionKeeps, WordsAre DEF UpdateSession
<1>6. ASSUME NEW id \in SessionIds, NEW m \in Modes, StartSession(id, m) \/ SwitchSession(id, m)
      PROVE  ClientInv'
  BY <1>6, StartSessionKeeps, SwitchSessionKeeps
<1>7. CASE \E ids \in SUBSET FenceIds : AddGeofences(ids) BY <1>7, AddGeofencesKeeps
<1>8. CASE \E ids \in SUBSET FenceIds : \E op \in FenceOps \ {"addFence"} : ChangeGeofences(ids, op)
  BY <1>8, ChangeGeofencesKeeps
<1>9. CASE \E id \in NiIds : GnssNiResponse(id) BY <1>9, GnssNiResponseKeeps
<1>10. CASE DestroyClient \/ Forget BY <1>10, DestroyClientKeeps, ForgetKeeps
<1>11. ASSUME NEW i \in 1..Len(owed), AskModem(i) \/ AnswerAtOnce(i) \/ SayNothing(i) \/ ResumeRefused(i)
       PROVE  ClientInv'
  BY <1>11, AskModemKeeps, AnswerAtOnceKeeps, SayNothingKeeps, ResumeRefusedKeeps
<1>12. ASSUME NEW i \in 1..Len(owed), NEW error \in BOOLEAN, ModemAnswers(i, error) PROVE ClientInv'
  BY <1>12, ModemAnswersKeeps
<1>13. CASE UNCHANGED clientVars
  BY <1>13 DEF clientVars, clientState, ClientInv, Shape, Apart, OwnRequests, TrackingMatched, FencesMatched,
               NiMatched, HasSession, Has, OwedTo, Waiting
<1> QED BY <1>1, <1>2, <1>3, <1>4, <1>5, <1>6, <1>7, <1>8, <1>9, <1>10, <1>11, <1>12, <1>13 DEF ClientNext

\* However the calls of the client, the adapters' answers and those of the modem are ordered:
\* an answer for tracking or geofences, found by its session only, is given to a call of that
\* session; none of these calls and none for a network initiated request waits without an
\* answer that is owed.  NI requests that have the number of a session are not among them, and
\* fences only until the modem refuses a resumption, which is never answered.
THEOREM EveryAnswerMatched == ClientSpec => []AnswersMatched
<1>1. ClientInv /\ [ClientNext]_clientVars => ClientInv' BY InvStep
<1> QED BY <1>1, InvInit, InvAnswers, PTL DEF ClientSpec
=============================================================================
