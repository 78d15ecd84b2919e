---------------------------- MODULE TrackingProofs ----------------------------
(***************************************************************************)
(* Proof that the modem is asked for what the sessions need, for any       *)
(* clients, options and intervals and any number of calls, changes of the  *)
(* power and restarts of the modem.  The session the modem will run is the *)
(* last one asked for (Target): four lemmas say that each way the adapter  *)
(* combines the sessions' options serves all of them.  The inductive       *)
(* invariant adds that of each session at most one message is in flight -  *)
(* in the queue, postponed, or the answer to a request of the modem's -    *)
(* and what it says fits the maps (FlightFits).                            *)
(*                                                                         *)
(* A second invariant, HeldInv, says what clients were told: a session no  *)
(* message is about belongs to its client and waits for nothing, and one   *)
(* the client was told has started is in a map.  Then, once nothing is     *)
(* left to do, the maps hold what clients were told and no call is         *)
(* forgotten.                                                              *)
(***************************************************************************)
EXTENDS Tracking, FiniteSetTheorems, WellFoundedInduction, TLAPS

-----------------------------------------------------------------------------
(* What is in a sequence, and what comes of it when another one follows *)

Elems(q) == {q[i] : i \in 1..Len(q)}

\* Of the messages in A one is in q; at most one is.
Comes(q, A) == \E i \in 1..Len(q) : q[i] \in A
AtMostOne(q, A) == \A i, j \in 1..Len(q) : q[i] \in A /\ q[j] \in A => i = j

LEMMA Joined ==
  ASSUME NEW S, NEW q \in Seq(S), NEW w \in Seq(S)
  PROVE  /\ q \o w \in Seq(S) /\ Elems(q \o w) = Elems(q) \cup Elems(w)
         /\ \A A : /\ Comes(q \o w, A) <=> Comes(q, A) \/ Comes(w, A)
                   /\ AtMostOne(q \o w, A) <=> /\ AtMostOne(q, A) /\ AtMostOne(w, A)
                                               /\ ~ (Comes(q, A) /\ Comes(w, A))
<1> DEFINE p == q \o w
<1>1. /\ p \in Seq(S) /\ Len(p) = Len(q) + Len(w) /\ Len(q) \in Nat /\ Len(w) \in Nat
      /\ \A i \in 1..Len(q) : p[i] = q[i]
      /\ \A i \in 1..Len(w) : p[Len(q) + i] = w[i]
  OBVIOUS
<1> HIDE DEF p
<1>2. \A i \in 1..Len(p) : i \in 1..Len(q) \/ (i - Len(q) \in 1..Len(w) /\ Len(q) + (i - Len(q)) = i)
  BY <1>1
<1>3. \A i \in 1..Len(q) : i \in 1..Len(p)
  BY <1>1
<1>4. \A i \in 1..Len(w) : Len(q) + i \in 1..Len(p)
  BY <1>1
<1>5. Elems(p) = Elems(q) \cup Elems(w)
  <2>1. ASSUME NEW i \in 1..Len(p) PROVE p[i] \in Elems(q) \cup Elems(w)
    BY <1>1, <1>2 DEF Elems
  <2>2. ASSUME NEW i \in 1..Len(q) PROVE q[i] \in Elems(p)
    BY <1>1, <1>3 DEF Elems
  <2>3. ASSUME NEW i \in 1..Len(w) PROVE w[i] \in Elems(p)
    BY <1>1, <1>4 DEF Elems
  <2> QED  BY <2>1, <2>2, <2>3 DEF Elems
<1>6. ASSUME NEW A PROVE Comes(p, A) <=> Comes(q, A) \/ Comes(w, A)
  BY <1>1, <1>2, <1>3, <1>4 DEF Comes
<1>7. ASSUME NEW A, AtMostOne(p, A) PROVE AtMostOne(q, A) /\ AtMostOne(w, A) /\ ~ (Comes(q, A) /\ Comes(w, A))
  <2>1. AtMostOne(q, A)
    BY <1>1, <1>3, <1>7 DEF AtMostOne
  <2>2. AtMostOne(w, A)
    <3> SUFFICES ASSUME NEW i \in 1..Len(w), NEW j \in 1..Len(w), w[i] \in A, w[j] \in A PROVE i = j
      BY DEF AtMostOne
    <3>1. Len(q) + i = Len(q) + j
      BY <1>1, <1>4, <1>7 DEF AtMostOne
    <3> QED  BY <1>1, <3>1
  <2>3. ASSUME NEW i \in 1..Len(q), NEW j \in 1..Len(w), q[i] \in A, w[j] \in A PROVE FALSE
    <3>1. i = Len(q) + j
      BY <1>1, <1>3, <1>4, <1>7, <2>3 DEF AtMostOne
    <3> QED  BY <1>1, <3>1
  <2> QED  BY <2>1, <2>2, <2>3 DEF Comes
<1>8. ASSUME NEW A, AtMostOne(q, A), AtMostOne(w, A), ~ (Comes(q, A) /\ Comes(w, A)) PROVE AtMostOne(p, A)
  <2> SUFFICES ASSUME NEW i \in 1..Len(p), NEW j \in 1..Len(p), p[i] \in A, p[j] \in A PROVE i = j
    BY DEF AtMostOne
  <2>1. CASE i \in 1..Len(q) /\ j \in 1..Len(q)
    BY <1>1, <1>8, <2>1 DEF AtMostOne
  <2>2. CASE i \notin 1..Len(q) /\ j \notin 1..Len(q)
    <3>1. /\ i - Len(q) \in 1..Len(w) /\ j - Len(q) \in 1..Len(w)
          /\ w[i - Len(q)] = p[i] /\ w[j - Len(q)] = p[j]
      BY <1>1, <1>2, <2>2
    <3>2. i - Len(q) = j - Len(q)
      BY <1>8, <3>1 DEF AtMostOne
    <3> QED  BY <1>1, <3>2
  <2>3. CASE i \in 1..Len(q) /\ j \notin 1..Len(q)
    <3>1. q[i] \in A /\ j - Len(q) \in 1..Len(w) /\ w[j - Len(q)] \in A
      BY <1>1, <1>2, <2>3
    <3>2. Comes(q, A) /\ Comes(w, A)
      BY <2>3, <3>1 DEF Comes
    <3> QED  BY <1>8, <3>2
  <2>4. CASE i \notin 1..Len(q) /\ j \in 1..Len(q)
    <3>1. q[j] \in A /\ i - Len(q) \in 1..Len(w) /\ w[i - Len(q)] \in A
      BY <1>1, <1>2, <2>4
    <3>2. Comes(q, A) /\ Comes(w, A)
      BY <2>4, <3>1 DEF Comes
    <3> QED  BY <1>8, <3>2
  <2> QED  BY <2>1, <2>2, <2>3, <2>4
<1> QED  BY <1>1, <1>5, <1>6, <1>7, <1>8 DEF p

LEMMA Single ==
  ASSUME NEW S, NEW x \in S
  PROVE  /\ <<x>> \in Seq(S) /\ Elems(<<x>>) = {x} /\ <<>> \in Seq(S) /\ Elems(<<>>) = {}
         /\ \A A : /\ Comes(<<x>>, A) <=> x \in A
                   /\ AtMostOne(<<x>>, A) /\ ~ Comes(<<>>, A) /\ AtMostOne(<<>>, A)
<1>1. Len(<<x>>) = 1 /\ <<x>>[1] = x /\ Len(<<>>) = 0 /\ <<x>> \in Seq(S) /\ <<>> \in Seq(S)
  OBVIOUS
<1>2. 1..1 = {1} /\ 1..0 = {}
  OBVIOUS
<1> QED  BY <1>1, <1>2 DEF Elems, Comes, AtMostOne

LEMMA Appended ==
  ASSUME NEW S, NEW q \in Seq(S), NEW x \in S
  PROVE  /\ Append(q, x) \in Seq(S) /\ Append(q, x) = q \o <<x>> /\ Elems(Append(q, x)) = Elems(q) \cup {x}
         /\ \A A : /\ Comes(Append(q, x), A) <=> Comes(q, A) \/ x \in A
                   /\ AtMostOne(Append(q, x), A) <=> AtMostOne(q, A) /\ ~ (Comes(q, A) /\ x \in A)
<1>1. Append(q, x) = q \o <<x>> /\ <<x>> \in Seq(S)
  OBVIOUS
<1>2. /\ q \o <<x>> \in Seq(S) /\ Elems(q \o <<x>>) = Elems(q) \cup Elems(<<x>>)
      /\ \A A : /\ Comes(q \o <<x>>, A) <=> Comes(q, A) \/ Comes(<<x>>, A)
                /\ AtMostOne(q \o <<x>>, A) <=> /\ AtMostOne(q, A) /\ AtMostOne(<<x>>, A)
                                                /\ ~ (Comes(q, A) /\ Comes(<<x>>, A))
  BY <1>1, Joined
<1> QED  BY <1>1, <1>2, Single

LEMMA Taken ==
  ASSUME NEW S, NEW q \in Seq(S), q # <<>>
  PROVE  /\ Head(q) \in S /\ Tail(q) \in Seq(S) /\ q = <<Head(q)>> \o Tail(q)
         /\ Elems(q) = {Head(q)} \cup Elems(Tail(q))
         /\ \A A : /\ Comes(q, A) <=> Head(q) \in A \/ Comes(Tail(q), A)
                   /\ AtMostOne(q, A) <=> AtMostOne(Tail(q), A) /\ ~ (Head(q) \in A /\ Comes(Tail(q), A))
<1> DEFINE h == <<Head(q)>>
           t == Tail(q)
<1>1. Head(q) \in S /\ t \in Seq(S) /\ q = h \o t /\ h \in Seq(S)
  OBVIOUS
<1>3. Elems(h) = {Head(q)} /\ \A A : (Comes(h, A) <=> Head(q) \in A) /\ AtMostOne(h, A)
  BY <1>1, Single
<1> HIDE DEF h, t
<1>2. /\ Elems(h \o t) = Elems(h) \cup Elems(t)
      /\ \A A : /\ Comes(h \o t, A) <=> Comes(h, A) \/ Comes(t, A)
                /\ AtMostOne(h \o t, A) <=> /\ AtMostOne(h, A) /\ AtMostOne(t, A)
                                             /\ ~ (Comes(h, A) /\ Comes(t, A))
  BY <1>1, Joined
<1>4. Elems(q) = {Head(q)} \cup Elems(t)
  BY <1>1, <1>2, <1>3
<1>5. ASSUME NEW A
      PROVE  /\ Comes(q, A) <=> Head(q) \in A \/ Comes(t, A)
             /\ AtMostOne(q, A) <=> AtMostOne(t, A) /\ ~ (Head(q) \in A /\ Comes(t, A))
  BY <1>1, <1>2, <1>3
<1> QED  BY <1>1, <1>4, <1>5 DEF h, t

LEMMA ComesIn ==
  ASSUME NEW q, NEW A
  PROVE  Comes(q, A) <=> Elems(q) \cap A # {}
BY DEF Comes, Elems

-----------------------------------------------------------------------------
(* What the modem will run *)

LEMMA NatMin ==
  ASSUME NEW S, S \subseteq Nat, S # {}
  PROVE  \E n \in S : \A m \in S : n <= m
<1> DEFINE Less == OpToRel(<, Nat)
<1>1. IsWellFoundedOn(Less, Nat)
  BY NatLessThanWellFounded
<1>2. Less = {ss \in Nat \X Nat : ss[1] < ss[2]}
  BY DEF OpToRel
<1>3. ASSUME NEW x \in Nat, NEW y \in Nat, x < y PROVE <<x, y>> \in Less
  BY <1>2, <1>3
<1> HIDE DEF Less
<1>4. PICK x \in S : \A y \in S : ~ (<<y, x>> \in Less)
  BY <1>1, WFMin
<1>5. ASSUME NEW y \in S PROVE x <= y
  <2>1. ~ (y < x)
    BY <1>3, <1>4
  <2> QED  BY <2>1
<1> QED  BY <1>5

LEMMA HasLast ==
  ASSUME NEW S, NEW q \in Seq(S), OfTime(q) # {}
  PROVE  \E i \in OfTime(q) : \A j \in OfTime(q) : j <= i
<1> DEFINE Above == {k \in Nat : \A j \in OfTime(q) : j <= k}
<1>1. Len(q) \in Nat /\ OfTime(q) \subseteq 1..Len(q)
  BY DEF OfTime
<1>2. Len(q) \in Above
  BY <1>1
<1>3. PICK k \in Above : \A m \in Above : k <= m
  BY <1>2, NatMin
<1>4. k \in OfTime(q)
  <2> SUFFICES ASSUME k \notin OfTime(q) PROVE FALSE
    OBVIOUS
  <2>1. k \in Nat /\ k # 0
    BY <1>1
  <2>2. k - 1 \in Nat /\ \A j \in OfTime(q) : j <= k - 1
    BY <1>1, <2>1
  <2>3. k - 1 \in Above
    BY <2>2
  <2> QED  BY <1>3, <2>1, <2>3
<1> QED  BY <1>4

LEMMA TargetIsLast ==
  ASSUME NEW S, NEW q \in Seq(S), NEW e, NEW i \in OfTime(q), \A j \in OfTime(q) : j <= i
  PROVE  TargetOf(q, e) = IF q[i].op = "stop" THEN Off ELSE q[i].options
<1> DEFINE last == CHOOSE k \in OfTime(q) : \A j \in OfTime(q) : j <= k
<1>1. last \in OfTime(q) /\ \A j \in OfTime(q) : j <= last
  OBVIOUS
<1>2. OfTime(q) \subseteq Nat
  BY DEF OfTime
<1> HIDE DEF last
<1>3. last = i
  BY <1>1, <1>2
<1> QED  BY <1>3 DEF TargetOf, last

\* The requests that follow count, from what there was before.
LEMMA TargetJoined ==
  ASSUME NEW S, NEW q \in Seq(S), NEW w \in Seq(S), NEW e
  PROVE  TargetOf(q \o w, e) = TargetOf(w, TargetOf(q, e))
<1> DEFINE p == q \o w
<1>1. /\ p \in Seq(S) /\ Len(p) = Len(q) + Len(w) /\ Len(q) \in Nat /\ Len(w) \in Nat
      /\ \A i \in 1..Len(q) : p[i] = q[i]
      /\ \A i \in 1..Len(w) : p[Len(q) + i] = w[i]
  OBVIOUS
<1> HIDE DEF p
<1>2. \A i \in 1..Len(p) : i \in 1..Len(q) \/ (i - Len(q) \in 1..Len(w) /\ Len(q) + (i - Len(q)) = i)
  BY <1>1
<1>3. \A i \in 1..Len(q) : i \in 1..Len(p)
  BY <1>1
<1>4. \A i \in 1..Len(w) : Len(q) + i \in 1..Len(p)
  BY <1>1
<1>5. \A i \in OfTime(q) : i \in OfTime(p)
  BY <1>1, <1>3 DEF OfTime
<1>6. \A i \in OfTime(w) : Len(q) + i \in OfTime(p)
  BY <1>1, <1>4 DEF OfTime
<1>7. ASSUME NEW j \in OfTime(p), j \notin OfTime(q) PROVE j - Len(q) \in OfTime(w)
  <2>1. j \in 1..Len(p) /\ p[j].op \in {"start", "stop"}
    BY DEF OfTime
  <2>2. j \notin 1..Len(q)
    BY <1>1, <1>7, <2>1 DEF OfTime
  <2>3. j - Len(q) \in 1..Len(w) /\ w[j - Len(q)] = p[j]
    BY <1>1, <1>2, <2>1, <2>2
  <2> QED  BY <2>1, <2>3 DEF OfTime
<1>8. CASE OfTime(w) # {}
  <2>1. PICK k \in OfTime(w) : \A j \in OfTime(w) : j <= k
    BY <1>8, HasLast
  <2>2. k \in 1..Len(w) /\ Len(q) + k \in OfTime(p) /\ p[Len(q) + k] = w[k]
    BY <1>1, <1>6 DEF OfTime
  <2>3. ASSUME NEW j \in OfTime(p) PROVE j <= Len(q) + k
    <3>1. CASE j \in OfTime(q)
      BY <1>1, <2>2, <3>1 DEF OfTime
    <3>2. CASE j \notin OfTime(q)
      <4>1. j - Len(q) \in OfTime(w) /\ j - Len(q) <= k
        BY <1>7, <2>1, <3>2
      <4> QED  BY <1>1, <2>2, <4>1 DEF OfTime
    <3> QED  BY <3>1, <3>2
  <2>4. TargetOf(w, TargetOf(q, e)) = IF w[k].op = "stop" THEN Off ELSE w[k].options
    BY <2>1, TargetIsLast
  <2>5. TargetOf(p, e) = IF p[Len(q) + k].op = "stop" THEN Off ELSE p[Len(q) + k].options
    BY <1>1, <2>2, <2>3, TargetIsLast
  <2> QED  BY <2>2, <2>4, <2>5 DEF p
<1>9. CASE OfTime(w) = {} /\ OfTime(q) # {}
  <2>1. PICK k \in OfTime(q) : \A j \in OfTime(q) : j <= k
    BY <1>9, HasLast
  <2>2. k \in 1..Len(q) /\ k \in OfTime(p) /\ p[k] = q[k]
    BY <1>1, <1>5 DEF OfTime
  <2>3. \A j \in OfTime(p) : j <= k
    BY <1>7, <1>9, <2>1
  <2>4. TargetOf(q, e) = IF q[k].op = "stop" THEN Off ELSE q[k].options
    BY <2>1, TargetIsLast
  <2>5. TargetOf(p, e) = IF p[k].op = "stop" THEN Off ELSE p[k].options
    BY <1>1, <2>2, <2>3, TargetIsLast
  <2>6. TargetOf(w, TargetOf(q, e)) = TargetOf(q, e)
    BY <1>9 DEF TargetOf
  <2> QED  BY <2>2, <2>4, <2>5, <2>6 DEF p
<1>10. CASE OfTime(w) = {} /\ OfTime(q) = {}
  <2>1. OfTime(p) = {}
    BY <1>7, <1>10
  <2> QED  BY <1>10, <2>1 DEF TargetOf, p
<1> QED  BY <1>8, <1>9, <1>10

LEMMA TargetOfNone ==
  ASSUME NEW S, NEW q \in Seq(S), NEW e, \A i \in 1..Len(q) : q[i].op \notin {"start", "stop"}
  PROVE  TargetOf(q, e) = e
BY DEF TargetOf, OfTime

LEMMA TargetOfOne ==
  ASSUME NEW S, NEW r \in S, NEW e
  PROVE  /\ TargetOf(<<r>>, e) = IF r.op = "start" THEN r.options ELSE IF r.op = "stop" THEN Off ELSE e
         /\ TargetOf(<<>>, e) = e
<1> DEFINE q == <<r>>
<1>1. q \in Seq(S) /\ Len(q) = 1 /\ q[1] = r /\ <<>> \in Seq(S) /\ Len(<<>>) = 0
  OBVIOUS
<1> HIDE DEF q
<1>2. OfTime(<<>>) = {} /\ OfTime(q) \subseteq {1}
  BY <1>1 DEF OfTime
<1>3. CASE r.op \in {"start", "stop"}
  <2>1. 1 \in OfTime(q) /\ \A j \in OfTime(q) : j <= 1
    BY <1>1, <1>2, <1>3 DEF OfTime
  <2>2. TargetOf(q, e) = IF q[1].op = "stop" THEN Off ELSE q[1].options
    BY <1>1, <2>1, TargetIsLast
  <2> QED  BY <1>1, <1>2, <1>3, <2>2 DEF TargetOf, q
<1>4. CASE r.op \notin {"start", "stop"}
  <2>1. OfTime(q) = {}
    BY <1>1, <1>2, <1>4 DEF OfTime
  <2> QED  BY <1>2, <1>4, <2>1 DEF TargetOf, q
<1> QED  BY <1>3, <1>4

\* The modem does the first request.
LEMMA TargetTaken ==
  ASSUME NEW S, NEW q \in Seq(S), q # <<>>, NEW e
  PROVE  TargetOf(q, e) = TargetOf(Tail(q), IF Head(q).op = "start" THEN Head(q).options
                                            ELSE IF Head(q).op = "stop" THEN Off ELSE e)
<1> DEFINE h == <<Head(q)>>
           t == Tail(q)
<1>1. Head(q) \in S /\ t \in Seq(S) /\ q = h \o t /\ h \in Seq(S)
  OBVIOUS
<1>4. TargetOf(h, e) = IF Head(q).op = "start" THEN Head(q).options ELSE IF Head(q).op = "stop" THEN Off ELSE e
  BY <1>1, TargetOfOne
<1> HIDE DEF h, t
<1>2. TargetOf(h \o t, e) = TargetOf(t, TargetOf(h, e))
  BY <1>1, TargetJoined
<1>3. TargetOf(q, e) = TargetOf(t, TargetOf(h, e))
  BY <1>1, <1>2
<1> QED  BY <1>3, <1>4 DEF t

-----------------------------------------------------------------------------
(* What is under way between the clients, the adapter and the modem *)

R == [minInterval : Nat, powerMode : Nat, minDistance : Nat]
Answers == {"nothing", "success", "error", "unknown"}
CallKinds == {"start", "update", "stop"}
DoneKinds == {"startDone", "stopDone", "distanceStopDone", "clientStopDone", "updateDone",
              "switchDone", "restartStopDone", "restartDone"}
IdKinds == CallKinds \cup DoneKinds
Ops == {"start", "stop", "startDistance", "stopDistance"}

\* Messages about a session, about the whole adapter, and about a client.
IdMsg == [kind : IdKinds, id : Id, options : R, ok : BOOLEAN]
PlainMsg == {Msg(kind, 0, Off) : kind \in {"suspend", "resume", "engineUp"}}
Message == IdMsg \cup PlainMsg \cup {MsgRemoveClient(c) : c \in Client}
Req == [op : Ops, id : Nat, options : R, reply : IdMsg \cup {NoReply}]

\* Those about a session, and the requests whose answer is one of them.
Mine(id) == {m \in IdMsg : m.id = id}
Asked(id) == {r \in Req : r.reply \in Mine(id)}

SessionMap(m) == m \in [DOMAIN m -> Options] /\ DOMAIN m \subseteq Nat \ {0}

\* A modem that runs t serves the sessions in m.
FastFor(m, t) == \A id \in DOMAIN m : t # Off /\ t.minInterval <= m[id].minInterval
OnlyFor(m, t) == DOMAIN m = {} => t = Off

\* At most one request is made.
OneRequest(rs, ops, reply) ==
    \/ rs = <<>>
    \/ \E r \in Req : rs = <<r>> /\ r.op \in ops /\ r.reply = reply

-----------------------------------------------------------------------------
(* The options of several sessions *)

LEMMA FastestIs ==
  ASSUME NEW m, SessionMap(m), DOMAIN m # {}
  PROVE  /\ Fastest(m) \in Options /\ \E i \in DOMAIN m : Fastest(m) = m[i]
         /\ \A j \in DOMAIN m : Fastest(m).minInterval <= m[j].minInterval
<1>0. \A j \in DOMAIN m : m[j] \in Options /\ m[j].minInterval \in Nat /\ j \in Nat
  BY TrackingAssumption DEF SessionMap, TrackingAssumption
<1> DEFINE Best(i) == \A j \in DOMAIN m : \/ m[i].minInterval < m[j].minInterval
                                          \/ m[i].minInterval = m[j].minInterval /\ i <= j
           Intervals == {m[j].minInterval : j \in DOMAIN m}
<1>1. PICK n \in Intervals : \A k \in Intervals : n <= k
  <2>1. Intervals \subseteq Nat /\ Intervals # {}
    BY <1>0
  <2> HIDE DEF Intervals
  <2> QED  BY <2>1, NatMin
<1>2. n \in Nat /\ (\E j \in DOMAIN m : m[j].minInterval = n) /\ \A j \in DOMAIN m : n <= m[j].minInterval
  BY <1>0, <1>1
<1> DEFINE Those == {j \in DOMAIN m : m[j].minInterval = n}
<1>3. PICK i \in Those : \A j \in Those : i <= j
  <2>1. Those \subseteq Nat /\ Those # {}
    BY <1>0, <1>2
  <2> HIDE DEF Those
  <2> QED  BY <2>1, NatMin
<1>4. i \in DOMAIN m /\ Best(i)
  <2> SUFFICES ASSUME NEW j \in DOMAIN m
               PROVE  \/ m[i].minInterval < m[j].minInterval
                      \/ m[i].minInterval = m[j].minInterval /\ i <= j
    BY <1>3
  <2>1. m[i].minInterval = n /\ n <= m[j].minInterval /\ m[j].minInterval \in Nat
    BY <1>0, <1>2, <1>3
  <2>2. CASE m[j].minInterval = n
    BY <1>3, <2>1, <2>2
  <2>3. CASE m[j].minInterval # n
    BY <1>2, <2>1, <2>3
  <2> QED  BY <2>2, <2>3
<1> DEFINE best == CHOOSE k \in DOMAIN m : Best(k)
<1>5. best \in DOMAIN m /\ Best(best)
  <2> HIDE DEF Best
  <2> QED  BY <1>4
<1>6. Fastest(m) = m[best]
  BY DEF Fastest
<1> HIDE DEF best
<1>7. \A j \in DOMAIN m : m[best].minInterval <= m[j].minInterval
  BY <1>0, <1>5
<1> QED  BY <1>0, <1>5, <1>6, <1>7

LEMMA LowestPowerIs ==
  ASSUME NEW m, SessionMap(m), DOMAIN m # {}
  PROVE  LowestPowerMode(m) \in Nat \ {0}
<1>0. \A j \in DOMAIN m : m[j] \in Options /\ m[j].powerMode \in Nat \ {0}
  BY TrackingAssumption DEF SessionMap, TrackingAssumption
<1> DEFINE Modes == {m[j].powerMode : j \in DOMAIN m}
<1>1. PICK n \in Modes : \A k \in Modes : n <= k
  <2>1. Modes \subseteq Nat /\ Modes # {}
    BY <1>0
  <2> HIDE DEF Modes
  <2> QED  BY <2>1, NatMin
<1>2. PICK i \in DOMAIN m : m[i].powerMode = n
  BY <1>1
<1> DEFINE Best(k) == \A j \in DOMAIN m : m[k].powerMode <= m[j].powerMode
<1>3. Best(i)
  BY <1>1, <1>2
<1> DEFINE best == CHOOSE k \in DOMAIN m : Best(k)
<1>4. best \in DOMAIN m
  <2> HIDE DEF Best
  <2> QED  BY <1>3
<1>5. LowestPowerMode(m) = m[best].powerMode
  BY DEF LowestPowerMode
<1> HIDE DEF best
<1> QED  BY <1>0, <1>4, <1>5

\* What the modem is asked for several sessions is as fast as each of them, and is not Off.
LEMMA CombinedIs ==
  ASSUME NEW m, SessionMap(m), DOMAIN m # {}
  PROVE  /\ Combined(m) \in R /\ Combined(m).powerMode # 0
         /\ \A j \in DOMAIN m : Combined(m).minInterval <= m[j].minInterval
<1>1. Fastest(m) \in [minInterval : Nat, powerMode : Nat \ {0}, minDistance : Nat]
  BY FastestIs, TrackingAssumption DEF TrackingAssumption
<1>2. LowestPowerMode(m) \in Nat \ {0}
  BY LowestPowerIs
<1>3. /\ Combined(m).minInterval = Fastest(m).minInterval /\ Combined(m).powerMode = LowestPowerMode(m)
      /\ Combined(m) \in R
  BY <1>1, <1>2 DEF Combined, R
<1> QED  BY <1>2, <1>3, FastestIs

LEMMA MultiplexedIs ==
  ASSUME NEW m, SessionMap(m), DOMAIN m # {}, NEW o \in Options
  PROVE  /\ Multiplexed(m, o) \in R /\ Multiplexed(m, o).powerMode # 0
         /\ Multiplexed(m, o).minInterval <= o.minInterval
         /\ \A j \in DOMAIN m : Multiplexed(m, o).minInterval <= m[j].minInterval
<1> DEFINE f == Fastest(m)
           u == Multiplexed(m, o)
           p == LowestPowerMode(m)
<1>0. o.minInterval \in Nat /\ o.powerMode \in Nat \ {0}
      /\ \A j \in DOMAIN m : m[j].minInterval \in Nat
  BY TrackingAssumption DEF SessionMap, TrackingAssumption
<1>1. f \in [minInterval : Nat, powerMode : Nat \ {0}, minDistance : Nat]
  BY FastestIs, TrackingAssumption DEF TrackingAssumption
<1>2. p \in Nat \ {0}
  BY LowestPowerIs
<1>3. u = [f EXCEPT !.minInterval = IF o.minInterval < f.minInterval THEN o.minInterval ELSE f.minInterval,
                    !.powerMode = IF o.powerMode < p THEN o.powerMode ELSE f.powerMode]
  BY DEF Multiplexed
<1>5. \A j \in DOMAIN m : f.minInterval <= m[j].minInterval
  BY FastestIs
<1> HIDE DEF u, f, p
<1>4. /\ u.minInterval = IF o.minInterval < f.minInterval THEN o.minInterval ELSE f.minInterval
      /\ u.powerMode = IF o.powerMode < p THEN o.powerMode ELSE f.powerMode
      /\ u.minDistance = f.minDistance
      /\ u = [minInterval |-> u.minInterval, powerMode |-> u.powerMode, minDistance |-> u.minDistance]
  BY <1>1, <1>3
<1>6. u \in R /\ u.powerMode # 0
  BY <1>0, <1>1, <1>4 DEF R
<1>7. u.minInterval \in Nat /\ u.minInterval <= o.minInterval /\ u.minInterval <= f.minInterval
  BY <1>0, <1>1, <1>4
<1>8. \A j \in DOMAIN m : u.minInterval <= m[j].minInterval
  BY <1>0, <1>1, <1>5, <1>7
<1> QED  BY <1>6, <1>7, <1>8 DEF u

LEMMA NotRaised ==
  ASSUME NEW m, SessionMap(m), DOMAIN m # {}, NEW o \in Options, ~ Raises(m, o),
         NEW t, FastFor(m, t), t.minInterval \in Nat
  PROVE  t # Off /\ t.minInterval <= o.minInterval
<1>1. PICK j \in DOMAIN m : Fastest(m) = m[j]
  BY FastestIs
<1>2. t # Off /\ t.minInterval <= m[j].minInterval
  BY DEF FastFor
<1>3. m[j].minInterval \in Nat /\ o.minInterval \in Nat
  BY TrackingAssumption DEF SessionMap, TrackingAssumption
<1>4. m[j].minInterval <= o.minInterval
  BY <1>1, <1>3 DEF Raises
<1> QED  BY <1>2, <1>3, <1>4

-----------------------------------------------------------------------------
(* The maps of sessions, and what the multiplexer asks for *)

LEMMA Saved ==
  ASSUME NEW m, SessionMap(m), NEW id \in Nat \ {0}, NEW o \in Options
  PROVE  /\ SessionMap(Save(m, id, o)) /\ DOMAIN Save(m, id, o) = DOMAIN m \cup {id}
         /\ \A j \in DOMAIN Save(m, id, o) : Save(m, id, o)[j] = IF j = id THEN o ELSE m[j]
BY DEF SessionMap, Save

LEMMA Erased ==
  ASSUME NEW m, SessionMap(m), NEW id
  PROVE  /\ SessionMap(Erase(m, id)) /\ DOMAIN Erase(m, id) = DOMAIN m \ {id}
         /\ \A j \in DOMAIN m : j # id => Erase(m, id)[j] = m[j]
BY DEF SessionMap, Erase, Restrict

LEMMA OptionsOf == ASSUME NEW m, SessionMap(m), NEW j \in DOMAIN m PROVE m[j] \in Options
BY DEF SessionMap

LEMMA IdsAre == Id \subseteq Nat \ {0}
<1>1. MaxId \in Nat
  BY TrackingAssumption DEF TrackingAssumption
<1> QED  BY <1>1 DEF Id

LEMMA OptionsAre ==
  ASSUME NEW o \in Options
  PROVE  o \in R /\ o.minInterval \in Nat /\ o.powerMode \in Nat \ {0} /\ o.minDistance \in Nat
BY TrackingAssumption DEF R, TrackingAssumption

LEMMA RequestIs ==
  ASSUME NEW op \in Ops, NEW id \in Nat, NEW o \in R, NEW reply \in IdMsg \cup {NoReply}
  PROVE  /\ Request(op, id, o, reply) \in Req
         /\ Request(op, id, o, reply).op = op /\ Request(op, id, o, reply).id = id
         /\ Request(op, id, o, reply).reply = reply
         /\ Request(op, id, o, reply).options \in R
         /\ Request(op, id, o, reply).options.minInterval = o.minInterval
         /\ Request(op, id, o, reply).options.powerMode = o.powerMode
<1>1. [o EXCEPT !.minDistance = 0] \in R /\ [o EXCEPT !.minDistance = 0].minInterval = o.minInterval
      /\ [o EXCEPT !.minDistance = 0].powerMode = o.powerMode
  BY DEF R
<1> QED  BY <1>1 DEF Request, Req

LEMMA ReplyIs ==
  ASSUME NEW kind \in IdKinds, NEW id \in Id, NEW o \in R
  PROVE  /\ Msg(kind, id, o) \in IdMsg /\ Msg(kind, id, o).kind = kind /\ Msg(kind, id, o).id = id
         /\ Msg(kind, id, o).options = o /\ Msg(kind, id, o).ok = TRUE /\ Msg(kind, id, o) # NoReply
         /\ NoReply \notin IdMsg
BY DEF Msg, IdMsg, NoReply, IdKinds, CallKinds, DoneKinds

LEMMA OffIs == Off \in R /\ Off.powerMode = 0 /\ NoReply.kind = "none"
BY DEF Off, R, NoReply, Msg

\* One request of the time based session, or none.
LEMMA RequestServes ==
  ASSUME NEW op \in Ops, NEW id \in Nat, NEW o \in R, NEW reply \in IdMsg \cup {NoReply}, NEW t
  PROVE  LET rs == <<Request(op, id, o, reply)>>
         IN  /\ rs \in Seq(Req) /\ OneRequest(rs, {op}, reply)
             /\ op = "stop" => TargetOf(rs, t) = Off
             /\ op = "start" => /\ TargetOf(rs, t) \in R
                                /\ TargetOf(rs, t).minInterval = o.minInterval
                                /\ o.powerMode # 0 => TargetOf(rs, t) # Off
             /\ op \notin {"start", "stop"} => TargetOf(rs, t) = t
<1> DEFINE r == Request(op, id, o, reply)
<1>1. /\ r \in Req /\ r.op = op /\ r.reply = reply
      /\ r.options \in R /\ r.options.minInterval = o.minInterval /\ r.options.powerMode = o.powerMode
  BY RequestIs
<1> HIDE DEF r
<1>2. TargetOf(<<r>>, t) = IF r.op = "start" THEN r.options ELSE IF r.op = "stop" THEN Off ELSE t
  BY <1>1, TargetOfOne
<1>3. <<r>> \in Seq(Req) /\ OneRequest(<<r>>, {op}, reply)
  BY <1>1 DEF OneRequest
<1> QED  BY <1>1, <1>2, <1>3, OffIs DEF r

LEMMA NoRequest ==
  ASSUME NEW t, NEW ops, NEW reply
  PROVE  <<>> \in Seq(Req) /\ OneRequest(<<>>, ops, reply) /\ TargetOf(<<>>, t) = t
<1>1. TargetOf(<<>>, t) = t
  <2>1. <<>> \in Seq({t}) /\ \A i \in 1..Len(<<>>) : <<>>[i].op \notin {"start", "stop"}
    OBVIOUS
  <2> QED  BY <2>1, TargetOfNone
<1> QED  BY <1>1 DEF OneRequest

\* The modem is asked for options that serve the sessions in m.
LEMMA AskedServes ==
  ASSUME NEW m, SessionMap(m), NEW x \in R, x.powerMode # 0,
         \A j \in DOMAIN m : x.minInterval <= m[j].minInterval,
         NEW id \in Nat, NEW reply \in IdMsg \cup {NoReply}, NEW t
  PROVE  LET rs == <<Request("start", id, x, reply)>>
         IN  /\ rs \in Seq(Req) /\ OneRequest(rs, {"start"}, reply)
             /\ TargetOf(rs, t) \in R /\ FastFor(m, TargetOf(rs, t))
<1> DEFINE rs == <<Request("start", id, x, reply)>>
<1>1. /\ rs \in Seq(Req) /\ OneRequest(rs, {"start"}, reply) /\ TargetOf(rs, t) \in R
      /\ TargetOf(rs, t).minInterval = x.minInterval /\ TargetOf(rs, t) # Off
  BY RequestServes DEF Ops
<1> HIDE DEF rs
<1>2. FastFor(m, TargetOf(rs, t))
  BY <1>1 DEF FastFor
<1> QED  BY <1>1, <1>2 DEF rs

\* A session starts: what the modem will run serves it besides the others.
LEMMA ToStartServes ==
  ASSUME SessionMap(timeBased), NEW id \in Id, NEW o \in Options, NEW t \in R
  PROVE  LET rs == ToStart(id, o)
             m == Save(timeBased, id, o)
             u == TargetOf(rs, t)
         IN  /\ rs \in Seq(Req) /\ OneRequest(rs, {"start"}, Msg("startDone", id, Off))
             /\ u \in R /\ OnlyFor(m, u) /\ (FastFor(timeBased, t) => FastFor(m, u))
<1> DEFINE reply == Msg("startDone", id, Off)
           m == Save(timeBased, id, o)
           rs == ToStart(id, o)
<1>0. id \in Nat \ {0}
  BY IdsAre
<1>1. id \in Nat /\ reply \in IdMsg
  BY <1>0, ReplyIs, OffIs DEF IdKinds, DoneKinds
<1>2. /\ SessionMap(m) /\ DOMAIN m = DOMAIN timeBased \cup {id}
      /\ \A j \in DOMAIN m : m[j] = IF j = id THEN o ELSE timeBased[j]
  BY <1>0, Saved
<1>3. o \in R /\ o.minInterval \in Nat /\ o.powerMode # 0
  BY OptionsAre
<1>4. \A u : OnlyFor(m, u)
  BY <1>2 DEF OnlyFor
<1> HIDE DEF reply, m
<1>5. CASE DOMAIN timeBased = {}
  <2>1. rs = <<Request("start", id, o, reply)>>
    BY <1>5 DEF ToStart, reply
  <2>2. \A j \in DOMAIN m : o.minInterval <= m[j].minInterval
    BY <1>2, <1>3, <1>5
  <2>3. /\ rs \in Seq(Req) /\ OneRequest(rs, {"start"}, reply)
        /\ TargetOf(rs, t) \in R /\ FastFor(m, TargetOf(rs, t))
    BY <1>1, <1>2, <1>3, <2>1, <2>2, AskedServes
  <2> QED  BY <1>4, <2>3 DEF m, reply
<1>6. CASE DOMAIN timeBased # {} /\ Raises(timeBased, o)
  <2> DEFINE x == Multiplexed(timeBased, o)
  <2>1. rs = <<Request("start", id, x, reply)>>
    BY <1>6 DEF ToStart, reply
  <2>2. /\ x \in R /\ x.powerMode # 0 /\ x.minInterval <= o.minInterval
        /\ \A j \in DOMAIN timeBased : x.minInterval <= timeBased[j].minInterval
    BY <1>6, MultiplexedIs
  <2> HIDE DEF x
  <2>3. \A j \in DOMAIN m : x.minInterval <= m[j].minInterval
    BY <1>2, <2>2
  <2>4. /\ rs \in Seq(Req) /\ OneRequest(rs, {"start"}, reply)
        /\ TargetOf(rs, t) \in R /\ FastFor(m, TargetOf(rs, t))
    BY <1>1, <1>2, <2>1, <2>2, <2>3, AskedServes
  <2> QED  BY <1>4, <2>4 DEF m, reply
<1>7. CASE DOMAIN timeBased # {} /\ ~ Raises(timeBased, o)
  <2>1. rs = <<>>
    BY <1>7 DEF ToStart
  <2>2. rs \in Seq(Req) /\ OneRequest(rs, {"start"}, reply) /\ TargetOf(rs, t) = t
    BY <2>1, NoRequest
  <2>3. ASSUME FastFor(timeBased, t) PROVE FastFor(m, t)
    <3>1. t # Off /\ t.minInterval <= o.minInterval
      <4>1. t.minInterval \in Nat
        BY DEF R
      <4> QED  BY <1>7, <2>3, <4>1, NotRaised
    <3> QED  BY <1>2, <2>3, <3>1 DEF FastFor
  <2> QED  BY <1>4, <2>2, <2>3 DEF m, reply
<1> QED  BY <1>5, <1>6, <1>7

\* A session stops, in the map or out of it: the others are still served.
LEMMA ToStopServes ==
  ASSUME SessionMap(timeBased), NEW id \in Id, id \in DOMAIN timeBased, NEW t \in R
  PROVE  LET rs == ToStop(id)
             m == Erase(timeBased, id)
             u == TargetOf(rs, t)
         IN  /\ rs \in Seq(Req)
             /\ \/ OneRequest(rs, {"start"}, Msg("startDone", id, Off))
                \/ OneRequest(rs, {"stop"}, Msg("stopDone", id, Off))
             /\ u \in R /\ OnlyFor(m, u) /\ (FastFor(timeBased, t) => FastFor(m, u))
<1> DEFINE stops == Msg("stopDone", id, Off)
           starts == Msg("startDone", id, Off)
           m == Erase(timeBased, id)
           rs == ToStop(id)
<1>0. id \in Nat /\ Off \in R
  BY IdsAre, OffIs
<1>1. stops \in IdMsg /\ starts \in IdMsg
  BY <1>0, ReplyIs DEF IdKinds, DoneKinds
<1>2. /\ SessionMap(m) /\ DOMAIN m = DOMAIN timeBased \ {id}
      /\ \A j \in DOMAIN m : m[j] = timeBased[j]
  BY Erased
<1> HIDE DEF stops, starts, m
<1>3. CASE DOMAIN m = {}
  <2>1. rs = <<Request("stop", id, Off, stops)>>
    BY <1>3 DEF ToStop, stops, m
  <2>2. /\ rs \in Seq(Req) /\ OneRequest(rs, {"stop"}, stops) /\ TargetOf(rs, t) = Off
    BY <1>0, <1>1, <2>1, RequestServes DEF Ops
  <2>3. FastFor(m, Off) /\ OnlyFor(m, Off)
    BY <1>3 DEF FastFor, OnlyFor
  <2> QED  BY <1>0, <2>2, <2>3 DEF m, stops
<1>4. CASE DOMAIN m # {} /\ Raises(m, timeBased[id])
  <2> DEFINE x == Combined(m)
  <2>1. rs = <<Request("start", id, x, starts)>>
    BY <1>4 DEF ToStop, starts, m
  <2>2. x \in R /\ x.powerMode # 0 /\ \A j \in DOMAIN m : x.minInterval <= m[j].minInterval
    BY <1>2, <1>4, CombinedIs
  <2> HIDE DEF x
  <2>3. /\ rs \in Seq(Req) /\ OneRequest(rs, {"start"}, starts)
        /\ TargetOf(rs, t) \in R /\ FastFor(m, TargetOf(rs, t))
    BY <1>0, <1>1, <1>2, <2>1, <2>2, AskedServes
  <2> QED  BY <1>4, <2>3 DEF m, starts, OnlyFor
<1>5. CASE DOMAIN m # {} /\ ~ Raises(m, timeBased[id])
  <2>1. rs = <<>>
    BY <1>5 DEF ToStop, m
  <2>2. rs \in Seq(Req) /\ OneRequest(rs, {"stop"}, stops) /\ TargetOf(rs, t) = t
    BY <2>1, NoRequest
  <2>3. FastFor(timeBased, t) => FastFor(m, t)
    BY <1>2 DEF FastFor
  <2> QED  BY <1>5, <2>2, <2>3 DEF m, stops, OnlyFor
<1> QED  BY <1>3, <1>4, <1>5

\* The options of a session change.
LEMMA ToUpdateServes ==
  ASSUME SessionMap(timeBased), NEW id \in Id, id \in DOMAIN timeBased, NEW o \in Options, NEW t \in R
  PROVE  LET rs == ToUpdate(id, o)
             m == Save(timeBased, id, o)
             u == TargetOf(rs, t)
         IN  /\ rs \in Seq(Req) /\ OneRequest(rs, {"start"}, Msg("updateDone", id, timeBased[id]))
             /\ u \in R /\ OnlyFor(m, u) /\ (FastFor(timeBased, t) => FastFor(m, u))
<1> DEFINE reply == Msg("updateDone", id, timeBased[id])
           m == Save(timeBased, id, o)
           left == Erase(timeBased, id)
           rs == ToUpdate(id, o)
<1>0. id \in Nat \ {0} /\ id \in Nat /\ timeBased[id] \in Options /\ timeBased[id] \in R
  BY IdsAre, OptionsOf, OptionsAre
<1>1. reply \in IdMsg
  BY <1>0, ReplyIs DEF IdKinds, DoneKinds
<1>2. /\ SessionMap(m) /\ DOMAIN m = DOMAIN timeBased \cup {id}
      /\ \A j \in DOMAIN m : m[j] = IF j = id THEN o ELSE timeBased[j]
  BY <1>0, Saved
<1>3. o \in R /\ o.minInterval \in Nat /\ o.powerMode # 0
  BY OptionsAre
<1>4. \A u : OnlyFor(m, u)
  BY <1>2 DEF OnlyFor
<1>5. /\ SessionMap(left) /\ DOMAIN left = DOMAIN timeBased \ {id}
      /\ \A j \in DOMAIN left : left[j] = timeBased[j]
  BY Erased
<1> HIDE DEF reply, m, left
<1>6. CASE o.minInterval = timeBased[id].minInterval /\ o.powerMode = timeBased[id].powerMode
  <2>1. rs = <<>>
    BY <1>6 DEF ToUpdate
  <2>2. rs \in Seq(Req) /\ OneRequest(rs, {"start"}, reply) /\ TargetOf(rs, t) = t
    BY <2>1, NoRequest
  <2>3. FastFor(timeBased, t) => FastFor(m, t)
    BY <1>2, <1>6 DEF FastFor
  <2> QED  BY <1>4, <2>2, <2>3 DEF m, reply
<1> DEFINE changes == ~ (o.minInterval = timeBased[id].minInterval /\ o.powerMode = timeBased[id].powerMode)
<1>7. CASE changes /\ DOMAIN left = {}
  <2>1. rs = <<Request("start", id, o, reply)>>
    BY <1>7 DEF ToUpdate, reply, left
  <2>2. \A j \in DOMAIN m : o.minInterval <= m[j].minInterval
    BY <1>2, <1>3, <1>5, <1>7
  <2>3. /\ rs \in Seq(Req) /\ OneRequest(rs, {"start"}, reply)
        /\ TargetOf(rs, t) \in R /\ FastFor(m, TargetOf(rs, t))
    BY <1>0, <1>1, <1>2, <1>3, <2>1, <2>2, AskedServes
  <2> QED  BY <1>4, <2>3 DEF m, reply
<1>8. CASE changes /\ DOMAIN left # {} /\ Raises(left, o)
  <2> DEFINE x == Multiplexed(left, o)
  <2>1. rs = <<Request("start", id, x, reply)>>
    BY <1>8 DEF ToUpdate, reply, left
  <2>2. /\ x \in R /\ x.powerMode # 0 /\ x.minInterval <= o.minInterval
        /\ \A j \in DOMAIN left : x.minInterval <= left[j].minInterval
    BY <1>5, <1>8, MultiplexedIs
  <2> HIDE DEF x
  <2>3. \A j \in DOMAIN m : x.minInterval <= m[j].minInterval
    BY <1>2, <1>5, <2>2
  <2>4. /\ rs \in Seq(Req) /\ OneRequest(rs, {"start"}, reply)
        /\ TargetOf(rs, t) \in R /\ FastFor(m, TargetOf(rs, t))
    BY <1>0, <1>1, <1>2, <2>1, <2>2, <2>3, AskedServes
  <2> QED  BY <1>4, <2>4 DEF m, reply
<1>9. CASE changes /\ DOMAIN left # {} /\ ~ Raises(left, o)
  <2>1. rs = <<>>
    BY <1>9 DEF ToUpdate, left
  <2>2. rs \in Seq(Req) /\ OneRequest(rs, {"start"}, reply) /\ TargetOf(rs, t) = t
    BY <2>1, NoRequest
  <2>3. ASSUME FastFor(timeBased, t) PROVE FastFor(m, t)
    <3>1. t # Off /\ t.minInterval <= o.minInterval
      <4>1. t.minInterval \in Nat
        BY DEF R
      <4>2. FastFor(left, t)
        BY <1>5, <2>3 DEF FastFor
      <4> QED  BY <1>5, <1>9, <4>1, <4>2, NotRaised
    <3> QED  BY <1>2, <2>3, <3>1 DEF FastFor
  <2> QED  BY <1>4, <2>2, <2>3 DEF m, reply
<1> QED  BY <1>6, <1>7, <1>8, <1>9

-----------------------------------------------------------------------------
(* Requests about each session of a set *)

LEMMA SeqOfSet ==
  ASSUME NEW D, IsFiniteSet(D)
  PROVE  /\ Cardinality(D) \in Nat /\ SetToSeq(D) \in [1..Cardinality(D) -> D]
         /\ SetToSeq(D) \in Seq(D) /\ Len(SetToSeq(D)) = Cardinality(D)
         /\ \A i, j \in 1..Cardinality(D) : SetToSeq(D)[i] = SetToSeq(D)[j] => i = j
         /\ \A x \in D : \E i \in 1..Cardinality(D) : SetToSeq(D)[i] = x
<1>0. Cardinality(D) \in Nat
  BY FS_CardinalityType
<1>1. \E f \in [1..Cardinality(D) -> D] : IsInjective(f)
  <2>1. ExistsBijection(1..Cardinality(D), D)
    BY FS_CardinalityType
  <2>2. PICK f \in Bijection(1..Cardinality(D), D) : TRUE
    BY <2>1 DEF ExistsBijection
  <2>3. f \in [1..Cardinality(D) -> D] /\ IsInjective(f)
    BY <2>2 DEF Bijection, Injection, IsInjective
  <2> QED  BY <2>3
<1>2. SetToSeq(D) \in [1..Cardinality(D) -> D] /\ IsInjective(SetToSeq(D))
  BY <1>1 DEF SetToSeq
<1> HIDE DEF SetToSeq
<1>3. \A i, j \in 1..Cardinality(D) : SetToSeq(D)[i] = SetToSeq(D)[j] => i = j
  BY <1>2 DEF IsInjective
<1>4. SetToSeq(D) \in Seq(D) /\ Len(SetToSeq(D)) = Cardinality(D)
  BY <1>0, <1>2
<1>5. \A x \in D : \E i \in 1..Cardinality(D) : SetToSeq(D)[i] = x
  <2>1. SetToSeq(D) \in Injection(1..Cardinality(D), D)
    BY <1>2 DEF Injection, IsInjective
  <2>2. Cardinality(1..Cardinality(D)) = Cardinality(D)
    BY <1>0, FS_Interval
  <2>3. SetToSeq(D) \in Surjection(1..Cardinality(D), D)
    BY <2>1, <2>2, FS_Injection
  <2> QED  BY <2>3 DEF Surjection
<1> QED  BY <1>0, <1>2, <1>3, <1>4, <1>5

LEMMA DistanceRequests ==
  ASSUME NEW D, IsFiniteSet(D), D \subseteq Nat, NEW t
  PROVE  LET rs == [i \in 1..Cardinality(D) |-> Request("startDistance", SetToSeq(D)[i], Off, NoReply)]
         IN  /\ rs \in Seq(Req) /\ TargetOf(rs, t) = t
             /\ \A r \in Elems(rs) : r.reply = NoReply /\ r.op = "startDistance" /\ r.id \in D
<1> DEFINE n == Cardinality(D)
           ids == SetToSeq(D)
           rs == [i \in 1..n |-> Request("startDistance", ids[i], Off, NoReply)]
<1>1. n \in Nat /\ \A i \in 1..n : ids[i] \in D
  BY SeqOfSet
<1> HIDE DEF ids, n
<1>2. ASSUME NEW i \in 1..n
      PROVE  /\ rs[i] \in Req /\ rs[i].op = "startDistance" /\ rs[i].reply = NoReply
             /\ rs[i].id \in D
  <2>1. rs[i] = Request("startDistance", ids[i], Off, NoReply) /\ ids[i] \in Nat
    BY <1>1
  <2>2. ids[i] \in D
    BY <1>1
  <2> HIDE DEF rs
  <2> QED  BY <2>1, <2>2, RequestIs, OffIs DEF Ops
<1>3. rs \in Seq(Req) /\ Len(rs) = n
  <2>1. rs \in [1..n -> Req]
    BY <1>2
  <2> QED  BY <1>1, <2>1
<1> HIDE DEF rs
<1>4. TargetOf(rs, t) = t
  BY <1>2, <1>3, TargetOfNone
<1>5. \A r \in Elems(rs) : r.reply = NoReply /\ r.op = "startDistance" /\ r.id \in D
  BY <1>2, <1>3 DEF Elems
<1> QED  BY <1>3, <1>4, <1>5 DEF rs, ids, n

\* Requests nobody waits for.
Plain(rs) == \A r \in Elems(rs) : /\ r.reply = NoReply
                                  /\ r.op = "startDistance" => r.id \in DOMAIN distanceBased

LEMMA ToRestartServes ==
  ASSUME SessionMap(timeBased), IsFiniteSet(DOMAIN distanceBased), DOMAIN distanceBased \subseteq Nat,
         NEW t \in R
  PROVE  LET u == TargetOf(ToRestart, t)
         IN  /\ ToRestart \in Seq(Req) /\ Plain(ToRestart)
             /\ u \in R /\ FastFor(timeBased, u) /\ (OnlyFor(timeBased, t) => OnlyFor(timeBased, u))
<1> DEFINE w == [i \in 1..Cardinality(DOMAIN distanceBased) |->
                   Request("startDistance", SetToSeq(DOMAIN distanceBased)[i], Off, NoReply)]
           r == Request("start", 0, Combined(timeBased), NoReply)
<1>1. /\ w \in Seq(Req) /\ \A e : TargetOf(w, e) = e
      /\ \A x \in Elems(w) : x.reply = NoReply /\ x.op = "startDistance" /\ x.id \in DOMAIN distanceBased
  BY DistanceRequests
<1>2. ToRestart = (IF DOMAIN timeBased = {} THEN <<>> ELSE <<r>>) \o w
  BY DEF ToRestart
<1> HIDE DEF w
<1>3. CASE DOMAIN timeBased = {}
  <2>1. ToRestart = w
    BY <1>1, <1>2, <1>3
  <2> QED  BY <1>1, <1>3, <2>1 DEF FastFor, Plain
<1>4. CASE DOMAIN timeBased # {}
  <2> DEFINE h == <<r>>
  <2>1. /\ h \in Seq(Req) /\ TargetOf(h, t) \in R /\ FastFor(timeBased, TargetOf(h, t))
        /\ r.op = "start" /\ r.reply = NoReply /\ Elems(h) = {r}
    <3> DEFINE x == Combined(timeBased)
    <3>1. x \in R /\ x.powerMode # 0 /\ \A j \in DOMAIN timeBased : x.minInterval <= timeBased[j].minInterval
      BY <1>4, CombinedIs
    <3> HIDE DEF x
    <3>2. r.op = "start" /\ r.reply = NoReply /\ r \in Req
      BY <3>1, RequestIs DEF x, Ops
    <3>3. h \in Seq(Req) /\ TargetOf(h, t) \in R /\ FastFor(timeBased, TargetOf(h, t))
      BY <3>1, AskedServes DEF x
    <3> QED  BY <3>2, <3>3, Single
  <2>2. ToRestart = h \o w
    BY <1>2, <1>4
  <2> HIDE DEF h, r
  <2>3. TargetOf(h \o w, t) = TargetOf(h, t)
    BY <1>1, <2>1, TargetJoined
  <2>4. h \o w \in Seq(Req) /\ Elems(h \o w) = Elems(h) \cup Elems(w)
    BY <1>1, <2>1, Joined
  <2>5. Plain(ToRestart)
    BY <1>1, <2>1, <2>2, <2>4 DEF Plain
  <2> QED  BY <1>4, <2>1, <2>2, <2>3, <2>4, <2>5 DEF OnlyFor
<1> QED  BY <1>3, <1>4

LEMMA ToSuspendServes ==
  ASSUME NEW t \in R
  PROVE  LET u == TargetOf(ToSuspend, t)
         IN  /\ ToSuspend \in Seq(Req) /\ Plain(ToSuspend)
             /\ u \in R /\ (OnlyFor(timeBased, t) => OnlyFor(timeBased, u))
<1>1. CASE DOMAIN timeBased = {}
  <2>1. ToSuspend = <<>>
    BY <1>1 DEF ToSuspend
  <2>2. Plain(<<>>)
    BY Single DEF Plain
  <2> QED  BY <2>1, <2>2, NoRequest
<1>2. CASE DOMAIN timeBased # {}
  <2> DEFINE r == Request("stop", 0, Off, NoReply)
  <2>1. ToSuspend = <<r>>
    BY <1>2 DEF ToSuspend
  <2>2. r \in Req /\ r.op = "stop" /\ r.reply = NoReply /\ Elems(<<r>>) = {r}
    BY RequestIs, OffIs, Single DEF Ops
  <2>3. <<r>> \in Seq(Req) /\ TargetOf(<<r>>, t) = Off
    BY RequestServes, OffIs DEF Ops
  <2> HIDE DEF r
  <2> QED  BY <1>2, <2>1, <2>2, <2>3, OffIs DEF Plain, OnlyFor
<1> QED  BY <1>1, <1>2

\* What suspension, resumption and a restart of the modem ask for.
LEMMA ToSetPowerServes ==
  ASSUME SessionMap(timeBased), IsFiniteSet(DOMAIN distanceBased), DOMAIN distanceBased \subseteq Nat,
         NEW t \in R, NEW power
  PROVE  LET u == TargetOf(ToSetPower(power), t)
         IN  /\ ToSetPower(power) \in Seq(Req) /\ Plain(ToSetPower(power))
             /\ u \in R /\ (OnlyFor(timeBased, t) => OnlyFor(timeBased, u))
             /\ power = "resume" => FastFor(timeBased, u)
             /\ power \notin {"suspend", "resume"} => u = t
<1>1. CASE power = "suspend"
  BY <1>1, ToSuspendServes DEF ToSetPower
<1>2. CASE power = "resume"
  BY <1>2, ToRestartServes DEF ToSetPower
<1>3. CASE power \notin {"suspend", "resume"}
  <2>1. ToSetPower(power) = <<>> /\ Plain(<<>>)
    BY <1>3, Single DEF ToSetPower, Plain
  <2> QED  BY <1>3, <2>1, NoRequest
<1> QED  BY <1>1, <1>2, <1>3

-----------------------------------------------------------------------------
(* The inductive invariant *)

\* A modem that takes distance based sessions and refuses no time based one, and clients that
\* wait for their answers.
Obliging == /\ Patient = TRUE /\ DistanceSupported = TRUE
            /\ "start" \notin Fails /\ "stop" \notin Fails

Typed ==
    /\ mClientData \subseteq Client /\ owner \in Seq(Client) /\ Len(owner) <= MaxId
    /\ SessionMap(timeBased) /\ DOMAIN timeBased \subseteq DOMAIN owner
    /\ SessionMap(distanceBased) /\ DOMAIN distanceBased \subseteq DOMAIN owner
    /\ queue \in Seq(Message) /\ mPendingMsgs \in Seq(IdMsg) /\ requests \in Seq(Req)
    /\ \A m \in Elems(mPendingMsgs) : m.kind \in {"start", "update"}
    /\ \A r \in Elems(requests) : r.op = "startDistance" => r.id \in DOMAIN owner
    /\ known \in BOOLEAN /\ mSystemPowerState \in {"unknown", "suspend", "resume"}
    /\ engine \in R /\ engineDistance \subseteq DOMAIN owner
    /\ stopped \subseteq DOMAIN owner /\ waiting \subseteq DOMAIN owner
    /\ answer \in [Id -> Answers]

\* The messages about sessions that are queued, postponed, or will be the modem's answer.
Flying == (Elems(queue) \cup Elems(mPendingMsgs) \cup {r.reply : r \in Elems(requests)}) \cap IdMsg

\* At most one of them is about session id.
OneInFlight(id) ==
    /\ AtMostOne(queue, Mine(id)) /\ AtMostOne(mPendingMsgs, Mine(id)) /\ AtMostOne(requests, Asked(id))
    /\ ~ (Comes(queue, Mine(id)) /\ Comes(mPendingMsgs, Mine(id)))
    /\ ~ (Comes(queue, Mine(id)) /\ Comes(requests, Asked(id)))
    /\ ~ (Comes(mPendingMsgs, Mine(id)) /\ Comes(requests, Asked(id)))

InTime(id) == id \in DOMAIN timeBased
InDistance(id) == id \in DOMAIN distanceBased
Leaves(c) == Comes(queue, {MsgRemoveClient(c)})
Ending(c) == c \notin mClientData \/ (queue # <<>> /\ Head(queue) = MsgRemoveClient(c))

\* The client of session id waits for an answer, and what a message says of the session then.
Waits(id) == id \in waiting /\ owner[id] \in mClientData /\ ~ Leaves(owner[id])

Says(m) ==
    /\ m.kind # "clientStopDone"
    /\ m.kind \in {"stop", "distanceStopDone"} => m.id \in stopped
    /\ m.kind \in {"start", "update", "updateDone", "switchDone", "restartStopDone", "restartDone"} =>
          m.id \notin stopped /\ m.options \in Options
    /\ m.kind \in {"start", "switchDone"} => ~ InTime(m.id) /\ ~ InDistance(m.id)
    /\ m.kind \in {"startDone", "stopDone"} => (InTime(m.id) \/ InDistance(m.id) <=> m.id \notin stopped)
    /\ m.kind = "updateDone" => InTime(m.id)
    /\ m.kind = "switchDone" => m.options.minDistance = 0
    /\ m.kind \in {"distanceStopDone", "restartStopDone", "restartDone"} => InDistance(m.id)
    /\ m.kind \in {"restartStopDone", "restartDone"} => m.options.minDistance > 0
    /\ ~ m.ok => \/ m.kind = "startDone" /\ InDistance(m.id)
                 \/ m.kind = "restartDone"
                 \/ /\ m.kind \in {"distanceStopDone", "switchDone", "restartStopDone"}
                    /\ "stopDistance" \in Fails

Awaited(m) == Waits(m.id) /\ Says(m)

\* What one says of the session of a client that is being removed.
Orphaned(m) ==
    /\ Ending(owner[m.id]) /\ ~ InTime(m.id)
    /\ m.kind \in {"startDone", "stopDone", "clientStopDone"}
    /\ m.kind = "clientStopDone" => owner[m.id] \notin mClientData /\ InDistance(m.id)
    /\ m.kind # "clientStopDone" => ~ InDistance(m.id) /\ m.ok
    /\ ~ m.ok => "stopDistance" \in Fails

MsgFits(m) == m.id \in DOMAIN owner /\ (Awaited(m) \/ Orphaned(m))

\* What the modem may refuse.
OpFits(r) ==
    /\ r.reply.ok /\ r.reply.kind \in DoneKinds
    /\ r.reply.kind = "startDone" =>
          r.op = "start" \/ (r.op = "startDistance" /\ InDistance(r.reply.id) /\ Awaited(r.reply))
    /\ r.reply.kind = "stopDone" => r.op = "stop"
    /\ r.reply.kind = "updateDone" => r.op = "start"
    /\ r.reply.kind = "restartDone" => r.op = "startDistance"
    /\ r.reply.kind \in {"distanceStopDone", "clientStopDone", "switchDone", "restartStopDone"} =>
          r.op = "stopDistance"

FlightFits ==
    /\ \A id \in Id : OneInFlight(id)
    /\ \A m \in Flying : MsgFits(m)
    /\ \A r \in Elems(requests) : r.reply \in IdMsg => OpFits(r)

\* A client is removed once.
RemovalFits ==
    \A c \in Client : AtMostOne(queue, {MsgRemoveClient(c)}) /\ (Leaves(c) => c \in mClientData)

Disjoint == DOMAIN timeBased \cap DOMAIN distanceBased = {}
Postponed == known => mPendingMsgs = <<>>

\* What the modem will run serves the sessions.
EngineFits ==
    /\ Target \in R /\ OnlyFor(timeBased, Target)
    /\ Running => FastFor(timeBased, Target)

TrackIInv == Typed /\ FlightFits /\ RemovalFits /\ Disjoint /\ Postponed /\ EngineFits

-----------------------------------------------------------------------------
(* Messages and what they say when something else changes *)

LEMMA MessagesAre ==
  /\ \A m \in IdMsg : m.kind \in IdKinds /\ m.id \in Id /\ m.options \in R /\ m.ok \in BOOLEAN
  /\ \A m \in PlainMsg : m \notin IdMsg /\ m.kind \in {"suspend", "resume", "engineUp"}
  /\ \A c : /\ MsgRemoveClient(c) \notin IdMsg /\ MsgRemoveClient(c) \notin PlainMsg
            /\ MsgRemoveClient(c).kind = "removeClient" /\ MsgRemoveClient(c).client = c
  /\ NoReply \notin IdMsg
<1>1. \A m \in IdMsg : m.kind \in IdKinds /\ m.id \in Id /\ m.options \in R /\ m.ok \in BOOLEAN
  BY DEF IdMsg
<1>2. {"suspend", "resume", "engineUp", "removeClient", "none"} \cap IdKinds = {}
  BY DEF IdKinds, CallKinds, DoneKinds
<1>3. \A m \in PlainMsg : m.kind \in {"suspend", "resume", "engineUp"}
  BY DEF PlainMsg, Msg
<1>4. \A c : MsgRemoveClient(c).kind = "removeClient" /\ MsgRemoveClient(c).client = c
  BY DEF MsgRemoveClient
<1>5. NoReply.kind = "none"
  BY OffIs
<1> QED  BY <1>1, <1>2, <1>3, <1>4, <1>5

LEMMA KindTells ==
  ASSUME NEW m \in Message
  PROVE  /\ m.kind \in IdKinds => m \in IdMsg
         /\ m.kind \in {"suspend", "resume", "engineUp"} => m \in PlainMsg
         /\ m.kind = "removeClient" => \E c \in Client : m = MsgRemoveClient(c)
         /\ m.kind \in IdKinds \cup {"suspend", "resume", "engineUp", "removeClient"}
<1>1. {"suspend", "resume", "engineUp", "removeClient", "none"} \cap IdKinds = {}
  BY DEF IdKinds, CallKinds, DoneKinds
<1>2. m \in IdMsg \/ m \in PlainMsg \/ \E c \in Client : m = MsgRemoveClient(c)
  BY DEF Message
<1> QED  BY <1>1, <1>2, MessagesAre

\* Nothing that a message about session id says has changed.
Steady(id) ==
    /\ id \in DOMAIN owner => id \in DOMAIN owner' /\ owner'[id] = owner[id]
    /\ id \in waiting => id \in waiting'
    /\ id \in stopped' <=> id \in stopped
    /\ id \in DOMAIN timeBased' <=> id \in DOMAIN timeBased
    /\ id \in DOMAIN distanceBased' <=> id \in DOMAIN distanceBased
    /\ \A c \in Client : c = owner[id] =>
          /\ c \in mClientData /\ ~ Leaves(c) => c \in mClientData' /\ ~ Leaves(c)'
          /\ Ending(c) => Ending(c)'
          /\ c \notin mClientData => c \notin mClientData'

LEMMA MsgSteady ==
  ASSUME Typed, NEW m \in IdMsg, MsgFits(m), Steady(m.id)
  PROVE  MsgFits(m)' /\ (Awaited(m) => Awaited(m)')
<1> DEFINE c == owner[m.id]
<1>1. m.id \in DOMAIN owner /\ c \in Client
  BY DEF MsgFits, Typed
<1>2. m.id \in DOMAIN owner' /\ owner'[m.id] = c
  BY <1>1 DEF Steady
<1>3. /\ c \in mClientData /\ ~ Leaves(c) => c \in mClientData' /\ ~ Leaves(c)'
      /\ Ending(c) => Ending(c)'
      /\ c \notin mClientData => c \notin mClientData'
  BY <1>1 DEF Steady
<1>4. /\ m.id \in waiting => m.id \in waiting'
      /\ m.id \in stopped' <=> m.id \in stopped
      /\ InTime(m.id)' <=> InTime(m.id)
      /\ InDistance(m.id)' <=> InDistance(m.id)
  BY DEF Steady, InTime, InDistance
<1>5. Leaves(owner[m.id])' <=> Leaves(c)'
  BY <1>2 DEF Leaves
<1>6. Ending(owner[m.id])' <=> Ending(c)'
  BY <1>2 DEF Ending
<1>7. Awaited(m) => Awaited(m)'
  <2>1. Waits(m.id) => Waits(m.id)'
    BY <1>2, <1>3, <1>4, <1>5 DEF Waits
  <2>2. Says(m) => Says(m)'
    BY <1>4 DEF Says
  <2> QED  BY <2>1, <2>2 DEF Awaited
<1>8. Orphaned(m) => Orphaned(m)'
  BY <1>2, <1>3, <1>4, <1>6 DEF Orphaned
<1> QED  BY <1>2, <1>7, <1>8 DEF MsgFits

LEMMA OpSteady ==
  ASSUME Typed, NEW r \in Req, r.reply \in IdMsg, MsgFits(r.reply), OpFits(r), Steady(r.reply.id)
  PROVE  OpFits(r)'
<1>1. Awaited(r.reply) => Awaited(r.reply)'
  BY MsgSteady
<1>2. InDistance(r.reply.id)' <=> InDistance(r.reply.id)
  BY DEF Steady, InDistance
<1> QED  BY <1>1, <1>2 DEF OpFits

\* The next message is taken, and it is about no client.
LEMMA TakenSteady ==
  ASSUME Typed, queue # <<>>, Head(queue) \in IdMsg \cup PlainMsg, mClientData' = mClientData,
         queue' = Tail(queue)
  PROVE  \A c : /\ Leaves(c)' <=> Leaves(c)
                /\ Ending(c) => Ending(c)'
                /\ AtMostOne(queue, {MsgRemoveClient(c)}) => AtMostOne(queue', {MsgRemoveClient(c)})
<1> SUFFICES ASSUME NEW c
             PROVE  /\ Leaves(c)' <=> Leaves(c)
                    /\ Ending(c) => Ending(c)'
                    /\ AtMostOne(queue, {MsgRemoveClient(c)}) => AtMostOne(queue', {MsgRemoveClient(c)})
  OBVIOUS
<1>1. Head(queue) # MsgRemoveClient(c)
  BY MessagesAre
<1>2. /\ Comes(queue, {MsgRemoveClient(c)}) <=> Comes(Tail(queue), {MsgRemoveClient(c)})
      /\ AtMostOne(queue, {MsgRemoveClient(c)}) => AtMostOne(Tail(queue), {MsgRemoveClient(c)})
  BY <1>1, Taken DEF Typed
<1> QED  BY <1>1, <1>2 DEF Leaves, Ending

\* A message is queued: only the client it is about leaves.
LEMMA SentSteady ==
  ASSUME Typed, NEW m \in Message, mClientData' = mClientData, queue' = Append(queue, m)
  PROVE  \A c : /\ Leaves(c)' <=> Leaves(c) \/ m = MsgRemoveClient(c)
                /\ Ending(c) => Ending(c)'
                /\ AtMostOne(queue, {MsgRemoveClient(c)}) /\ (m = MsgRemoveClient(c) => ~ Leaves(c)) =>
                      AtMostOne(queue', {MsgRemoveClient(c)})
<1> SUFFICES ASSUME NEW c
             PROVE  /\ Leaves(c)' <=> Leaves(c) \/ m = MsgRemoveClient(c)
                    /\ Ending(c) => Ending(c)'
                    /\ AtMostOne(queue, {MsgRemoveClient(c)}) /\ (m = MsgRemoveClient(c) => ~ Leaves(c)) =>
                          AtMostOne(queue', {MsgRemoveClient(c)})
  OBVIOUS
<1>1. queue \in Seq(Message)
  BY DEF Typed
<1> DEFINE A == {MsgRemoveClient(c)}
<1>4. m \in A <=> m = MsgRemoveClient(c)
  OBVIOUS
<1> HIDE DEF A
<1>2. /\ Comes(Append(queue, m), A) <=> Comes(queue, A) \/ m \in A
      /\ AtMostOne(Append(queue, m), A) <=> AtMostOne(queue, A) /\ ~ (Comes(queue, A) /\ m \in A)
  BY <1>1, Appended
<1>3. queue # <<>> => Append(queue, m) # <<>> /\ Head(Append(queue, m)) = Head(queue)
  BY <1>1
<1> QED  BY <1>2, <1>3, <1>4 DEF Leaves, Ending, A

-----------------------------------------------------------------------------
(* Handling a message about a session *)

\* The requests rs are made; nothing changes but for the message's session.
Handled(rs) ==
    /\ queue # <<>> /\ Head(queue) \in IdMsg /\ queue' = Tail(queue)
    /\ requests' = requests \o rs /\ rs \in Seq(Req)
    /\ UNCHANGED <<state, modem, calls>>
    /\ \A id \in Id : AtMostOne(rs, Asked(id))
    /\ \A r \in Elems(rs) : r.op = "startDistance" => r.id = id0
    /\ \A r \in Elems(rs) : r.reply \in IdMsg => r.reply.id = id0
    /\ \A id \in Id \ {id0} : /\ id \in DOMAIN timeBased' <=> id \in DOMAIN timeBased
                              /\ id \in DOMAIN distanceBased' <=> id \in DOMAIN distanceBased
    /\ waiting \ {id0} \subseteq waiting' /\ waiting' \subseteq waiting /\ answer' \in [Id -> Answers]

\* What the requests are worth.
Serves(rs) ==
    /\ \A r \in Elems(rs) : r.reply \in IdMsg => (MsgFits(r.reply) /\ OpFits(r))'
    /\ SessionMap(timeBased') /\ DOMAIN timeBased' \subseteq DOMAIN timeBased \cup {id0}
    /\ SessionMap(distanceBased') /\ DOMAIN distanceBased' \subseteq DOMAIN distanceBased \cup {id0}
    /\ DOMAIN timeBased' \cap DOMAIN distanceBased' = {}
    /\ TargetOf(rs, Target) \in R /\ OnlyFor(timeBased', TargetOf(rs, Target))
    /\ Running /\ FastFor(timeBased, Target) => FastFor(timeBased', TargetOf(rs, Target))

\* What is in flight then: other sessions' messages and the answer to the one request.
LEMMA HandledFlight ==
  ASSUME Typed, FlightFits, NEW rs, Handled(rs)
  PROVE  /\ id0 \in Id /\ MsgFits(Head(queue))
         /\ \A id \in Id : OneInFlight(id)'
         /\ \A m \in Flying' : (m \in Flying /\ m.id # id0) \/ \E r \in Elems(rs) : m = r.reply
         /\ \A m \in Flying : m.id # id0 => m \in Flying'
         /\ \A r \in Elems(rs) : r.reply \in IdMsg => r.reply \in Flying'
         /\ \A r \in Elems(requests) : r.reply \in IdMsg => r.reply.id # id0
         /\ Elems(requests') = Elems(requests) \cup Elems(rs)
<1>0. /\ queue \in Seq(Message) /\ queue # <<>> /\ requests \in Seq(Req) /\ rs \in Seq(Req)
      /\ mPendingMsgs' = mPendingMsgs /\ queue' = Tail(queue) /\ requests' = requests \o rs
      /\ Head(queue) \in IdMsg
  BY DEF Typed, Handled, state
<1>1. /\ Elems(queue) = {Head(queue)} \cup Elems(queue')
      /\ \A A : /\ Comes(queue, A) <=> Head(queue) \in A \/ Comes(queue', A)
                /\ AtMostOne(queue, A) <=> AtMostOne(queue', A) /\ ~ (Head(queue) \in A /\ Comes(queue', A))
  BY <1>0, Taken
<1>2. /\ Elems(requests') = Elems(requests) \cup Elems(rs)
      /\ \A A : /\ Comes(requests', A) <=> Comes(requests, A) \/ Comes(rs, A)
                /\ AtMostOne(requests', A) <=> /\ AtMostOne(requests, A) /\ AtMostOne(rs, A)
                                               /\ ~ (Comes(requests, A) /\ Comes(rs, A))
  BY <1>0, Joined
<1>3. id0 \in Id /\ Head(queue) \in Mine(id0) /\ MsgFits(Head(queue))
  <2>1. Head(queue) \in Elems(queue)
    BY <1>1
  <2> QED  BY <1>0, <2>1, MessagesAre DEF Mine, id0, FlightFits, Flying
<1>4. OneInFlight(id0) /\ Comes(queue, Mine(id0))
  BY <1>1, <1>3 DEF FlightFits
<1>5. ~ Comes(queue', Mine(id0)) /\ ~ Comes(mPendingMsgs, Mine(id0)) /\ ~ Comes(requests, Asked(id0))
  BY <1>1, <1>3, <1>4 DEF OneInFlight
<1>6. \A m \in Elems(queue') \cup Elems(mPendingMsgs) : m \notin Mine(id0)
  BY <1>5, ComesIn
<1>7. \A r \in Elems(requests) : r \in Req /\ r \notin Asked(id0)
  <2>1. \A r \in Elems(requests) : r \in Req
    BY <1>0 DEF Elems
  <2> QED  BY <1>5, <2>1, ComesIn
<1>8. \A r \in Elems(requests) : r.reply \in IdMsg => r.reply.id # id0
  BY <1>7 DEF Asked, Mine
<1>9. \A m \in Elems(queue') \cup Elems(mPendingMsgs) : m \in IdMsg => m.id # id0
  BY <1>6 DEF Mine
<1>10. ASSUME NEW id \in Id PROVE OneInFlight(id)'
  <2>1. AtMostOne(rs, Asked(id)) /\ OneInFlight(id)
    BY DEF Handled, FlightFits
  <2>2. CASE id = id0
    BY <1>0, <1>1, <1>2, <1>5, <2>1, <2>2 DEF OneInFlight
  <2>3. CASE id # id0
    <3>1. ~ Comes(rs, Asked(id))
      <4>1. \A r \in Elems(rs) : r \notin Asked(id)
        BY <2>3 DEF Handled, Asked, Mine
      <4> QED  BY <4>1, ComesIn
    <3> QED  BY <1>0, <1>1, <1>2, <2>1, <3>1 DEF OneInFlight
  <2> QED  BY <2>2, <2>3
<1>11. ASSUME NEW m \in Flying' PROVE (m \in Flying /\ m.id # id0) \/ \E r \in Elems(rs) : m = r.reply
  <2>1. m \in IdMsg /\ \/ m \in Elems(queue') \cup Elems(mPendingMsgs)
                       \/ \E r \in Elems(requests') : m = r.reply
    BY <1>0 DEF Flying
  <2>2. CASE m \in Elems(queue') \cup Elems(mPendingMsgs)
    BY <1>1, <1>9, <2>1, <2>2 DEF Flying
  <2>3. CASE \E r \in Elems(requests') : m = r.reply
    BY <1>2, <1>8, <2>1, <2>3 DEF Flying
  <2> QED  BY <2>1, <2>2, <2>3
<1>12. ASSUME NEW m \in Flying, m.id # id0 PROVE m \in Flying'
  <2>1. m # Head(queue)
    BY <1>12 DEF id0
  <2>2. m \in IdMsg /\ \/ m \in Elems(queue') \cup Elems(mPendingMsgs')
                       \/ \E r \in Elems(requests') : m = r.reply
    BY <1>0, <1>1, <1>2, <2>1 DEF Flying
  <2> QED  BY <2>2 DEF Flying
<1>13. \A r \in Elems(rs) : r.reply \in IdMsg => r.reply \in Flying'
  BY <1>2 DEF Flying
<1> QED  BY <1>2, <1>3, <1>8, <1>10, <1>11, <1>12, <1>13

LEMMA RunningTaken ==
  ASSUME Typed, queue # <<>>, Head(queue).kind # "engineUp", queue' = Tail(queue),
         mSystemPowerState' = mSystemPowerState
  PROVE  Running' <=> Running
<1>1. Elems(queue) = {Head(queue)} \cup Elems(queue')
  BY Taken DEF Typed
<1>2. Awaits("engineUp") <=> \E m \in Elems(queue) : m.kind = "engineUp"
  BY DEF Awaits, Elems
<1>3. Awaits("engineUp")' <=> \E m \in Elems(queue') : m.kind = "engineUp"
  BY DEF Awaits, Elems
<1> QED  BY <1>1, <1>2, <1>3 DEF Running

\* Other sessions are not touched.
LEMMA HandledSteady ==
  ASSUME Typed, FlightFits, NEW rs, Handled(rs), NEW id \in Id, id # id0
  PROVE  Steady(id)
<1>1. /\ owner' = owner /\ stopped' = stopped /\ mClientData' = mClientData
      /\ waiting \ {id0} \subseteq waiting'
      /\ id \in DOMAIN timeBased' <=> id \in DOMAIN timeBased
      /\ id \in DOMAIN distanceBased' <=> id \in DOMAIN distanceBased
  BY DEF Handled, state, calls
<1>2. \A c : (Leaves(c)' <=> Leaves(c)) /\ (Ending(c) => Ending(c)')
  BY <1>1, TakenSteady DEF Handled
<1> QED  BY <1>1, <1>2 DEF Steady

LEMMA HandledKeeps ==
  ASSUME TrackIInv, NEW rs, Handled(rs), Serves(rs)
  PROVE  TrackIInv'
<1>0. Typed /\ FlightFits /\ RemovalFits /\ Disjoint /\ Postponed /\ EngineFits
  BY DEF TrackIInv
<1>1. /\ queue # <<>> /\ Head(queue) \in IdMsg /\ queue' = Tail(queue)
      /\ requests' = requests \o rs /\ rs \in Seq(Req)
      /\ mClientData' = mClientData /\ mPendingMsgs' = mPendingMsgs /\ known' = known
      /\ mSystemPowerState' = mSystemPowerState /\ engine' = engine /\ engineDistance' = engineDistance
      /\ owner' = owner /\ stopped' = stopped
      /\ waiting' \subseteq waiting /\ answer' \in [Id -> Answers]
  BY DEF Handled, state, modem, calls
<1>2. id0 \in DOMAIN owner /\ id0 \in Id /\ Head(queue).kind # "engineUp"
  <2>1. MsgFits(Head(queue)) /\ id0 \in Id
    BY <1>0, HandledFlight
  <2>2. Head(queue).kind # "engineUp"
    BY <1>1, MessagesAre DEF IdKinds, CallKinds, DoneKinds
  <2> QED  BY <2>1, <2>2 DEF MsgFits, id0
<1>3. Typed'
  <2>1. queue' \in Seq(Message) /\ requests' \in Seq(Req)
    BY <1>0, <1>1, Taken, Joined DEF Typed
  <2>2. \A r \in Elems(requests') : r.op = "startDistance" => r.id \in DOMAIN owner
    <3>1. Elems(requests') = Elems(requests) \cup Elems(rs)
      BY <1>0, HandledFlight
    <3>2. \A r \in Elems(rs) : r.op = "startDistance" => r.id = id0
      BY DEF Handled
    <3> QED  BY <1>0, <1>2, <3>1, <3>2 DEF Typed
  <2>3. /\ SessionMap(timeBased') /\ DOMAIN timeBased' \subseteq DOMAIN owner
        /\ SessionMap(distanceBased') /\ DOMAIN distanceBased' \subseteq DOMAIN owner
    BY <1>0, <1>2 DEF Typed, Serves
  <2> QED  BY <1>0, <1>1, <2>1, <2>2, <2>3 DEF Typed
<1>4. FlightFits'
  <2>1. \A id \in Id : OneInFlight(id)'
    BY <1>0, HandledFlight
  <2>2. ASSUME NEW m \in Flying' PROVE MsgFits(m)'
    <3>1. m \in IdMsg /\ ((m \in Flying /\ m.id # id0) \/ \E r \in Elems(rs) : m = r.reply)
      BY <1>0, HandledFlight DEF Flying
    <3>2. CASE m \in Flying /\ m.id # id0
      <4>1. Steady(m.id)
        BY <1>0, <3>1, <3>2, HandledSteady, MessagesAre
      <4> QED  BY <1>0, <3>1, <3>2, <4>1, MsgSteady DEF FlightFits
    <3>3. CASE \E r \in Elems(rs) : m = r.reply
      BY <3>1, <3>3 DEF Serves
    <3> QED  BY <3>1, <3>2, <3>3
  <2>3. ASSUME NEW r \in Elems(requests'), r.reply \in IdMsg PROVE OpFits(r)'
    <3>1. r \in Elems(requests) \/ r \in Elems(rs)
      BY <1>0, HandledFlight
    <3>2. CASE r \in Elems(requests)
      <4>1. r.reply \in Flying /\ r \in Req
        BY <1>0, <2>3, <3>2 DEF Flying, Typed, Elems
      <4>2. Steady(r.reply.id)
        BY <1>0, <2>3, <3>2, HandledFlight, HandledSteady, MessagesAre
      <4> QED  BY <1>0, <2>3, <3>2, <4>1, <4>2, OpSteady DEF FlightFits
    <3>3. CASE r \in Elems(rs)
      BY <2>3, <3>3 DEF Serves
    <3> QED  BY <3>1, <3>2, <3>3
  <2> QED  BY <2>1, <2>2, <2>3 DEF FlightFits
<1>5. RemovalFits'
  <2>1. \A c : (Leaves(c)' <=> Leaves(c)) /\ (AtMostOne(queue, {MsgRemoveClient(c)}) => AtMostOne(queue', {MsgRemoveClient(c)}))
    BY <1>0, <1>1, TakenSteady
  <2> QED  BY <1>0, <1>1, <2>1 DEF RemovalFits
<1>6. Disjoint' /\ Postponed'
  BY <1>0, <1>1 DEF Disjoint, Postponed, Serves
<1>7. EngineFits'
  <2>1. Target' = TargetOf(rs, Target)
    <3>1. TargetOf(requests \o rs, engine) = TargetOf(rs, TargetOf(requests, engine))
      BY <1>0, <1>1, TargetJoined DEF Typed
    <3> QED  BY <1>1, <3>1 DEF Target
  <2>2. Running' <=> Running
    BY <1>0, <1>1, <1>2, RunningTaken
  <2> QED  BY <1>0, <2>1, <2>2 DEF EngineFits, Serves
<1> QED  BY <1>3, <1>4, <1>5, <1>6, <1>7 DEF TrackIInv

-----------------------------------------------------------------------------
(* What the handlers have in common *)

Base == /\ queue # <<>> /\ Head(queue) \in IdMsg /\ queue' = Tail(queue)
        /\ UNCHANGED <<state, modem, calls>>

LEMMA HeadIs ==
  ASSUME TrackIInv, NEW kind \in IdKinds, NextMsg(kind)
  PROVE  /\ queue # <<>> /\ Head(queue) \in IdMsg /\ Head(queue).kind = kind
         /\ id0 = Head(queue).id /\ id0 \in Id /\ id0 \in Nat \ {0} /\ id0 \in DOMAIN owner
         /\ options0 \in R /\ Head(queue) \in Flying /\ MsgFits(Head(queue))
<1>1. queue \in Seq(Message) /\ queue # <<>> /\ Head(queue).kind = kind
  BY DEF TrackIInv, Typed, NextMsg
<1>2. Head(queue) \in Message /\ Head(queue) \in Elems(queue)
  <2>1. Elems(queue) = {Head(queue)} \cup Elems(Tail(queue))
    BY <1>1, Taken
  <2>2. Head(queue) \in Message
    BY <1>1
  <2> QED  BY <2>1, <2>2
<1>3. Head(queue) \in IdMsg
  BY <1>1, <1>2, KindTells
<1>4. Head(queue) \in Flying
  BY <1>2, <1>3 DEF Flying
<1>5. MsgFits(Head(queue))
  BY <1>4 DEF TrackIInv, FlightFits
<1> QED  BY <1>1, <1>3, <1>4, <1>5, MessagesAre, IdsAre DEF id0, options0, MsgFits

\* A handler's client waits on if it is not told.
LEMMA WaitsOn ==
  ASSUME Typed, Base, NEW id, Waits(id), id \in waiting'
  PROVE  Waits(id)'
<1>1. mClientData' = mClientData /\ owner' = owner
  BY DEF Base, state, calls
<1>2. \A c : Leaves(c)' <=> Leaves(c)
  BY <1>1, TakenSteady DEF Base
<1>3. Leaves(owner[id])' <=> Leaves(owner[id])
  BY <1>1, <1>2 DEF Leaves
<1> QED  BY <1>1, <1>3 DEF Waits

LEMMA Reported ==
  ASSUME Typed, NEW id \in Id, NEW err \in Answers, ReportResponse(id, err)
  PROVE  waiting \ {id} \subseteq waiting' /\ waiting' \subseteq waiting /\ answer' \in [Id -> Answers]
<1>1. answer \in [Id -> Answers]
  BY DEF Typed
<1>2. CASE owner[id] \in mClientData
  BY <1>1, <1>2 DEF ReportResponse
<1>3. CASE owner[id] \notin mClientData
  BY <1>1, <1>3 DEF ReportResponse, told
<1> QED  BY <1>2, <1>3

\* Who asks the modem something tells the client later, who asks nothing at once.
LEMMA AskedAndReported ==
  ASSUME Typed, NEW id \in Id, NEW rs, AskAndReport(id, rs)
  PROVE  /\ requests' = requests \o rs
         /\ waiting \ {id} \subseteq waiting' /\ waiting' \subseteq waiting /\ answer' \in [Id -> Answers]
         /\ rs # <<>> => waiting' = waiting
<1>1. requests' = requests \o rs
  BY DEF AskAndReport, Ask
<1>2. CASE rs = <<>>
  <2>1. ReportResponse(id, "success") /\ "success" \in Answers
    BY <1>2 DEF AskAndReport, Answers
  <2> QED  BY <1>1, <1>2, <2>1, Reported
<1>3. CASE rs # <<>>
  BY <1>1, <1>3 DEF AskAndReport, told, Typed
<1> QED  BY <1>2, <1>3

LEMMA OneIs ==
  ASSUME NEW rs, NEW ops, NEW reply, OneRequest(rs, ops, reply)
  PROVE  /\ \A r \in Elems(rs) : r.op \in ops /\ r.reply = reply /\ rs # <<>>
         /\ \A A : AtMostOne(rs, A)
<1>1. CASE rs = <<>>
  BY <1>1, Single
<1>2. CASE \E r \in Req : rs = <<r>> /\ r.op \in ops /\ r.reply = reply
  <2>1. PICK r \in Req : rs = <<r>> /\ r.op \in ops /\ r.reply = reply
    BY <1>2
  <2>2. Elems(<<r>>) = {r} /\ \A A : AtMostOne(<<r>>, A)
    BY Single
  <2> QED  BY <2>1, <2>2
<1> QED  BY <1>1, <1>2 DEF OneRequest

\* The one request a handler makes.
LEMMA OneServes ==
  ASSUME Typed, Base, NEW id \in Id, id \in DOMAIN owner, NEW rs, NEW ops, NEW reply \in IdMsg,
         OneRequest(rs, ops, reply), reply.id = id, reply.ok, reply.kind \in DoneKinds,
         rs # <<>> => waiting' = waiting, Waits(id), Says(reply)',
         reply.kind = "startDone" =>
             ops = {"start"} \/ (ops = {"startDistance"} /\ id \in DOMAIN distanceBased'),
         reply.kind = "stopDone" => ops = {"stop"},
         reply.kind = "updateDone" => ops = {"start"},
         reply.kind = "restartDone" => ops = {"startDistance"},
         reply.kind \in {"distanceStopDone", "clientStopDone", "switchDone", "restartStopDone"} =>
             ops = {"stopDistance"}
  PROVE  /\ \A j \in Id : AtMostOne(rs, Asked(j))
         /\ \A r \in Elems(rs) : r.op \in ops /\ r.reply = reply /\ (MsgFits(r.reply) /\ OpFits(r))'
<1>1. /\ \A r \in Elems(rs) : r.op \in ops /\ r.reply = reply /\ rs # <<>>
      /\ \A A : AtMostOne(rs, A)
  BY OneIs
<1>2. owner' = owner
  BY DEF Base, calls
<1>3. ASSUME NEW r \in Elems(rs) PROVE (MsgFits(r.reply) /\ OpFits(r))'
  <2>1. Waits(id)'
    <3>1. id \in waiting'
      BY <1>1, <1>3 DEF Waits
    <3> QED  BY <3>1, WaitsOn
  <2>3. Awaited(reply)'
    BY <2>1 DEF Awaited
  <2>4. MsgFits(reply)'
    BY <1>2, <2>3 DEF MsgFits
  <2>5. r.reply = reply /\ r.op \in ops
    BY <1>1, <1>3
  <2>6. InDistance(reply.id)' <=> id \in DOMAIN distanceBased'
    BY DEF InDistance
  <2>7. OpFits(r)'
    BY <2>3, <2>5, <2>6 DEF OpFits
  <2> QED  BY <2>4, <2>5, <2>7
<1> QED  BY <1>1, <1>3

\* Only session id changes its place.
Changed(id) ==
    /\ SessionMap(timeBased') /\ DOMAIN timeBased' \ {id} = DOMAIN timeBased \ {id}
    /\ SessionMap(distanceBased') /\ DOMAIN distanceBased' \ {id} = DOMAIN distanceBased \ {id}
    /\ DOMAIN timeBased' \cap DOMAIN distanceBased' = {}

\* The client may be told.
Tells(id) == waiting \ {id} \subseteq waiting' /\ waiting' \subseteq waiting /\ answer' \in [Id -> Answers]

\* After the requests rs the modem will serve the sessions.
ServedBy(rs) ==
    /\ TargetOf(rs, Target) \in R /\ OnlyFor(timeBased', TargetOf(rs, Target))
    /\ Running /\ FastFor(timeBased, Target) => FastFor(timeBased', TargetOf(rs, Target))

LEMMA AnswerKeeps ==
  ASSUME TrackIInv, Base, NEW id \in Id, id = id0, Changed(id), Tells(id),
         NEW rs \in Seq(Req), requests' = requests \o rs, ServedBy(rs),
         \A j \in Id : AtMostOne(rs, Asked(j)),
         \A r \in Elems(rs) : r.op = "startDistance" => r.id = id,
         \A r \in Elems(rs) : r.reply \in IdMsg => r.reply.id = id /\ (MsgFits(r.reply) /\ OpFits(r))'
  PROVE  TrackIInv'
<1>1. \A j \in Id \ {id0} : /\ j \in DOMAIN timeBased' <=> j \in DOMAIN timeBased
                            /\ j \in DOMAIN distanceBased' <=> j \in DOMAIN distanceBased
  BY DEF Changed
<1>2. Handled(rs)
  BY <1>1 DEF Handled, Base, Tells
<1>3. Serves(rs)
  <2>1. /\ DOMAIN timeBased' \subseteq DOMAIN timeBased \cup {id0}
        /\ DOMAIN distanceBased' \subseteq DOMAIN distanceBased \cup {id0}
    BY DEF Changed
  <2> QED  BY <2>1 DEF Serves, Changed, ServedBy
<1> QED  BY <1>2, <1>3, HandledKeeps

\* The modem is asked nothing, and the time based sessions stay.
LEMMA QuietKeeps ==
  ASSUME TrackIInv, Base, NEW id \in Id, id = id0, Changed(id), Tells(id),
         requests' = requests, timeBased' = timeBased
  PROVE  TrackIInv'
<1>1. requests \in Seq(Req) /\ EngineFits
  BY DEF TrackIInv, Typed
<1>2. requests' = requests \o <<>> /\ <<>> \in Seq(Req)
  BY <1>1
<1>3. ServedBy(<<>>)
  <2>1. TargetOf(<<>>, Target) = Target
    BY NoRequest
  <2> QED  BY <1>1, <2>1 DEF ServedBy, EngineFits
<1>4. Elems(<<>>) = {} /\ \A A : AtMostOne(<<>>, A)
  BY Single
<1> QED  BY <1>2, <1>3, <1>4, AnswerKeeps

\* The modem is asked one thing, and will answer.
LEMMA OneKeeps ==
  ASSUME TrackIInv, Base, NEW id \in Id, id = id0, id \in DOMAIN owner, Changed(id), Tells(id),
         NEW rs \in Seq(Req), requests' = requests \o rs, ServedBy(rs),
         NEW ops, NEW reply \in IdMsg,
         OneRequest(rs, ops, reply), reply.id = id, reply.ok, reply.kind \in DoneKinds,
         rs # <<>> => waiting' = waiting, Waits(id), Says(reply)',
         \A r \in Elems(rs) : r.op = "startDistance" => r.id = id,
         reply.kind = "startDone" =>
             ops = {"start"} \/ (ops = {"startDistance"} /\ id \in DOMAIN distanceBased'),
         reply.kind = "stopDone" => ops = {"stop"},
         reply.kind = "updateDone" => ops = {"start"},
         reply.kind = "restartDone" => ops = {"startDistance"},
         reply.kind \in {"distanceStopDone", "clientStopDone", "switchDone", "restartStopDone"} =>
             ops = {"stopDistance"}
  PROVE  TrackIInv'
<1>1. /\ \A j \in Id : AtMostOne(rs, Asked(j))
      /\ \A r \in Elems(rs) : r.op \in ops /\ r.reply = reply /\ (MsgFits(r.reply) /\ OpFits(r))'
  BY OneServes DEF TrackIInv
<1>2. \A r \in Elems(rs) : r.reply \in IdMsg => r.reply.id = id /\ (MsgFits(r.reply) /\ OpFits(r))'
  BY <1>1
<1> QED  BY <1>1, <1>2, AnswerKeeps

\* A request about a distance based session leaves the time based one alone.
LEMMA DistanceAsked ==
  ASSUME NEW op \in {"startDistance", "stopDistance"}, NEW id \in Nat, NEW reply \in IdMsg \cup {NoReply}
  PROVE  LET rs == <<Request(op, id, Off, reply)>>
         IN  /\ rs \in Seq(Req) /\ OneRequest(rs, {op}, reply)
             /\ \A t : TargetOf(rs, t) = t
             /\ \A r \in Elems(rs) : r.id = id /\ r.op = op /\ r.reply = reply
<1> DEFINE r == Request(op, id, Off, reply)
<1>1. r \in Req /\ r.id = id /\ r.op = op /\ r.reply = reply
  BY RequestIs, OffIs DEF Ops
<1>2. Elems(<<r>>) = {r}
  BY <1>1, Single
<1>3. <<r>> \in Seq(Req) /\ OneRequest(<<r>>, {op}, reply) /\ \A t : TargetOf(<<r>>, t) = t
  BY RequestServes, OffIs DEF Ops
<1> QED  BY <1>1, <1>2, <1>3

\* A session is saved and erased.
LEMMA SaveIs ==
  ASSUME Typed, Disjoint, Obliging, NEW id \in Id, NEW o \in Options, SaveTrackingSession(id, o)
  PROVE  /\ o.minDistance = 0 => /\ timeBased' = Save(timeBased, id, o)
                                 /\ distanceBased' = distanceBased
                                 /\ id \notin DOMAIN distanceBased => Changed(id)
         /\ o.minDistance > 0 => /\ distanceBased' = Save(distanceBased, id, o)
                                 /\ timeBased' = timeBased
                                 /\ id \notin DOMAIN timeBased => Changed(id)
<1>1. id \in Nat \ {0} /\ o.minDistance \in Nat
  BY IdsAre, OptionsAre
<1>2. SessionMap(timeBased) /\ SessionMap(distanceBased) /\ DOMAIN timeBased \cap DOMAIN distanceBased = {}
  BY DEF Typed, Disjoint
<1>3. CASE o.minDistance = 0
  <2>1. timeBased' = Save(timeBased, id, o) /\ distanceBased' = distanceBased
    BY <1>1, <1>3 DEF SaveTrackingSession
  <2>2. SessionMap(Save(timeBased, id, o)) /\ DOMAIN Save(timeBased, id, o) = DOMAIN timeBased \cup {id}
    BY <1>1, <1>2, Saved
  <2>3. SessionMap(timeBased') /\ DOMAIN timeBased' = DOMAIN timeBased \cup {id}
    BY <2>1, <2>2
  <2>4. id \notin DOMAIN distanceBased => Changed(id)
    BY <1>2, <2>1, <2>3 DEF Changed
  <2> QED  BY <1>1, <1>3, <2>1, <2>4
<1>4. CASE o.minDistance > 0
  <2>1. distanceBased' = Save(distanceBased, id, o) /\ timeBased' = timeBased
    BY <1>1, <1>4 DEF SaveTrackingSession, Obliging
  <2>2. SessionMap(Save(distanceBased, id, o)) /\ DOMAIN Save(distanceBased, id, o) = DOMAIN distanceBased \cup {id}
    BY <1>1, <1>2, Saved
  <2>3. SessionMap(distanceBased') /\ DOMAIN distanceBased' = DOMAIN distanceBased \cup {id}
    BY <2>1, <2>2
  <2>4. id \notin DOMAIN timeBased => Changed(id)
    BY <1>2, <2>1, <2>3 DEF Changed
  <2> QED  BY <1>1, <1>4, <2>1, <2>4
<1> QED  BY <1>1, <1>3, <1>4

LEMMA EraseIs ==
  ASSUME Typed, Disjoint, NEW id, EraseTrackingSession(id)
  PROVE  /\ Changed(id) /\ id \notin DOMAIN timeBased' /\ id \notin DOMAIN distanceBased'
         /\ id \in DOMAIN timeBased => timeBased' = Erase(timeBased, id) /\ distanceBased' = distanceBased
         /\ id \notin DOMAIN timeBased => timeBased' = timeBased /\ distanceBased' = Erase(distanceBased, id)
<1>1. SessionMap(timeBased) /\ SessionMap(distanceBased) /\ DOMAIN timeBased \cap DOMAIN distanceBased = {}
  BY DEF Typed, Disjoint
<1>2. /\ SessionMap(Erase(timeBased, id)) /\ DOMAIN Erase(timeBased, id) = DOMAIN timeBased \ {id}
      /\ SessionMap(Erase(distanceBased, id)) /\ DOMAIN Erase(distanceBased, id) = DOMAIN distanceBased \ {id}
  BY <1>1, Erased
<1>3. CASE id \in DOMAIN timeBased
  <2>1. timeBased' = Erase(timeBased, id) /\ distanceBased' = distanceBased
    BY <1>3 DEF EraseTrackingSession
  <2> QED  BY <1>1, <1>2, <1>3, <2>1 DEF Changed
<1>4. CASE id \notin DOMAIN timeBased
  <2>1. distanceBased' = Erase(distanceBased, id) /\ timeBased' = timeBased
    BY <1>4 DEF EraseTrackingSession
  <2> QED  BY <1>1, <1>2, <1>4, <2>1 DEF Changed
<1> QED  BY <1>3, <1>4

-----------------------------------------------------------------------------
(* The handlers of answers that ask the modem for nothing *)

LEMMA Unmoved ==
  ASSUME Typed, Disjoint, UNCHANGED sessions
  PROVE  timeBased' = timeBased /\ distanceBased' = distanceBased /\ \A id : Changed(id)
<1>1. timeBased' = timeBased /\ distanceBased' = distanceBased
  BY DEF sessions
<1> QED  BY <1>1 DEF Changed, Typed, Disjoint

LEMMA Untold == ASSUME Typed, UNCHANGED told PROVE waiting' = waiting /\ \A id : Tells(id)
<1>1. waiting' = waiting /\ answer' = answer
  BY DEF told
<1> QED  BY <1>1 DEF Tells, Typed

\* A message about session id is taken.
LEMMA HeadTaken ==
  ASSUME TrackIInv, NEW kind \in IdKinds, Proc(kind), UNCHANGED state
  PROVE  /\ Base /\ Head(queue).kind = kind /\ Typed /\ Disjoint
         /\ \E id \in Id : /\ id = id0 /\ id = Head(queue).id /\ id \in Nat \ {0} /\ id \in DOMAIN owner
                           /\ Awaited(Head(queue)) \/ Orphaned(Head(queue))
<1>1. NextMsg(kind) /\ queue' = Tail(queue) /\ UNCHANGED <<modem, calls>>
  BY DEF Proc, Done
<1>2. /\ queue # <<>> /\ Head(queue) \in IdMsg /\ Head(queue).kind = kind
      /\ id0 = Head(queue).id /\ id0 \in Id /\ id0 \in Nat \ {0} /\ id0 \in DOMAIN owner
      /\ MsgFits(Head(queue))
  BY <1>1, HeadIs
<1>3. Base
  BY <1>1, <1>2 DEF Base
<1> QED  BY <1>2, <1>3 DEF MsgFits, TrackIInv

LEMMA ReportTells ==
  ASSUME Typed, NEW id \in Id, id = id0, NEW err, err \in Answers, ReportResponse(id0, err)
  PROVE  Tells(id)
<1>1. ReportResponse(id, err)
  BY DEF ReportResponse
<1> QED  BY <1>1, Reported DEF Tells

LEMMA ResultIs == \A ok : Result(ok) \in Answers
BY DEF Result, Answers

LEMMA StartDoneKeeps == ASSUME TrackIInv, Obliging, StartDone PROVE TrackIInv'
<1>1. /\ Proc("startDone") /\ UNCHANGED state /\ requests' = requests
      /\ ReportResponse(id0, Result(ok0))
      /\ IF ok0 THEN UNCHANGED sessions ELSE EraseTrackingSession(id0)
  BY DEF StartDone
<1>2. /\ Base /\ Head(queue).kind = "startDone" /\ Typed /\ Disjoint
      /\ \E id \in Id : /\ id = id0 /\ id = Head(queue).id /\ id \in Nat \ {0} /\ id \in DOMAIN owner
                        /\ Awaited(Head(queue)) \/ Orphaned(Head(queue))
  BY <1>1, HeadTaken DEF IdKinds, DoneKinds
<1>3. PICK id \in Id : /\ id = id0 /\ id = Head(queue).id
                       /\ Awaited(Head(queue)) \/ Orphaned(Head(queue))
  BY <1>2
<1>4. Tells(id)
  BY <1>1, <1>2, <1>3, ReportTells, ResultIs
<1>5. timeBased' = timeBased /\ Changed(id)
  <2>1. CASE ok0
    BY <1>1, <1>2, <2>1, Unmoved
  <2>2. CASE ~ ok0
    <3>1. InDistance(id)
      BY <1>2, <1>3, <2>2 DEF Awaited, Says, Orphaned, ok0
    <3>2. id \notin DOMAIN timeBased
      BY <1>2, <3>1 DEF InDistance, Disjoint
    <3>3. EraseTrackingSession(id)
      BY <1>1, <1>3, <2>2 DEF EraseTrackingSession
    <3> QED  BY <1>2, <3>2, <3>3, EraseIs
  <2> QED  BY <2>1, <2>2
<1> QED  BY <1>1, <1>2, <1>3, <1>4, <1>5, QuietKeeps

LEMMA StopDoneKeeps == ASSUME TrackIInv, Obliging, StopDone PROVE TrackIInv'
<1>1. /\ Proc("stopDone") /\ UNCHANGED state /\ requests' = requests
      /\ ReportResponse(id0, Result(ok0)) /\ UNCHANGED sessions
  BY DEF StopDone
<1>2. /\ Base /\ Typed /\ Disjoint /\ \E id \in Id : id = id0
  BY <1>1, HeadTaken DEF IdKinds, DoneKinds
<1>3. PICK id \in Id : id = id0
  BY <1>2
<1>4. Tells(id)
  BY <1>1, <1>2, <1>3, ReportTells, ResultIs
<1>5. timeBased' = timeBased /\ Changed(id)
  BY <1>1, <1>2, Unmoved
<1> QED  BY <1>1, <1>2, <1>3, <1>4, <1>5, QuietKeeps

LEMMA DistanceStopDoneKeeps == ASSUME TrackIInv, Obliging, DistanceStopDone PROVE TrackIInv'
<1>1. /\ Proc("distanceStopDone") /\ UNCHANGED state /\ requests' = requests
      /\ ReportResponse(id0, Result(ok0))
      /\ IF ok0 THEN EraseTrackingSession(id0) ELSE UNCHANGED sessions
  BY DEF DistanceStopDone
<1>2. /\ Base /\ Head(queue).kind = "distanceStopDone" /\ Typed /\ Disjoint
      /\ \E id \in Id : /\ id = id0 /\ id = Head(queue).id
                        /\ Awaited(Head(queue)) \/ Orphaned(Head(queue))
  BY <1>1, HeadTaken DEF IdKinds, DoneKinds
<1>3. PICK id \in Id : /\ id = id0 /\ id = Head(queue).id
                       /\ Awaited(Head(queue)) \/ Orphaned(Head(queue))
  BY <1>2
<1>4. Tells(id)
  BY <1>1, <1>2, <1>3, ReportTells, ResultIs
<1>5. timeBased' = timeBased /\ Changed(id)
  <2>1. CASE ~ ok0
    BY <1>1, <1>2, <2>1, Unmoved
  <2>2. CASE ok0
    <3>1. InDistance(id)
      BY <1>2, <1>3 DEF Awaited, Says, Orphaned
    <3>2. id \notin DOMAIN timeBased
      BY <1>2, <3>1 DEF InDistance, Disjoint
    <3>3. EraseTrackingSession(id)
      BY <1>1, <1>3, <2>2 DEF EraseTrackingSession
    <3> QED  BY <1>2, <3>2, <3>3, EraseIs
  <2> QED  BY <2>1, <2>2
<1> QED  BY <1>1, <1>2, <1>3, <1>4, <1>5, QuietKeeps

LEMMA ClientStopDoneKeeps == ASSUME TrackIInv, Obliging, ClientStopDone PROVE TrackIInv'
<1>1. /\ Proc("clientStopDone") /\ UNCHANGED state /\ requests' = requests /\ UNCHANGED told
      /\ IF ok0 THEN EraseTrackingSession(id0) ELSE UNCHANGED sessions
  BY DEF ClientStopDone
<1>2. /\ Base /\ Head(queue).kind = "clientStopDone" /\ Typed /\ Disjoint
      /\ \E id \in Id : /\ id = id0 /\ id = Head(queue).id
                        /\ Awaited(Head(queue)) \/ Orphaned(Head(queue))
  BY <1>1, HeadTaken DEF IdKinds, DoneKinds
<1>3. PICK id \in Id : /\ id = id0 /\ id = Head(queue).id
                       /\ Awaited(Head(queue)) \/ Orphaned(Head(queue))
  BY <1>2
<1>4. Tells(id)
  BY <1>1, <1>2, Untold
<1>5. timeBased' = timeBased /\ Changed(id)
  <2>1. CASE ~ ok0
    BY <1>1, <1>2, <2>1, Unmoved
  <2>2. CASE ok0
    <3>1. id \notin DOMAIN timeBased
      BY <1>2, <1>3 DEF Awaited, Says, Orphaned, InTime
    <3>2. EraseTrackingSession(id)
      BY <1>1, <1>3, <2>2 DEF EraseTrackingSession
    <3> QED  BY <1>2, <3>1, <3>2, EraseIs
  <2> QED  BY <2>1, <2>2
<1> QED  BY <1>1, <1>2, <1>3, <1>4, <1>5, QuietKeeps

\* The modem refuses no new options of a time based session.
LEMMA UpdateDoneKeeps == ASSUME TrackIInv, Obliging, UpdateDone PROVE TrackIInv'
<1>1. /\ Proc("updateDone") /\ UNCHANGED state /\ requests' = requests
      /\ ReportResponse(id0, Result(ok0)) /\ (ok0 => UNCHANGED sessions)
  BY DEF UpdateDone
<1>2. /\ Base /\ Head(queue).kind = "updateDone" /\ Typed /\ Disjoint
      /\ \E id \in Id : id = id0 /\ (Awaited(Head(queue)) \/ Orphaned(Head(queue)))
  BY <1>1, HeadTaken DEF IdKinds, DoneKinds
<1>3. PICK id \in Id : id = id0 /\ (Awaited(Head(queue)) \/ Orphaned(Head(queue)))
  BY <1>2
<1>4. Tells(id)
  BY <1>1, <1>2, <1>3, ReportTells, ResultIs
<1>5. ok0
  BY <1>2, <1>3 DEF Awaited, Says, Orphaned, ok0
<1>6. timeBased' = timeBased /\ Changed(id)
  BY <1>1, <1>2, <1>5, Unmoved
<1> QED  BY <1>1, <1>2, <1>3, <1>4, <1>6, QuietKeeps

LEMMA RestartDoneKeeps == ASSUME TrackIInv, Obliging, RestartDone PROVE TrackIInv'
<1>1. /\ Proc("restartDone") /\ UNCHANGED state /\ requests' = requests
      /\ ReportResponse(id0, Result(ok0))
      /\ IF ok0 THEN SaveTrackingSession(id0, options0) ELSE UNCHANGED sessions
  BY DEF RestartDone
<1>2. /\ Base /\ Head(queue).kind = "restartDone" /\ Typed /\ Disjoint
      /\ \E id \in Id : /\ id = id0 /\ id = Head(queue).id
                        /\ Awaited(Head(queue)) \/ Orphaned(Head(queue))
  BY <1>1, HeadTaken DEF IdKinds, DoneKinds
<1>3. PICK id \in Id : /\ id = id0 /\ id = Head(queue).id
                       /\ Awaited(Head(queue)) \/ Orphaned(Head(queue))
  BY <1>2
<1>4. Tells(id)
  BY <1>1, <1>2, <1>3, ReportTells, ResultIs
<1>5. timeBased' = timeBased /\ Changed(id)
  <2>1. CASE ~ ok0
    BY <1>1, <1>2, <2>1, Unmoved
  <2>2. CASE ok0
    <3>1. InDistance(id) /\ options0 \in Options /\ options0.minDistance > 0
      BY <1>2, <1>3 DEF Awaited, Says, Orphaned, options0
    <3>2. PICK o \in Options : o = options0
      BY <3>1
    <3>3. SaveTrackingSession(id, o) /\ o.minDistance > 0 /\ id \notin DOMAIN timeBased
      BY <1>1, <1>2, <1>3, <2>2, <3>1, <3>2 DEF SaveTrackingSession, InDistance, Disjoint
    <3> QED  BY <1>2, <3>3, SaveIs
  <2> QED  BY <2>1, <2>2
<1> QED  BY <1>1, <1>2, <1>3, <1>4, <1>5, QuietKeeps

-----------------------------------------------------------------------------
(* The handlers that ask the modem for something *)

\* The requests leave the modem's time based session alone, and so did the handler.
LEMMA ServedStill ==
  ASSUME TrackIInv, timeBased' = timeBased, NEW rs, \A t : TargetOf(rs, t) = t
  PROVE  ServedBy(rs)
BY DEF TrackIInv, EngineFits, ServedBy

LEMMA TargetTyped == ASSUME TrackIInv PROVE Target \in R
BY DEF TrackIInv, EngineFits

LEMMA KindsAre ==
  /\ "startDone" \in DoneKinds /\ "stopDone" \in DoneKinds /\ "distanceStopDone" \in DoneKinds
  /\ "clientStopDone" \in DoneKinds /\ "updateDone" \in DoneKinds /\ "switchDone" \in DoneKinds
  /\ "restartStopDone" \in DoneKinds /\ "restartDone" \in DoneKinds
BY DEF DoneKinds

LEMMA AnswerOff ==
  ASSUME NEW kind \in DoneKinds, NEW id \in Id
  PROVE  /\ Msg(kind, id, Off) \in IdMsg /\ Msg(kind, id, Off).kind = kind /\ Msg(kind, id, Off).id = id
         /\ Msg(kind, id, Off).ok = TRUE
<1>1. Off \in R
  BY OffIs
<1> QED  BY <1>1 DEF Msg, IdMsg, IdKinds

LEMMA RestartStopDoneKeeps == ASSUME TrackIInv, Obliging, RestartStopDone PROVE TrackIInv'
<1>1. /\ Proc("restartStopDone") /\ UNCHANGED state /\ UNCHANGED told /\ UNCHANGED sessions
      /\ Ask(IF ok0 THEN ToStartDistance(id0, Msg("restartDone", id0, options0)) ELSE <<>>)
  BY DEF RestartStopDone
<1>2. /\ Base /\ Head(queue).kind = "restartStopDone" /\ Typed /\ Disjoint
      /\ \E id \in Id : /\ id = id0 /\ id = Head(queue).id /\ id \in Nat \ {0} /\ id \in DOMAIN owner
                        /\ Awaited(Head(queue)) \/ Orphaned(Head(queue))
  BY <1>1, HeadTaken DEF IdKinds, DoneKinds
<1>3. PICK id \in Id : /\ id = id0 /\ id = Head(queue).id /\ id \in Nat \ {0} /\ id \in DOMAIN owner
                       /\ Awaited(Head(queue)) \/ Orphaned(Head(queue))
  BY <1>2
<1>4. timeBased' = timeBased /\ distanceBased' = distanceBased /\ waiting' = waiting /\ stopped' = stopped
      /\ Changed(id) /\ Tells(id)
  BY <1>1, <1>2, Unmoved, Untold DEF Base, calls
<1>5. CASE ~ ok0
  <2>1. requests' = requests \o <<>> /\ requests \in Seq(Req)
    BY <1>1, <1>2, <1>5 DEF Ask, Typed
  <2>2. requests' = requests
    BY <2>1
  <2> QED  BY <1>2, <1>3, <1>4, <2>2, QuietKeeps
<1>6. CASE ok0
  <2>1. /\ Waits(id) /\ id \notin stopped /\ InDistance(id)
        /\ options0 \in Options /\ options0.minDistance > 0
    BY <1>2, <1>3 DEF Awaited, Says, Orphaned, options0
  <2>2. PICK o \in Options : o = options0
    BY <2>1
  <2> DEFINE reply == Msg("restartDone", id, o)
             rs == <<Request("startDistance", id, Off, reply)>>
  <2>3. requests' = requests \o rs
    BY <1>1, <1>3, <1>6, <2>2 DEF Ask, ToStartDistance
  <2>4. reply \in IdMsg /\ reply.kind = "restartDone" /\ reply.id = id /\ reply.options = o /\ reply.ok = TRUE
    <3>1. o \in R
      BY OptionsAre
    <3> QED  BY <3>1 DEF Msg, IdMsg, IdKinds, DoneKinds
  <2> HIDE DEF reply
  <2>5. /\ rs \in Seq(Req) /\ OneRequest(rs, {"startDistance"}, reply) /\ \A t : TargetOf(rs, t) = t
        /\ \A r \in Elems(rs) : r.id = id
    BY <1>3, <2>4, DistanceAsked
  <2> HIDE DEF rs
  <2>6. ServedBy(rs)
    BY <1>4, <2>5, ServedStill
  <2>7. Says(reply)'
    BY <1>4, <2>1, <2>2, <2>4 DEF Says, InDistance
  <2> QED  BY <1>2, <1>3, <1>4, <2>1, <2>3, <2>4, <2>5, <2>6, <2>7, OneKeeps DEF DoneKinds
<1> QED  BY <1>5, <1>6

\* A session starts that is in no map yet.
LEMMA StartKeeps ==
  ASSUME TrackIInv, Obliging, Base, NEW id \in Id, id = id0, id \in DOMAIN owner, Waits(id),
         ~ InTime(id), ~ InDistance(id), id \notin stopped,
         NEW o \in Options, o.minDistance = 0, StartTimeBased(id, o)
  PROVE  TrackIInv'
<1> DEFINE reply == Msg("startDone", id, Off)
           rs == ToStart(id, o)
<1>1. Typed /\ Disjoint /\ SessionMap(timeBased) /\ Target \in R /\ EngineFits
  BY DEF TrackIInv, Typed, EngineFits
<1>2. AskAndReport(id, rs) /\ SaveTrackingSession(id, o)
  BY DEF StartTimeBased
<1>3. /\ timeBased' = Save(timeBased, id, o) /\ distanceBased' = distanceBased /\ Changed(id)
  BY <1>1, <1>2, SaveIs DEF InDistance
<1>4. reply \in IdMsg /\ reply.kind = "startDone" /\ reply.id = id /\ reply.ok = TRUE
  BY AnswerOff, KindsAre
<1>5. /\ rs \in Seq(Req) /\ OneRequest(rs, {"start"}, reply)
      /\ TargetOf(rs, Target) \in R /\ OnlyFor(Save(timeBased, id, o), TargetOf(rs, Target))
      /\ FastFor(timeBased, Target) => FastFor(Save(timeBased, id, o), TargetOf(rs, Target))
  BY <1>1, ToStartServes
<1> HIDE DEF reply, rs
<1>6. ServedBy(rs)
  BY <1>3, <1>5 DEF ServedBy
<1>7. requests' = requests \o rs /\ Tells(id) /\ (rs # <<>> => waiting' = waiting)
  BY <1>1, <1>2, AskedAndReported DEF Tells
<1>8. Says(reply)'
  <2>1. id \in DOMAIN timeBased'
    <3>1. DOMAIN Save(timeBased, id, o) = DOMAIN timeBased \cup {id}
      BY <1>1, IdsAre, Saved
    <3> QED  BY <1>3, <3>1
  <2>2. stopped' = stopped
    BY DEF Base, calls
  <2> QED  BY <1>4, <2>1, <2>2 DEF Says, InTime
<1>9. \A r \in Elems(rs) : r.op = "startDistance" => r.id = id
  BY <1>5, OneIs
<1> QED  BY <1>3, <1>4, <1>5, <1>6, <1>7, <1>8, <1>9, OneKeeps DEF DoneKinds

LEMMA SwitchDoneKeeps == ASSUME TrackIInv, Obliging, SwitchDone PROVE TrackIInv'
<1>1. Proc("switchDone") /\ UNCHANGED state /\ StartTimeBased(id0, options0)
  BY DEF SwitchDone
<1>2. /\ Base /\ Head(queue).kind = "switchDone" /\ Typed /\ Disjoint
      /\ \E id \in Id : /\ id = id0 /\ id = Head(queue).id /\ id \in Nat \ {0} /\ id \in DOMAIN owner
                        /\ Awaited(Head(queue)) \/ Orphaned(Head(queue))
  BY <1>1, HeadTaken DEF IdKinds, DoneKinds
<1>3. PICK id \in Id : /\ id = id0 /\ id = Head(queue).id /\ id \in DOMAIN owner
                       /\ Awaited(Head(queue)) \/ Orphaned(Head(queue))
  BY <1>2
<1>4. /\ Waits(id) /\ ~ InTime(id) /\ ~ InDistance(id) /\ id \notin stopped
      /\ options0 \in Options /\ options0.minDistance = 0
  BY <1>2, <1>3 DEF Awaited, Says, Orphaned, options0
<1>5. PICK o \in Options : o = options0
  BY <1>4
<1>6. StartTimeBased(id, o)
  BY <1>1, <1>3, <1>5 DEF StartTimeBased
<1> QED  BY <1>2, <1>3, <1>4, <1>5, <1>6, StartKeeps

LEMMA ProcStartKeeps == ASSUME TrackIInv, Obliging, ProcStartTracking PROVE TrackIInv'
<1>1. /\ Proc("start") /\ UNCHANGED state
      /\ IF owner[id0] \notin mClientData THEN UNCHANGED <<sessions, told, requests>>
         ELSE IF options0.minDistance > 0 /\ DistanceSupported
         THEN /\ SaveTrackingSession(id0, options0)
              /\ Ask(ToStartDistance(id0, Msg("startDone", id0, Off)))
              /\ UNCHANGED told
         ELSE StartTimeBased(id0, options0)
  BY DEF ProcStartTracking
<1>2. /\ Base /\ Head(queue).kind = "start" /\ Typed /\ Disjoint
      /\ \E id \in Id : /\ id = id0 /\ id = Head(queue).id /\ id \in Nat \ {0} /\ id \in DOMAIN owner
                        /\ Awaited(Head(queue)) \/ Orphaned(Head(queue))
  BY <1>1, HeadTaken DEF IdKinds, CallKinds
<1>3. PICK id \in Id : /\ id = id0 /\ id = Head(queue).id /\ id \in Nat \ {0} /\ id \in DOMAIN owner
                       /\ Awaited(Head(queue)) \/ Orphaned(Head(queue))
  BY <1>2
<1>4. /\ Waits(id) /\ ~ InTime(id) /\ ~ InDistance(id) /\ id \notin stopped /\ options0 \in Options
  BY <1>2, <1>3 DEF Awaited, Says, Orphaned, options0
<1>5. PICK o \in Options : o = options0
  BY <1>4
<1>6. owner[id0] \in mClientData /\ DistanceSupported /\ o.minDistance \in Nat
  BY <1>3, <1>4, OptionsAre DEF Waits, Obliging
<1>7. CASE o.minDistance = 0
  <2>1. StartTimeBased(id, o)
    BY <1>1, <1>3, <1>5, <1>6, <1>7 DEF StartTimeBased
  <2> QED  BY <1>2, <1>3, <1>4, <1>7, <2>1, StartKeeps
<1>8. CASE o.minDistance > 0
  <2> DEFINE reply == Msg("startDone", id, Off)
             rs == <<Request("startDistance", id, Off, reply)>>
  <2>1. /\ SaveTrackingSession(id0, options0) /\ UNCHANGED told
        /\ Ask(ToStartDistance(id0, Msg("startDone", id0, Off)))
    BY <1>1, <1>5, <1>6, <1>8
  <2>2. SaveTrackingSession(id, o)
    BY <1>3, <1>5, <2>1 DEF SaveTrackingSession
  <2>3. /\ timeBased' = timeBased /\ distanceBased' = Save(distanceBased, id, o) /\ Changed(id)
    BY <1>2, <1>4, <1>8, <2>2, SaveIs DEF InTime
  <2>4. requests' = requests \o rs
    BY <1>3, <2>1 DEF Ask, ToStartDistance
  <2>5. waiting' = waiting /\ Tells(id) /\ stopped' = stopped
    BY <1>2, <2>1, Untold DEF Base, calls
  <2>6. reply \in IdMsg /\ reply.kind = "startDone" /\ reply.id = id /\ reply.ok = TRUE
    BY AnswerOff, KindsAre
  <2> HIDE DEF reply
  <2>7. /\ rs \in Seq(Req) /\ OneRequest(rs, {"startDistance"}, reply) /\ \A t : TargetOf(rs, t) = t
        /\ \A r \in Elems(rs) : r.id = id
    BY <1>3, <2>6, DistanceAsked
  <2> HIDE DEF rs
  <2>8. ServedBy(rs)
    BY <2>3, <2>7, ServedStill
  <2>9. id \in DOMAIN distanceBased'
    <3>1. DOMAIN Save(distanceBased, id, o) = DOMAIN distanceBased \cup {id}
      <4>1. SessionMap(distanceBased)
        BY <1>2 DEF Typed
      <4> QED  BY <1>3, <4>1, Saved
    <3> QED  BY <2>3, <3>1
  <2>10. Says(reply)'
    BY <1>4, <2>5, <2>6, <2>9 DEF Says, InDistance
  <2> QED  BY <1>2, <1>3, <1>4, <2>3, <2>4, <2>5, <2>6, <2>7, <2>8, <2>9, <2>10, OneKeeps DEF DoneKinds
<1> QED  BY <1>6, <1>7, <1>8

LEMMA ProcStopKeeps == ASSUME TrackIInv, Obliging, ProcStopTracking PROVE TrackIInv'
<1>1. /\ Proc("stop") /\ UNCHANGED state
      /\ IF id0 \in DOMAIN timeBased
         THEN AskAndReport(id0, ToStop(id0)) /\ EraseTrackingSession(id0)
         ELSE IF id0 \in DOMAIN distanceBased
         THEN /\ Ask(ToStopDistance(id0, Msg("distanceStopDone", id0, Off)))
              /\ UNCHANGED <<sessions, told>>
         ELSE ReportResponse(id0, "unknown") /\ UNCHANGED <<sessions, requests>>
  BY DEF ProcStopTracking
<1>2. /\ Base /\ Head(queue).kind = "stop" /\ Typed /\ Disjoint
      /\ \E id \in Id : /\ id = id0 /\ id = Head(queue).id /\ id \in Nat \ {0} /\ id \in DOMAIN owner
                        /\ Awaited(Head(queue)) \/ Orphaned(Head(queue))
  BY <1>1, HeadTaken DEF IdKinds, CallKinds
<1>3. PICK id \in Id : /\ id = id0 /\ id = Head(queue).id /\ id \in Nat \ {0} /\ id \in DOMAIN owner
                       /\ Awaited(Head(queue)) \/ Orphaned(Head(queue))
  BY <1>2
<1>4. Waits(id) /\ id \in stopped /\ stopped' = stopped
  BY <1>2, <1>3 DEF Awaited, Says, Orphaned, Base, calls
<1>5. CASE id \in DOMAIN timeBased
  <2> DEFINE stops == Msg("stopDone", id, Off)
             starts == Msg("startDone", id, Off)
             rs == ToStop(id)
  <2>1. AskAndReport(id, rs) /\ EraseTrackingSession(id)
    BY <1>1, <1>3, <1>5 DEF AskAndReport, EraseTrackingSession, ReportResponse
  <2>2. /\ timeBased' = Erase(timeBased, id) /\ Changed(id)
        /\ id \notin DOMAIN timeBased' /\ id \notin DOMAIN distanceBased'
    BY <1>2, <1>5, <2>1, EraseIs
  <2>3. requests' = requests \o rs /\ Tells(id) /\ (rs # <<>> => waiting' = waiting)
    BY <1>2, <2>1, AskedAndReported DEF Tells
  <2>4. /\ starts \in IdMsg /\ starts.kind = "startDone" /\ starts.id = id /\ starts.ok = TRUE
        /\ stops \in IdMsg /\ stops.kind = "stopDone" /\ stops.id = id /\ stops.ok = TRUE
    BY AnswerOff, KindsAre
  <2>5. /\ rs \in Seq(Req)
        /\ OneRequest(rs, {"start"}, starts) \/ OneRequest(rs, {"stop"}, stops)
        /\ TargetOf(rs, Target) \in R /\ OnlyFor(Erase(timeBased, id), TargetOf(rs, Target))
        /\ FastFor(timeBased, Target) => FastFor(Erase(timeBased, id), TargetOf(rs, Target))
    BY <1>2, <1>5, TargetTyped, ToStopServes DEF Typed
  <2> HIDE DEF starts, stops, rs
  <2>6. ServedBy(rs)
    BY <2>2, <2>5 DEF ServedBy
  <2>7. Says(starts)' /\ Says(stops)'
    BY <1>4, <2>2, <2>4 DEF Says, InTime, InDistance
  <2>8. CASE OneRequest(rs, {"start"}, starts)
    <3>1. \A r \in Elems(rs) : r.op = "startDistance" => r.id = id
      BY <2>8, OneIs
    <3> QED  BY <1>2, <1>3, <1>4, <2>2, <2>3, <2>4, <2>5, <2>6, <2>7, <2>8, <3>1, OneKeeps DEF DoneKinds
  <2>9. CASE OneRequest(rs, {"stop"}, stops)
    <3>1. \A r \in Elems(rs) : r.op = "startDistance" => r.id = id
      BY <2>9, OneIs
    <3> QED  BY <1>2, <1>3, <1>4, <2>2, <2>3, <2>4, <2>5, <2>6, <2>7, <2>9, <3>1, OneKeeps DEF DoneKinds
  <2> QED  BY <2>5, <2>8, <2>9
<1>6. CASE id \notin DOMAIN timeBased /\ id \in DOMAIN distanceBased
  <2> DEFINE reply == Msg("distanceStopDone", id, Off)
             rs == <<Request("stopDistance", id, Off, reply)>>
  <2>1. /\ UNCHANGED sessions /\ UNCHANGED told /\ requests' = requests \o rs
    BY <1>1, <1>3, <1>6 DEF Ask, ToStopDistance
  <2>2. timeBased' = timeBased /\ distanceBased' = distanceBased /\ waiting' = waiting /\ Changed(id) /\ Tells(id)
    BY <1>2, <2>1, Unmoved, Untold
  <2>3. reply \in IdMsg /\ reply.kind = "distanceStopDone" /\ reply.id = id /\ reply.ok = TRUE
    BY AnswerOff, KindsAre
  <2> HIDE DEF reply
  <2>4. /\ rs \in Seq(Req) /\ OneRequest(rs, {"stopDistance"}, reply) /\ \A t : TargetOf(rs, t) = t
        /\ \A r \in Elems(rs) : r.id = id
    BY <1>3, <2>3, DistanceAsked
  <2> HIDE DEF rs
  <2>5. ServedBy(rs)
    BY <2>2, <2>4, ServedStill
  <2>6. Says(reply)'
    BY <1>4, <1>6, <2>2, <2>3 DEF Says, InDistance
  <2> QED  BY <1>2, <1>3, <1>4, <2>1, <2>2, <2>3, <2>4, <2>5, <2>6, OneKeeps DEF DoneKinds
<1>7. CASE id \notin DOMAIN timeBased /\ id \notin DOMAIN distanceBased
  <2>1. ReportResponse(id0, "unknown") /\ UNCHANGED sessions /\ requests' = requests
    BY <1>1, <1>3, <1>7
  <2>2. Tells(id)
    BY <1>2, <1>3, <2>1, ReportTells DEF Answers
  <2>3. timeBased' = timeBased /\ Changed(id)
    BY <1>2, <2>1, Unmoved
  <2> QED  BY <1>2, <1>3, <2>1, <2>2, <2>3, QuietKeeps
<1> QED  BY <1>5, <1>6, <1>7

-----------------------------------------------------------------------------
(* New options for a session *)

\* A time based session becomes distance based: the modem is asked two things.
LEMMA SwitchToDistanceKeeps ==
  ASSUME TrackIInv, Obliging, Base, NEW id \in Id, id = id0, id \in DOMAIN owner, Waits(id),
         InTime(id), id \notin stopped, NEW o \in Options, o = options0, SwitchToDistance
  PROVE  TrackIInv'
<1> DEFINE stops == Msg("stopDone", id, Off)
           starts == Msg("startDone", id, Off)
           rs == ToStop(id)
           more == <<Request("startDistance", id, Off, NoReply)>>
<1>1. Typed /\ Disjoint /\ SessionMap(timeBased) /\ SessionMap(distanceBased) /\ Target \in R /\ id \in Nat \ {0}
  BY TargetTyped, IdsAre DEF TrackIInv, Typed
<1>2. /\ requests' = requests \o (rs \o more)
      /\ IF rs = <<>> THEN ReportResponse(id0, "success") ELSE UNCHANGED told
      /\ timeBased' = Erase(timeBased, id) /\ distanceBased' = Save(distanceBased, id, o)
  BY DEF SwitchToDistance, Ask, ToStartDistance, Obliging
<1>3. /\ SessionMap(timeBased') /\ DOMAIN timeBased' = DOMAIN timeBased \ {id}
      /\ SessionMap(distanceBased') /\ DOMAIN distanceBased' = DOMAIN distanceBased \cup {id}
  <2>1. SessionMap(Erase(timeBased, id)) /\ DOMAIN Erase(timeBased, id) = DOMAIN timeBased \ {id}
    BY <1>1, Erased
  <2>2. SessionMap(Save(distanceBased, id, o)) /\ DOMAIN Save(distanceBased, id, o) = DOMAIN distanceBased \cup {id}
    BY <1>1, Saved
  <2> QED  BY <1>2, <2>1, <2>2
<1>4. Changed(id)
  BY <1>1, <1>3 DEF Changed, Disjoint
<1>5. Tells(id) /\ (rs # <<>> => waiting' = waiting) /\ stopped' = stopped
  <2>1. CASE rs = <<>>
    <3>1. Tells(id)
      BY <1>1, <1>2, <2>1, ReportTells DEF Answers
    <3> QED  BY <2>1, <3>1 DEF Base, calls
  <2>2. CASE rs # <<>>
    BY <1>1, <1>2, <2>2, Untold DEF Base, calls
  <2> QED  BY <2>1, <2>2
<1>6. /\ starts \in IdMsg /\ starts.kind = "startDone" /\ starts.id = id /\ starts.ok = TRUE
      /\ stops \in IdMsg /\ stops.kind = "stopDone" /\ stops.id = id /\ stops.ok = TRUE
  BY AnswerOff, KindsAre
<1>7. /\ rs \in Seq(Req)
      /\ OneRequest(rs, {"start"}, starts) \/ OneRequest(rs, {"stop"}, stops)
      /\ TargetOf(rs, Target) \in R /\ OnlyFor(Erase(timeBased, id), TargetOf(rs, Target))
      /\ FastFor(timeBased, Target) => FastFor(Erase(timeBased, id), TargetOf(rs, Target))
  BY <1>1, TargetTyped, ToStopServes DEF InTime
<1>8. /\ more \in Seq(Req) /\ (\A t : TargetOf(more, t) = t)
      /\ \A r \in Elems(more) : r.id = id /\ r.reply = NoReply
  BY <1>1, DistanceAsked
<1> HIDE DEF starts, stops, rs, more
<1>9. Says(starts)' /\ Says(stops)'
  BY <1>3, <1>5, <1>6 DEF Says, InDistance
<1>10. /\ \A j \in Id : AtMostOne(rs, Asked(j))
       /\ \A r \in Elems(rs) : /\ r.op # "startDistance" /\ r.reply \in {starts, stops}
                               /\ (MsgFits(r.reply) /\ OpFits(r))'
  <2>1. CASE OneRequest(rs, {"start"}, starts)
    <3>1. /\ \A j \in Id : AtMostOne(rs, Asked(j))
          /\ \A r \in Elems(rs) : r.op \in {"start"} /\ r.reply = starts /\ (MsgFits(r.reply) /\ OpFits(r))'
      BY <1>1, <1>5, <1>6, <1>9, <2>1, OneServes DEF DoneKinds
    <3> QED  BY <3>1
  <2>2. CASE OneRequest(rs, {"stop"}, stops)
    <3>1. /\ \A j \in Id : AtMostOne(rs, Asked(j))
          /\ \A r \in Elems(rs) : r.op \in {"stop"} /\ r.reply = stops /\ (MsgFits(r.reply) /\ OpFits(r))'
      BY <1>1, <1>5, <1>6, <1>9, <2>2, OneServes DEF DoneKinds
    <3> QED  BY <3>1
  <2> QED  BY <1>7, <2>1, <2>2
<1> DEFINE all == rs \o more
<1>11. /\ all \in Seq(Req) /\ Elems(all) = Elems(rs) \cup Elems(more)
       /\ \A A : AtMostOne(all, A) <=> /\ AtMostOne(rs, A) /\ AtMostOne(more, A)
                                       /\ ~ (Comes(rs, A) /\ Comes(more, A))
  BY <1>7, <1>8, Joined
<1>12. TargetOf(all, Target) = TargetOf(rs, Target)
  <2>1. TargetOf(all, Target) = TargetOf(more, TargetOf(rs, Target))
    BY <1>7, <1>8, TargetJoined
  <2> QED  BY <1>8, <2>1
<1> HIDE DEF all
<1>13. \A j \in Id : AtMostOne(all, Asked(j))
  <2>1. \A r \in Elems(more) : \A j \in Id : r \notin Asked(j)
    BY <1>8, MessagesAre DEF Asked, Mine
  <2>2. \A j \in Id : ~ Comes(more, Asked(j))
    BY <2>1, ComesIn
  <2>3. \A j \in Id : AtMostOne(more, Asked(j))
    BY <2>2 DEF AtMostOne, Comes
  <2> QED  BY <1>10, <1>11, <2>2, <2>3
<1>14. ServedBy(all)
  BY <1>2, <1>7, <1>12 DEF ServedBy
<1>15. \A r \in Elems(all) : r.op = "startDistance" => r.id = id
  BY <1>8, <1>10, <1>11
<1>16. \A r \in Elems(all) : r.reply \in IdMsg => r.reply.id = id /\ (MsgFits(r.reply) /\ OpFits(r))'
  BY <1>6, <1>8, <1>10, <1>11, MessagesAre
<1>17. requests' = requests \o all
  BY <1>2 DEF all
<1> QED  BY <1>4, <1>5, <1>11, <1>13, <1>14, <1>15, <1>16, <1>17, AnswerKeeps

LEMMA SwitchToTimeKeeps ==
  ASSUME TrackIInv, Obliging, Base, NEW id \in Id, id = id0, id \in DOMAIN owner, Waits(id),
         InDistance(id), id \notin stopped, NEW o \in Options, o = options0, o.minDistance = 0, SwitchToTime
  PROVE  TrackIInv'
<1> DEFINE reply == Msg("switchDone", id, o)
           rs == <<Request("stopDistance", id, Off, reply)>>
<1>1. Typed /\ Disjoint /\ id \in Nat
  BY IdsAre DEF TrackIInv
<1>2. EraseTrackingSession(id) /\ requests' = requests \o rs /\ UNCHANGED told
  BY DEF SwitchToTime, Ask, ToStopDistance, EraseTrackingSession
<1>3. /\ timeBased' = timeBased /\ Changed(id)
      /\ id \notin DOMAIN timeBased' /\ id \notin DOMAIN distanceBased'
  <2>1. id \notin DOMAIN timeBased
    BY <1>1 DEF InDistance, Disjoint
  <2> QED  BY <1>1, <1>2, <2>1, EraseIs
<1>4. waiting' = waiting /\ Tells(id) /\ stopped' = stopped
  BY <1>1, <1>2, Untold DEF Base, calls
<1>5. reply \in IdMsg /\ reply.kind = "switchDone" /\ reply.id = id /\ reply.options = o /\ reply.ok = TRUE
  <2>1. o \in R
    BY OptionsAre
  <2> QED  BY <2>1 DEF Msg, IdMsg, IdKinds, DoneKinds
<1> HIDE DEF reply
<1>6. /\ rs \in Seq(Req) /\ OneRequest(rs, {"stopDistance"}, reply) /\ \A t : TargetOf(rs, t) = t
      /\ \A r \in Elems(rs) : r.id = id
  BY <1>1, <1>5, DistanceAsked
<1> HIDE DEF rs
<1>7. ServedBy(rs)
  BY <1>3, <1>6, ServedStill
<1>8. Says(reply)'
  BY <1>3, <1>4, <1>5 DEF Says, InTime, InDistance
<1> QED  BY <1>1, <1>2, <1>3, <1>4, <1>5, <1>6, <1>7, <1>8, OneKeeps DEF DoneKinds

LEMMA RestartDistanceKeeps ==
  ASSUME TrackIInv, Obliging, Base, NEW id \in Id, id = id0, id \in DOMAIN owner, Waits(id),
         InDistance(id), id \notin stopped, NEW o \in Options, o = options0, o.minDistance > 0, RestartDistance
  PROVE  TrackIInv'
<1> DEFINE reply == Msg("restartStopDone", id, o)
           rs == <<Request("stopDistance", id, Off, reply)>>
<1>1. Typed /\ Disjoint /\ id \in Nat
  BY IdsAre DEF TrackIInv
<1>2. UNCHANGED sessions /\ requests' = requests \o rs /\ UNCHANGED told
  BY DEF RestartDistance, Ask, ToStopDistance
<1>3. timeBased' = timeBased /\ distanceBased' = distanceBased /\ Changed(id)
  BY <1>1, <1>2, Unmoved
<1>4. waiting' = waiting /\ Tells(id) /\ stopped' = stopped
  BY <1>1, <1>2, Untold DEF Base, calls
<1>5. reply \in IdMsg /\ reply.kind = "restartStopDone" /\ reply.id = id /\ reply.options = o /\ reply.ok = TRUE
  <2>1. o \in R
    BY OptionsAre
  <2> QED  BY <2>1 DEF Msg, IdMsg, IdKinds, DoneKinds
<1> HIDE DEF reply
<1>6. /\ rs \in Seq(Req) /\ OneRequest(rs, {"stopDistance"}, reply) /\ \A t : TargetOf(rs, t) = t
      /\ \A r \in Elems(rs) : r.id = id
  BY <1>1, <1>5, DistanceAsked
<1> HIDE DEF rs
<1>7. ServedBy(rs)
  BY <1>3, <1>6, ServedStill
<1>8. Says(reply)'
  BY <1>3, <1>4, <1>5 DEF Says, InDistance
<1> QED  BY <1>1, <1>2, <1>3, <1>4, <1>5, <1>6, <1>7, <1>8, OneKeeps DEF DoneKinds

LEMMA UpdateTimeBasedKeeps ==
  ASSUME TrackIInv, Obliging, Base, NEW id \in Id, id = id0, id \in DOMAIN owner, Waits(id),
         InTime(id), id \notin stopped, NEW o \in Options, o = options0, o.minDistance = 0, UpdateTimeBased
  PROVE  TrackIInv'
<1>1. /\ Typed /\ Disjoint /\ SessionMap(timeBased) /\ Target \in R /\ id \in Nat \ {0}
      /\ id \in DOMAIN timeBased /\ id \notin DOMAIN distanceBased
  BY TargetTyped, IdsAre DEF TrackIInv, Typed, Disjoint, InTime
<1>5. PICK old \in Options : old = timeBased[id] /\ old \in R
  BY <1>1, OptionsOf, OptionsAre
<1> DEFINE reply == Msg("updateDone", id, old)
           rs == ToUpdate(id, o)
<1>2. AskAndReport(id, rs) /\ SaveTrackingSession(id, o)
  BY DEF UpdateTimeBased
<1>3. timeBased' = Save(timeBased, id, o) /\ Changed(id)
  BY <1>1, <1>2, SaveIs
<1>4. requests' = requests \o rs /\ Tells(id) /\ (rs # <<>> => waiting' = waiting) /\ stopped' = stopped
  BY <1>1, <1>2, AskedAndReported DEF Tells, Base, calls
<1>6. reply \in IdMsg /\ reply.kind = "updateDone" /\ reply.id = id /\ reply.options = old /\ reply.ok = TRUE
  BY <1>5 DEF Msg, IdMsg, IdKinds, DoneKinds
<1>7. /\ rs \in Seq(Req) /\ OneRequest(rs, {"start"}, reply)
      /\ TargetOf(rs, Target) \in R /\ OnlyFor(Save(timeBased, id, o), TargetOf(rs, Target))
      /\ FastFor(timeBased, Target) => FastFor(Save(timeBased, id, o), TargetOf(rs, Target))
  BY <1>1, <1>5, ToUpdateServes
<1> HIDE DEF reply, rs
<1>8. ServedBy(rs)
  BY <1>3, <1>7 DEF ServedBy
<1>9. id \in DOMAIN timeBased'
  <2>1. DOMAIN Save(timeBased, id, o) = DOMAIN timeBased \cup {id}
    BY <1>1, Saved
  <2> QED  BY <1>3, <2>1
<1>10. Says(reply)'
  BY <1>4, <1>5, <1>6, <1>9 DEF Says, InTime
<1>11. \A r \in Elems(rs) : r.op = "startDistance" => r.id = id
  BY <1>7, OneIs
<1> QED  BY <1>1, <1>3, <1>4, <1>6, <1>7, <1>8, <1>10, <1>11, OneKeeps DEF DoneKinds

LEMMA ProcUpdateKeeps == ASSUME TrackIInv, Obliging, ProcUpdateTracking PROVE TrackIInv'
<1>1. /\ Proc("update") /\ UNCHANGED state
      /\ \/ id0 \in DOMAIN timeBased /\ options0.minDistance # 0 /\ SwitchToDistance
         \/ id0 \in DOMAIN distanceBased /\ options0.minDistance = 0 /\ SwitchToTime
         \/ id0 \in DOMAIN timeBased /\ options0.minDistance = 0 /\ UpdateTimeBased
         \/ id0 \in DOMAIN distanceBased /\ options0.minDistance # 0 /\ RestartDistance
         \/ UpdateUnknown
  BY DEF ProcUpdateTracking
<1>2. /\ Base /\ Head(queue).kind = "update" /\ Typed /\ Disjoint
      /\ \E id \in Id : /\ id = id0 /\ id = Head(queue).id /\ id \in Nat \ {0} /\ id \in DOMAIN owner
                        /\ Awaited(Head(queue)) \/ Orphaned(Head(queue))
  BY <1>1, HeadTaken DEF IdKinds, CallKinds
<1>3. PICK id \in Id : /\ id = id0 /\ id = Head(queue).id /\ id \in Nat \ {0} /\ id \in DOMAIN owner
                       /\ Awaited(Head(queue)) \/ Orphaned(Head(queue))
  BY <1>2
<1>4. Waits(id) /\ id \notin stopped /\ options0 \in Options
  BY <1>2, <1>3 DEF Awaited, Says, Orphaned, options0
<1>5. PICK o \in Options : o = options0
  BY <1>4
<1>6. o.minDistance \in Nat
  BY OptionsAre
<1>7. CASE id0 \in DOMAIN timeBased /\ SwitchToDistance
  BY <1>2, <1>3, <1>4, <1>5, <1>7, SwitchToDistanceKeeps DEF InTime
<1>8. CASE id0 \in DOMAIN distanceBased /\ options0.minDistance = 0 /\ SwitchToTime
  BY <1>2, <1>3, <1>4, <1>5, <1>8, SwitchToTimeKeeps DEF InDistance
<1>9. CASE id0 \in DOMAIN timeBased /\ options0.minDistance = 0 /\ UpdateTimeBased
  BY <1>2, <1>3, <1>4, <1>5, <1>9, UpdateTimeBasedKeeps DEF InTime
<1>10. CASE id0 \in DOMAIN distanceBased /\ options0.minDistance # 0 /\ RestartDistance
  BY <1>2, <1>3, <1>4, <1>5, <1>6, <1>10, RestartDistanceKeeps DEF InDistance
<1>11. CASE UpdateUnknown
  <2>1. ReportResponse(id0, "unknown") /\ UNCHANGED sessions /\ requests' = requests
    BY <1>11 DEF UpdateUnknown
  <2>2. Tells(id)
    BY <1>2, <1>3, <2>1, ReportTells DEF Answers
  <2>3. timeBased' = timeBased /\ Changed(id)
    BY <1>2, <2>1, Unmoved
  <2> QED  BY <1>2, <1>3, <2>1, <2>2, <2>3, QuietKeeps
<1> QED  BY <1>1, <1>7, <1>8, <1>9, <1>10, <1>11

-----------------------------------------------------------------------------
(* The calls from outside *)

\* What is in flight afterwards was before, or says what it must.
LEMMA FlightKeeps ==
  ASSUME Typed, FlightFits, \A id \in Id : OneInFlight(id)',
         \A m \in Flying' : (m \in Flying /\ Steady(m.id)) \/ MsgFits(m)',
         \A r \in Elems(requests') : r.reply \in IdMsg =>
             (r \in Elems(requests) /\ Steady(r.reply.id)) \/ OpFits(r)'
  PROVE  FlightFits'
<1>1. ASSUME NEW m \in Flying' PROVE MsgFits(m)'
  <2>1. m \in IdMsg
    BY DEF Flying
  <2> QED  BY <2>1, MsgSteady DEF FlightFits
<1>2. ASSUME NEW r \in Elems(requests'), r.reply \in IdMsg PROVE OpFits(r)'
  <2>1. CASE r \in Elems(requests) /\ Steady(r.reply.id)
    <3>1. r.reply \in Flying /\ r \in Req
      BY <1>2, <2>1 DEF Flying, Typed, Elems
    <3> QED  BY <1>2, <2>1, <3>1, OpSteady DEF FlightFits
  <2> QED  BY <1>2, <2>1
<1> QED  BY <1>1, <1>2 DEF FlightFits

\* No message about session id is in flight.
LEMMA NoneFlies ==
  ASSUME Typed, NEW id, \A m \in Flying : m.id # id
  PROVE  ~ Comes(queue, Mine(id)) /\ ~ Comes(mPendingMsgs, Mine(id)) /\ ~ Comes(requests, Asked(id))
<1>1. \A m \in Elems(queue) \cup Elems(mPendingMsgs) : m \notin Mine(id)
  BY DEF Flying, Mine
<1>2. \A r \in Elems(requests) : r \notin Asked(id)
  BY DEF Flying, Mine, Asked
<1> QED  BY <1>1, <1>2, ComesIn

LEMMA RequestsTyped == ASSUME Typed PROVE \A r \in Elems(requests) : r \in Req
BY DEF Typed, Elems

LEMMA RunningSent ==
  ASSUME Typed, NEW m \in Message, queue' = Append(queue, m), mSystemPowerState' = mSystemPowerState
  PROVE  Running' <=> Running /\ m.kind # "engineUp"
<1>1. Elems(queue') = Elems(queue) \cup {m}
  BY Appended DEF Typed
<1>2. Awaits("engineUp") <=> \E x \in Elems(queue) : x.kind = "engineUp"
  BY DEF Awaits, Elems
<1>3. Awaits("engineUp")' <=> \E x \in Elems(queue') : x.kind = "engineUp"
  BY DEF Awaits, Elems
<1> QED  BY <1>1, <1>2, <1>3 DEF Running

\* A client calls about a session that nothing is under way about.
LEMMA CallKeeps ==
  ASSUME TrackIInv, NEW m \in IdMsg, NEW id \in Id, m.id = id, queue' = Append(queue, m),
         UNCHANGED <<sessions, state, modem, requests>>, answer' = answer,
         \A x \in Flying : x.id # id,
         owner' \in Seq(Client), Len(owner') <= MaxId, DOMAIN owner \subseteq DOMAIN owner',
         \A j \in DOMAIN owner : owner'[j] = owner[j],
         id \in DOMAIN owner', waiting' = waiting \cup {id},
         stopped \subseteq stopped', stopped' \subseteq stopped \cup {id},
         NEW c \in Client, c = owner'[id], c \in mClientData, ~ Leaves(c), Says(m)'
  PROVE  TrackIInv'
<1>1. Typed /\ FlightFits /\ RemovalFits /\ Disjoint /\ Postponed /\ EngineFits
  BY DEF TrackIInv
<1>2. /\ timeBased' = timeBased /\ distanceBased' = distanceBased /\ mClientData' = mClientData
      /\ mPendingMsgs' = mPendingMsgs /\ known' = known /\ mSystemPowerState' = mSystemPowerState
      /\ requests' = requests /\ engine' = engine /\ engineDistance' = engineDistance
  BY DEF sessions, state, modem
<1>3. m \in Message /\ m.kind # "engineUp" /\ \A d : m # MsgRemoveClient(d)
  BY MessagesAre DEF Message, IdKinds, CallKinds, DoneKinds
<1>4. \A d : /\ Leaves(d)' <=> Leaves(d)
             /\ Ending(d) => Ending(d)'
             /\ AtMostOne(queue, {MsgRemoveClient(d)}) => AtMostOne(queue', {MsgRemoveClient(d)})
  BY <1>1, <1>2, <1>3, SentSteady
<1>5. /\ queue' \in Seq(Message) /\ Elems(queue') = Elems(queue) \cup {m}
      /\ \A A : /\ Comes(queue', A) <=> Comes(queue, A) \/ m \in A
                /\ AtMostOne(queue', A) <=> AtMostOne(queue, A) /\ ~ (Comes(queue, A) /\ m \in A)
  <2>1. queue \in Seq(Message)
    BY <1>1 DEF Typed
  <2>2. m \in Message
    BY <1>3
  <2>3. /\ Append(queue, m) \in Seq(Message) /\ Elems(Append(queue, m)) = Elems(queue) \cup {m}
        /\ \A A : /\ Comes(Append(queue, m), A) <=> Comes(queue, A) \/ m \in A
                  /\ AtMostOne(Append(queue, m), A) <=> AtMostOne(queue, A) /\ ~ (Comes(queue, A) /\ m \in A)
    BY <2>1, <2>2, Appended
  <2> QED  BY <2>3
<1>6. Typed'
  <2>1. \A r \in Elems(requests') : r.op = "startDistance" => r.id \in DOMAIN owner'
    BY <1>1, <1>2 DEF Typed
  <2> QED  BY <1>1, <1>2, <1>5, <2>1 DEF Typed
<1>7. ~ Comes(queue, Mine(id)) /\ ~ Comes(mPendingMsgs, Mine(id)) /\ ~ Comes(requests, Asked(id))
  BY <1>1, NoneFlies
<1>8. \A j \in Id : OneInFlight(j)'
  <2> SUFFICES ASSUME NEW j \in Id PROVE OneInFlight(j)'
    OBVIOUS
  <2>1. OneInFlight(j) /\ (m \in Mine(j) => j = id)
    BY <1>1 DEF FlightFits, Mine
  <2> QED  BY <1>2, <1>5, <1>7, <2>1 DEF OneInFlight
<1>9. ASSUME NEW j \in Id, j # id PROVE Steady(j)
  BY <1>2, <1>4, <1>9 DEF Steady
<1>10. Flying' = Flying \cup {m}
  BY <1>2, <1>5 DEF Flying
<1>11. MsgFits(m)'
  <2>1. Leaves(owner[m.id])' <=> Leaves(c)'
    BY DEF Leaves
  <2>2. Waits(m.id)'
    BY <1>2, <1>4, <2>1 DEF Waits
  <2> QED  BY <2>2 DEF MsgFits, Awaited
<1>12. FlightFits'
  <2>1. \A x \in Flying : x \in IdMsg /\ x.id \in Id
    BY MessagesAre DEF Flying
  <2>2. \A x \in Flying' : (x \in Flying /\ Steady(x.id)) \/ MsgFits(x)'
    BY <1>9, <1>10, <1>11, <2>1
  <2>3. \A r \in Elems(requests') : r.reply \in IdMsg => r \in Elems(requests) /\ Steady(r.reply.id)
    <3>1. \A r \in Elems(requests) : r.reply \in IdMsg => r.reply \in Flying
      BY DEF Flying
    <3> QED  BY <1>2, <1>9, <2>1, <3>1
  <2> QED  BY <1>1, <1>8, <2>2, <2>3, FlightKeeps
<1>13. RemovalFits'
  BY <1>1, <1>2, <1>4 DEF RemovalFits
<1>14. Disjoint' /\ Postponed'
  BY <1>1, <1>2 DEF Disjoint, Postponed
<1>15. EngineFits'
  <2>1. Running' <=> Running
    BY <1>1, <1>2, <1>3, RunningSent
  <2>2. Target' = Target
    BY <1>2 DEF Target
  <2> QED  BY <1>1, <1>2, <2>1, <2>2 DEF EngineFits
<1> QED  BY <1>6, <1>12, <1>13, <1>14, <1>15 DEF TrackIInv

LEMMA SendIs == ASSUME NEW m, Send(m) PROVE queue' = Append(queue, m)
BY DEF Send

LEMMA CallIs ==
  ASSUME NEW kind \in CallKinds, NEW id \in Id, NEW o \in R
  PROVE  /\ Msg(kind, id, o) \in IdMsg /\ Msg(kind, id, o).kind = kind /\ Msg(kind, id, o).id = id
         /\ Msg(kind, id, o).options = o /\ Msg(kind, id, o).ok = TRUE
BY DEF Msg, IdMsg, IdKinds

LEMMA NotRemoved ==
  ASSUME NEW c, ~ Removed(c)
  PROVE  c \in mClientData /\ ~ Leaves(c)
BY DEF Removed, Leaves, Comes

\* A client that may call waits for nothing, so nothing is under way.
LEMMA MayCallIs ==
  ASSUME TrackIInv, Obliging, NEW id \in Id, MayCall(id)
  PROVE  /\ id \in DOMAIN owner /\ id \notin stopped /\ owner[id] \in Client
         /\ owner[id] \in mClientData /\ ~ Leaves(owner[id])
         /\ \A m \in Flying : m.id # id
<1>1. id \in DOMAIN owner /\ id \notin stopped /\ ~ Removed(owner[id]) /\ id \notin waiting
  BY DEF MayCall, Obliging
<1>2. owner[id] \in mClientData /\ ~ Leaves(owner[id])
  BY <1>1, NotRemoved
<1>3. owner[id] \in Client
  BY <1>1 DEF TrackIInv, Typed
<1>4. ASSUME NEW m \in Flying, m.id = id PROVE FALSE
  <2>1. MsgFits(m)
    BY DEF TrackIInv, FlightFits
  <2>2. ~ Awaited(m)
    BY <1>1, <1>4 DEF Awaited, Waits
  <2>3. Ending(owner[id])
    BY <1>4, <2>1, <2>2 DEF MsgFits, Orphaned
  <2>4. queue \in Seq(Message) /\ queue # <<>> /\ Head(queue) = MsgRemoveClient(owner[id])
    BY <1>2, <2>3 DEF Ending, TrackIInv, Typed
  <2>5. Leaves(owner[id])
    <3> DEFINE A == {MsgRemoveClient(owner[id])}
    <3>1. Head(queue) \in A
      BY <2>4
    <3> HIDE DEF A
    <3>2. Comes(queue, A)
      BY <2>4, <3>1, Taken
    <3> QED  BY <3>2 DEF Leaves, A
  <2> QED  BY <1>2, <2>5
<1> QED  BY <1>1, <1>2, <1>3, <1>4

LEMMA StopCallKeeps ==
  ASSUME TrackIInv, Obliging, NEW id \in Id, StopTrackingCommand(id)
  PROVE  TrackIInv'
<1> DEFINE m == Msg("stop", id, Off)
<1>1. /\ MayCall(id) /\ queue' = Append(queue, m) /\ UNCHANGED <<sessions, state, modem, requests>>
      /\ stopped' = stopped \cup {id} /\ waiting' = waiting \cup {id}
      /\ answer' = answer /\ owner' = owner
  BY SendIs DEF StopTrackingCommand
<1>2. m \in IdMsg /\ m.kind = "stop" /\ m.id = id /\ m.ok = TRUE
  <2>1. Off \in R
    BY OffIs
  <2> QED  BY <2>1 DEF Msg, IdMsg, IdKinds, CallKinds
<1> HIDE DEF m
<1>3. /\ id \in DOMAIN owner /\ owner[id] \in Client /\ owner[id] \in mClientData
      /\ \A x \in Flying : x.id # id
  BY <1>1, MayCallIs
<1>4. PICK c \in Client : c = owner[id] /\ ~ Leaves(c)
  BY <1>1, MayCallIs
<1>5. owner \in Seq(Client) /\ Len(owner) <= MaxId
  BY DEF TrackIInv, Typed
<1>6. Says(m)'
  BY <1>1, <1>2 DEF Says
<1> QED  BY <1>1, <1>2, <1>3, <1>4, <1>5, <1>6, CallKeeps

LEMMA UpdateCallKeeps ==
  ASSUME TrackIInv, Obliging, NEW id \in Id, NEW o \in Options, UpdateTrackingOptionsCommand(id, o)
  PROVE  TrackIInv'
<1> DEFINE m == Msg("update", id, o)
<1>1. /\ MayCall(id) /\ queue' = Append(queue, m) /\ UNCHANGED <<sessions, state, modem, requests>>
      /\ stopped' = stopped /\ waiting' = waiting \cup {id}
      /\ answer' = answer /\ owner' = owner
  BY SendIs DEF UpdateTrackingOptionsCommand
<1>2. m \in IdMsg /\ m.kind = "update" /\ m.id = id /\ m.options = o /\ m.ok = TRUE
  <2>1. o \in R
    BY OptionsAre
  <2> QED  BY <2>1 DEF Msg, IdMsg, IdKinds, CallKinds
<1> HIDE DEF m
<1>3. /\ id \in DOMAIN owner /\ owner[id] \in Client /\ owner[id] \in mClientData /\ id \notin stopped
      /\ \A x \in Flying : x.id # id
  BY <1>1, MayCallIs
<1>4. PICK c \in Client : c = owner[id] /\ ~ Leaves(c)
  BY <1>1, MayCallIs
<1>5. owner \in Seq(Client) /\ Len(owner) <= MaxId
  BY DEF TrackIInv, Typed
<1>6. Says(m)'
  BY <1>1, <1>2, <1>3 DEF Says
<1> QED  BY <1>1, <1>2, <1>3, <1>4, <1>5, <1>6, CallKeeps

LEMMA StartCallKeeps ==
  ASSUME TrackIInv, Obliging, NEW c \in Client, NEW o \in Options, StartTrackingCommand(c, o)
  PROVE  TrackIInv'
<1>0. owner \in Seq(Client) /\ Len(owner) \in Nat /\ Len(owner) < MaxId /\ MaxId \in Nat
  BY TrackingAssumption DEF TrackIInv, Typed, StartTrackingCommand, TrackingAssumption
<1>1. PICK id \in Id : id = Len(owner) + 1
  BY <1>0 DEF Id
<1> DEFINE m == Msg("start", id, o)
<1>2. /\ ~ Removed(c) /\ queue' = Append(queue, m) /\ UNCHANGED <<sessions, state, modem, requests>>
      /\ stopped' = stopped /\ waiting' = waiting \cup {id}
      /\ answer' = answer /\ owner' = Append(owner, c)
  BY <1>1, SendIs DEF StartTrackingCommand
<1>3. m \in IdMsg /\ m.kind = "start" /\ m.id = id /\ m.options = o /\ m.ok = TRUE
  <2>1. o \in R
    BY OptionsAre
  <2> QED  BY <2>1 DEF Msg, IdMsg, IdKinds, CallKinds
<1> HIDE DEF m
<1>4. /\ owner' \in Seq(Client) /\ Len(owner') <= MaxId /\ DOMAIN owner \subseteq DOMAIN owner'
      /\ id \in DOMAIN owner' /\ owner'[id] = c /\ id \notin DOMAIN owner
      /\ \A j \in DOMAIN owner : owner'[j] = owner[j]
  BY <1>0, <1>1, <1>2
<1>5. \A x \in Flying : x.id # id
  BY <1>4 DEF TrackIInv, FlightFits, MsgFits
<1>6. c \in mClientData /\ ~ Leaves(c)
  BY <1>2, NotRemoved
<1>7. Says(m)'
  <2>1. id \notin DOMAIN timeBased /\ id \notin DOMAIN distanceBased /\ id \notin stopped
    BY <1>4 DEF TrackIInv, Typed
  <2>2. timeBased' = timeBased /\ distanceBased' = distanceBased
    BY <1>2 DEF sessions
  <2> QED  BY <1>2, <1>3, <2>1, <2>2 DEF Says, InTime, InDistance
<1> QED  BY <1>2, <1>3, <1>4, <1>5, <1>6, <1>7, CallKeeps

\* A message is sent that is about no session.
LEMMA OtherSent ==
  ASSUME Typed, FlightFits, NEW m \in Message, m \notin IdMsg, queue' = Append(queue, m),
         mPendingMsgs' = mPendingMsgs, requests' = requests, \A x \in Flying : Steady(x.id)
  PROVE  FlightFits' /\ queue' \in Seq(Message)
<1>1. /\ queue' \in Seq(Message) /\ Elems(queue') = Elems(queue) \cup {m}
      /\ \A A : /\ Comes(queue', A) <=> Comes(queue, A) \/ m \in A
                /\ AtMostOne(queue', A) <=> AtMostOne(queue, A) /\ ~ (Comes(queue, A) /\ m \in A)
  <2>1. queue \in Seq(Message)
    BY DEF Typed
  <2>2. /\ Append(queue, m) \in Seq(Message) /\ Elems(Append(queue, m)) = Elems(queue) \cup {m}
        /\ \A A : /\ Comes(Append(queue, m), A) <=> Comes(queue, A) \/ m \in A
                  /\ AtMostOne(Append(queue, m), A) <=> AtMostOne(queue, A) /\ ~ (Comes(queue, A) /\ m \in A)
    BY <2>1, Appended
  <2> QED  BY <2>2
<1>2. \A j : m \notin Mine(j)
  BY DEF Mine
<1>3. \A j \in Id : OneInFlight(j)'
  BY <1>1, <1>2 DEF FlightFits, OneInFlight
<1>4. Flying' = Flying
  BY <1>1 DEF Flying
<1>5. \A r \in Elems(requests') : r.reply \in IdMsg => r \in Elems(requests) /\ Steady(r.reply.id)
  <2>1. \A r \in Elems(requests) : r.reply \in IdMsg => r.reply \in Flying
    BY DEF Flying
  <2> QED  BY <2>1
<1> QED  BY <1>1, <1>3, <1>4, <1>5, FlightKeeps

LEMMA RemoveCallKeeps ==
  ASSUME TrackIInv, Obliging, NEW c \in Client, RemoveClientCommand(c)
  PROVE  TrackIInv'
<1> DEFINE m == MsgRemoveClient(c)
<1>1. /\ ~ Removed(c) /\ queue' = Append(queue, m) /\ \A id \in waiting : owner[id] # c
      /\ UNCHANGED <<sessions, state, modem, calls, told, requests>>
  BY SendIs DEF RemoveClientCommand, Obliging
<1>2. Typed /\ FlightFits /\ RemovalFits /\ Disjoint /\ Postponed /\ EngineFits
  BY DEF TrackIInv
<1>3. /\ timeBased' = timeBased /\ distanceBased' = distanceBased /\ mClientData' = mClientData
      /\ mPendingMsgs' = mPendingMsgs /\ known' = known /\ mSystemPowerState' = mSystemPowerState
      /\ requests' = requests /\ engine' = engine /\ engineDistance' = engineDistance
      /\ owner' = owner /\ stopped' = stopped /\ waiting' = waiting /\ answer' = answer
  BY <1>1 DEF sessions, state, modem, calls, told
<1>4. m \in Message /\ m \notin IdMsg /\ m.kind # "engineUp" /\ (\A d : m = MsgRemoveClient(d) => d = c)
  BY MessagesAre DEF Message
<1>5. c \in mClientData /\ ~ Leaves(c)
  BY <1>1, NotRemoved
<1> HIDE DEF m
<1>6. \A d : /\ Leaves(d)' <=> Leaves(d) \/ m = MsgRemoveClient(d)
             /\ Ending(d) => Ending(d)'
             /\ AtMostOne(queue, {MsgRemoveClient(d)}) /\ (m = MsgRemoveClient(d) => ~ Leaves(d)) =>
                   AtMostOne(queue', {MsgRemoveClient(d)})
  BY <1>1, <1>2, <1>3, <1>4, SentSteady
<1>7. ASSUME NEW x \in Flying PROVE Steady(x.id)
  <2>1. MsgFits(x)
    BY <1>2 DEF FlightFits
  <2>2. owner[x.id] # c
    <3>1. CASE Awaited(x)
      BY <1>1, <3>1 DEF Awaited, Waits
    <3>2. CASE Orphaned(x)
      <4>1. Ending(owner[x.id])
        BY <3>2 DEF Orphaned
      <4>2. ~ Ending(c)
        <5>1. ASSUME queue # <<>>, Head(queue) = MsgRemoveClient(c) PROVE FALSE
          <6> DEFINE A == {MsgRemoveClient(c)}
          <6>1. Head(queue) \in A /\ queue \in Seq(Message)
            BY <1>2, <5>1 DEF Typed
          <6> HIDE DEF A
          <6>2. Comes(queue, A)
            BY <5>1, <6>1, Taken
          <6> QED  BY <1>5, <6>2 DEF Leaves, A
        <5> QED  BY <1>5, <5>1 DEF Ending
      <4> QED  BY <4>1, <4>2
    <3> QED  BY <2>1, <3>1, <3>2 DEF MsgFits
  <2> QED  BY <1>3, <1>4, <1>6, <2>2 DEF Steady
<1>8. FlightFits' /\ queue' \in Seq(Message)
  BY <1>1, <1>2, <1>3, <1>4, <1>7, OtherSent
<1>9. Typed'
  BY <1>2, <1>3, <1>8 DEF Typed
<1>10. RemovalFits'
  BY <1>2, <1>3, <1>4, <1>5, <1>6 DEF RemovalFits
<1>11. Disjoint' /\ Postponed'
  BY <1>2, <1>3 DEF Disjoint, Postponed
<1>12. EngineFits'
  <2>1. Running' <=> Running
    BY <1>1, <1>2, <1>3, <1>4, RunningSent
  <2>2. Target' = Target
    BY <1>3 DEF Target
  <2> QED  BY <1>2, <1>3, <2>1, <2>2 DEF EngineFits
<1> QED  BY <1>8, <1>9, <1>10, <1>11, <1>12 DEF TrackIInv

\* A message is sent that is about no session and no client.
LEMMA PlainSent ==
  ASSUME TrackIInv, NEW m \in PlainMsg, queue' = Append(queue, m),
         UNCHANGED <<sessions, state, requests, owner, stopped, told>>,
         engine' \in R, engineDistance' \subseteq DOMAIN owner, EngineFits'
  PROVE  TrackIInv'
<1>2. Typed /\ FlightFits /\ RemovalFits /\ Disjoint /\ Postponed
  BY DEF TrackIInv
<1>3. /\ timeBased' = timeBased /\ distanceBased' = distanceBased /\ mClientData' = mClientData
      /\ mPendingMsgs' = mPendingMsgs /\ known' = known /\ mSystemPowerState' = mSystemPowerState
      /\ requests' = requests
      /\ owner' = owner /\ stopped' = stopped /\ waiting' = waiting /\ answer' = answer
  BY DEF sessions, state, told
<1>4. m \in Message /\ m \notin IdMsg /\ \A d : m # MsgRemoveClient(d)
  BY MessagesAre DEF Message
<1>6. \A d : /\ Leaves(d)' <=> Leaves(d)
             /\ Ending(d) => Ending(d)'
             /\ AtMostOne(queue, {MsgRemoveClient(d)}) => AtMostOne(queue', {MsgRemoveClient(d)})
  BY <1>2, <1>3, <1>4, SentSteady
<1>7. \A x \in Flying : Steady(x.id)
  BY <1>3, <1>6 DEF Steady
<1>8. FlightFits' /\ queue' \in Seq(Message)
  BY <1>2, <1>3, <1>4, <1>7, OtherSent
<1>9. Typed'
  BY <1>2, <1>3, <1>8 DEF Typed
<1>10. RemovalFits'
  BY <1>2, <1>3, <1>6 DEF RemovalFits
<1>11. Disjoint' /\ Postponed'
  BY <1>2, <1>3 DEF Disjoint, Postponed
<1> QED  BY <1>8, <1>9, <1>10, <1>11 DEF TrackIInv

LEMMA PowerCallKeeps ==
  ASSUME TrackIInv, NEW power \in {"suspend", "resume"}, UpdateSystemPowerStateCommand(power)
  PROVE  TrackIInv'
<1> DEFINE m == Msg(power, 0, Off)
<1>1. queue' = Append(queue, m) /\ UNCHANGED <<sessions, state, modem, requests, owner, stopped, told>>
  BY SendIs DEF UpdateSystemPowerStateCommand
<1>2. m \in PlainMsg /\ m \in Message /\ m.kind # "engineUp"
  BY DEF PlainMsg, Message, Msg
<1> HIDE DEF m
<1>3. Typed /\ EngineFits /\ engine' = engine /\ engineDistance' = engineDistance
      /\ requests' = requests /\ timeBased' = timeBased /\ mSystemPowerState' = mSystemPowerState
  BY <1>1 DEF TrackIInv, modem, sessions, state
<1>4. EngineFits'
  <2>1. Running' <=> Running
    BY <1>1, <1>2, <1>3, RunningSent
  <2>2. Target' = Target
    BY <1>3 DEF Target
  <2> QED  BY <1>3, <2>1, <2>2 DEF EngineFits
<1> QED  BY <1>1, <1>2, <1>3, <1>4, PlainSent DEF Typed

\* The modem has lost its sessions, and until the adapter handles that none is served.
LEMMA EngineUpKeeps == ASSUME TrackIInv, EngineUp PROVE TrackIInv'
<1> DEFINE m == Msg("engineUp", 0, Off)
<1>1. /\ queue' = Append(queue, m) /\ UNCHANGED <<sessions, state, calls, told, requests>>
      /\ requests = <<>> /\ engine' = Off /\ engineDistance' = {}
  BY SendIs DEF EngineUp
<1>2. m \in PlainMsg /\ m \in Message /\ m.kind = "engineUp"
  BY DEF PlainMsg, Message, Msg
<1> HIDE DEF m
<1>3. Typed /\ mSystemPowerState' = mSystemPowerState /\ requests' = <<>> /\ owner' = owner /\ stopped' = stopped
  BY <1>1 DEF TrackIInv, state, calls
<1>4. EngineFits'
  <2>1. ~ Running'
    BY <1>1, <1>2, <1>3, RunningSent
  <2>2. Target' = Off
    BY <1>1, <1>3, NoRequest DEF Target
  <2> QED  BY <2>1, <2>2, OffIs DEF EngineFits, OnlyFor
<1> QED  BY <1>1, <1>2, <1>3, <1>4, PlainSent, OffIs

-----------------------------------------------------------------------------
(* The modem does what it was asked *)

LEMMA ModemKeeps == ASSUME TrackIInv, Obliging, Modem PROVE TrackIInv'
<1>0. Typed /\ FlightFits /\ RemovalFits /\ Disjoint /\ Postponed /\ EngineFits
  BY DEF TrackIInv
<1>14. PICK r \in Req : r = Head(requests) /\ requests # <<>>
  <2>1. requests \in Seq(Req) /\ requests # <<>>
    BY <1>0 DEF Modem, Typed
  <2> QED  BY <2>1
<1>1. /\ requests # <<>> /\ requests' = Tail(requests)
      /\ UNCHANGED <<sessions, state, calls, told>>
      /\ \E ok \in (IF r.op \in Fails THEN BOOLEAN ELSE {TRUE}) :
            /\ IF ok THEN Serve(r) ELSE UNCHANGED <<engine, engineDistance>>
            /\ queue' = IF r.reply = NoReply THEN queue ELSE Append(queue, [r.reply EXCEPT !.ok = ok])
  BY <1>14 DEF Modem
<1>2. PICK ok \in (IF r.op \in Fails THEN BOOLEAN ELSE {TRUE}) :
            /\ IF ok THEN Serve(r) ELSE UNCHANGED <<engine, engineDistance>>
            /\ queue' = IF r.reply = NoReply THEN queue ELSE Append(queue, [r.reply EXCEPT !.ok = ok])
  BY <1>1
<1>3. ok \in BOOLEAN /\ (~ ok => r.op \in Fails /\ r.op \notin {"start", "stop"})
  BY <1>2 DEF Obliging
<1>4. /\ requests \in Seq(Req) /\ queue \in Seq(Message)
      /\ r \in Req /\ requests' \in Seq(Req) /\ Elems(requests) = {r} \cup Elems(requests')
      /\ \A A : /\ Comes(requests, A) <=> r \in A \/ Comes(requests', A)
                /\ AtMostOne(requests, A) <=> AtMostOne(requests', A) /\ ~ (r \in A /\ Comes(requests', A))
  <2>1. requests \in Seq(Req) /\ queue \in Seq(Message)
    BY <1>0 DEF Typed
  <2>2. /\ r \in Req /\ Tail(requests) \in Seq(Req) /\ Elems(requests) = {r} \cup Elems(Tail(requests))
        /\ \A A : /\ Comes(requests, A) <=> r \in A \/ Comes(Tail(requests), A)
                  /\ AtMostOne(requests, A) <=>
                        AtMostOne(Tail(requests), A) /\ ~ (r \in A /\ Comes(Tail(requests), A))
    BY <1>1, <1>14, <2>1, Taken
  <2> QED  BY <1>1, <2>1, <2>2
<1>5. /\ timeBased' = timeBased /\ distanceBased' = distanceBased /\ mClientData' = mClientData
      /\ mPendingMsgs' = mPendingMsgs /\ known' = known /\ mSystemPowerState' = mSystemPowerState
      /\ owner' = owner /\ stopped' = stopped /\ waiting' = waiting /\ answer' = answer
  BY <1>1 DEF sessions, state, calls, told
<1>6. /\ r.op \in Ops /\ r.options \in R /\ r.id \in Nat /\ r.reply \in IdMsg \cup {NoReply}
      /\ r \in Elems(requests)
  BY <1>4 DEF Req
<1>7. /\ engine' = IF ok /\ r.op = "start" THEN r.options ELSE IF ok /\ r.op = "stop" THEN Off ELSE engine
      /\ engineDistance' \subseteq engineDistance \cup {r.id}
      /\ r.op # "startDistance" => engineDistance' \subseteq engineDistance
  BY <1>2 DEF Serve
<1>8. engine' \in R /\ engineDistance' \subseteq DOMAIN owner
  <2>1. r.op = "startDistance" => r.id \in DOMAIN owner
    BY <1>0, <1>6 DEF Typed
  <2> QED  BY <1>0, <1>6, <1>7, <2>1, OffIs DEF Typed
<1>9. Target' = Target
  <2> DEFINE e == IF r.op = "start" THEN r.options ELSE IF r.op = "stop" THEN Off ELSE engine
  <2>1. e = engine'
    BY <1>3, <1>7
  <2>2. TargetOf(requests, engine) = TargetOf(Tail(requests), e)
    BY <1>1, <1>4, <1>14, TargetTaken
  <2> HIDE DEF e
  <2> QED  BY <1>1, <2>1, <2>2 DEF Target
<1>10. Disjoint' /\ Postponed'
  BY <1>0, <1>5 DEF Disjoint, Postponed
<1>11. \A x \in Elems(requests') : x.op = "startDistance" => x.id \in DOMAIN owner'
  BY <1>0, <1>4, <1>5 DEF Typed
<1>12. CASE r.reply = NoReply
  <2>1. queue' = queue
    BY <1>2, <1>12
  <2>2. Typed'
    BY <1>0, <1>4, <1>5, <1>8, <1>11, <2>1 DEF Typed
  <2>3. RemovalFits'
    BY <1>0, <1>5, <2>1 DEF RemovalFits, Leaves
  <2>4. \A id : Steady(id)
    BY <1>5, <2>1 DEF Steady, Leaves, Ending
  <2>5. \A id \in Id : OneInFlight(id)'
    BY <1>0, <1>4, <1>5, <2>1 DEF FlightFits, OneInFlight
  <2>6. Flying' \subseteq Flying
    BY <1>4, <1>5, <2>1 DEF Flying
  <2>7. FlightFits'
    BY <1>0, <1>4, <2>4, <2>5, <2>6, FlightKeeps
  <2>8. EngineFits'
    <3>1. Running' <=> Running
      BY <1>5, <2>1 DEF Running, Awaits
    <3> QED  BY <1>0, <1>5, <1>9, <3>1 DEF EngineFits
  <2> QED  BY <1>10, <2>2, <2>3, <2>7, <2>8 DEF TrackIInv
<1>13. CASE r.reply # NoReply
  <2>1. PICK a \in IdMsg : a = [r.reply EXCEPT !.ok = ok]
    BY <1>3, <1>6, <1>13 DEF IdMsg
  <2>2. /\ a.kind = r.reply.kind /\ a.id = r.reply.id /\ a.options = r.reply.options /\ a.ok = ok
        /\ r.reply \in IdMsg /\ r.reply.id \in Id
    BY <1>6, <1>13, <2>1 DEF IdMsg
  <2>3. queue' = Append(queue, a)
    BY <1>2, <1>13, <2>1
  <2>4. a \in Message /\ a.kind # "engineUp" /\ \A d : a # MsgRemoveClient(d)
    BY MessagesAre DEF Message, IdKinds, CallKinds, DoneKinds
  <2>5. \A d : /\ Leaves(d)' <=> Leaves(d)
               /\ Ending(d) => Ending(d)'
               /\ AtMostOne(queue, {MsgRemoveClient(d)}) => AtMostOne(queue', {MsgRemoveClient(d)})
    BY <1>0, <1>5, <2>3, <2>4, SentSteady
  <2>6. /\ queue' \in Seq(Message) /\ Elems(queue') = Elems(queue) \cup {a}
        /\ \A A : /\ Comes(queue', A) <=> Comes(queue, A) \/ a \in A
                  /\ AtMostOne(queue', A) <=> AtMostOne(queue, A) /\ ~ (Comes(queue, A) /\ a \in A)
    <3>1. /\ Append(queue, a) \in Seq(Message) /\ Elems(Append(queue, a)) = Elems(queue) \cup {a}
          /\ \A A : /\ Comes(Append(queue, a), A) <=> Comes(queue, A) \/ a \in A
                    /\ AtMostOne(Append(queue, a), A) <=> AtMostOne(queue, A) /\ ~ (Comes(queue, A) /\ a \in A)
      BY <1>4, <2>4, Appended
    <3> QED  BY <2>3, <3>1
  <2>7. Typed'
    BY <1>0, <1>4, <1>5, <1>8, <1>11, <2>6 DEF Typed
  <2>8. RemovalFits'
    BY <1>0, <1>5, <2>5 DEF RemovalFits
  <2>9. \A id : Steady(id)
    BY <1>5, <2>5 DEF Steady
  <2>10. ASSUME NEW id \in Id PROVE OneInFlight(id)'
    <3>1. OneInFlight(id)
      BY <1>0 DEF FlightFits
    <3>2. a \in Mine(id) <=> r \in Asked(id)
      BY <1>4, <2>2 DEF Mine, Asked
    <3> QED  BY <1>4, <1>5, <2>6, <3>1, <3>2 DEF OneInFlight
  <2>11. Flying' \subseteq Flying \cup {a}
    BY <1>4, <1>5, <2>6 DEF Flying
  <2>12. MsgFits(a)'
    <3>1. MsgFits(r.reply) /\ OpFits(r)
      BY <1>0, <1>6, <2>2 DEF FlightFits, Flying
    <3>2. MsgFits(r.reply)' /\ (Awaited(r.reply) => Awaited(r.reply)')
      BY <1>0, <2>2, <2>9, <3>1, MsgSteady
    <3>3. r.reply.ok /\ r.reply.kind \in DoneKinds
      BY <3>1 DEF OpFits
    <3>4. ~ ok => /\ r.op \in {"startDistance", "stopDistance"} /\ r.op \in Fails
                  /\ r.reply.kind \notin {"stopDone", "updateDone"}
                  /\ r.reply.kind = "startDone" => InDistance(r.reply.id)' /\ Awaited(r.reply)'
                  /\ r.reply.kind \notin {"startDone", "restartDone"} => "stopDistance" \in Fails
      BY <1>3, <1>5, <1>6, <3>1, <3>2 DEF OpFits, Ops, DoneKinds, InDistance
    <3>5. CASE Awaited(r.reply)'
      <4>1. Waits(a.id)'
        BY <2>2, <3>5 DEF Awaited
      <4>2. Says(a)'
        <5>1. Says(r.reply)'
          BY <3>5 DEF Awaited
        <5>2. r.reply.kind # "clientStopDone"
          BY <5>1 DEF Says
        <5>3. ~ a.ok => \/ a.kind = "startDone" /\ InDistance(a.id)'
                        \/ a.kind = "restartDone"
                        \/ /\ a.kind \in {"distanceStopDone", "switchDone", "restartStopDone"}
                           /\ "stopDistance" \in Fails
          BY <2>2, <3>3, <3>4, <5>2 DEF DoneKinds
        <5> QED  BY <2>2, <5>1, <5>3 DEF Says
      <4> QED  BY <2>2, <3>2, <4>1, <4>2 DEF MsgFits, Awaited
    <3>6. CASE ~ Awaited(r.reply)'
      <4>1. Orphaned(r.reply)'
        BY <3>2, <3>6 DEF MsgFits
      <4>2. ~ ok => r.reply.kind = "clientStopDone" /\ "stopDistance" \in Fails
        BY <3>4, <3>6, <4>1 DEF Orphaned
      <4>3. Orphaned(a)'
        BY <2>2, <3>3, <4>1, <4>2 DEF Orphaned
      <4> QED  BY <2>2, <3>2, <4>3 DEF MsgFits
    <3> QED  BY <3>5, <3>6
  <2>13. FlightFits'
    BY <1>0, <1>4, <2>9, <2>10, <2>11, <2>12, FlightKeeps
  <2>14. EngineFits'
    <3>1. Running' <=> Running
      BY <1>0, <1>5, <2>3, <2>4, RunningSent
    <3> QED  BY <1>0, <1>5, <1>9, <3>1 DEF EngineFits
  <2> QED  BY <1>10, <2>7, <2>8, <2>13, <2>14 DEF TrackIInv
<1> QED  BY <1>12, <1>13

-----------------------------------------------------------------------------
(* The other handlers of the adapter *)

LEMMA PostponeKeeps == ASSUME TrackIInv, Postpone PROVE TrackIInv'
<1>1. PICK kind \in {"start", "update"} : Proc(kind)
  BY DEF Postpone
<1>2. /\ ~ known /\ mPendingMsgs' = Append(mPendingMsgs, Head(queue)) /\ queue' = Tail(queue)
      /\ UNCHANGED <<sessions, mClientData, known, mSystemPowerState, told, requests, modem, calls>>
  BY <1>1 DEF Postpone, TooEarly, Proc, Done
<1>3. Typed /\ FlightFits /\ RemovalFits /\ Disjoint /\ Postponed /\ EngineFits
  BY DEF TrackIInv
<1>4. PICK m \in IdMsg : m = Head(queue) /\ m.kind = kind /\ queue # <<>>
  <2>1. NextMsg(kind) /\ kind \in IdKinds
    BY <1>1 DEF Proc, IdKinds, CallKinds
  <2> QED  BY <2>1, HeadIs
<1>5. /\ timeBased' = timeBased /\ distanceBased' = distanceBased /\ mClientData' = mClientData
      /\ known' = known /\ mSystemPowerState' = mSystemPowerState /\ requests' = requests
      /\ engine' = engine /\ engineDistance' = engineDistance
      /\ owner' = owner /\ stopped' = stopped /\ waiting' = waiting /\ answer' = answer
  BY <1>2 DEF sessions, modem, calls, told
<1>6. /\ queue \in Seq(Message) /\ mPendingMsgs \in Seq(IdMsg) /\ queue' \in Seq(Message)
      /\ Elems(queue) = {m} \cup Elems(queue')
      /\ \A A : /\ Comes(queue, A) <=> m \in A \/ Comes(queue', A)
                /\ AtMostOne(queue, A) <=> AtMostOne(queue', A) /\ ~ (m \in A /\ Comes(queue', A))
  <2>1. queue \in Seq(Message) /\ mPendingMsgs \in Seq(IdMsg)
    BY <1>3 DEF Typed
  <2>2. /\ Tail(queue) \in Seq(Message) /\ Elems(queue) = {Head(queue)} \cup Elems(Tail(queue))
        /\ \A A : /\ Comes(queue, A) <=> Head(queue) \in A \/ Comes(Tail(queue), A)
                  /\ AtMostOne(queue, A) <=>
                        AtMostOne(Tail(queue), A) /\ ~ (Head(queue) \in A /\ Comes(Tail(queue), A))
    BY <1>4, <2>1, Taken
  <2> QED  BY <1>2, <1>4, <2>1, <2>2
<1>7. /\ mPendingMsgs' \in Seq(IdMsg) /\ Elems(mPendingMsgs') = Elems(mPendingMsgs) \cup {m}
      /\ \A A : /\ Comes(mPendingMsgs', A) <=> Comes(mPendingMsgs, A) \/ m \in A
                /\ AtMostOne(mPendingMsgs', A) <=>
                      AtMostOne(mPendingMsgs, A) /\ ~ (Comes(mPendingMsgs, A) /\ m \in A)
  <2>1. /\ Append(mPendingMsgs, m) \in Seq(IdMsg) /\ Elems(Append(mPendingMsgs, m)) = Elems(mPendingMsgs) \cup {m}
        /\ \A A : /\ Comes(Append(mPendingMsgs, m), A) <=> Comes(mPendingMsgs, A) \/ m \in A
                  /\ AtMostOne(Append(mPendingMsgs, m), A) <=>
                        AtMostOne(mPendingMsgs, A) /\ ~ (Comes(mPendingMsgs, A) /\ m \in A)
    <3>1. mPendingMsgs \in Seq(IdMsg)
      BY <1>6
    <3> QED  BY <3>1, Appended
  <2> QED  BY <1>2, <1>4, <2>1
<1>8. \A d : /\ Leaves(d)' <=> Leaves(d)
             /\ Ending(d) => Ending(d)'
             /\ AtMostOne(queue, {MsgRemoveClient(d)}) => AtMostOne(queue', {MsgRemoveClient(d)})
  BY <1>2, <1>3, <1>4, <1>5, TakenSteady
<1>9. Typed'
  <2>1. \A x \in Elems(mPendingMsgs') : x.kind \in {"start", "update"}
    BY <1>3, <1>4, <1>7 DEF Typed
  <2> QED  BY <1>3, <1>5, <1>6, <1>7, <2>1 DEF Typed
<1>10. FlightFits'
  <2>1. ASSUME NEW id \in Id PROVE OneInFlight(id)'
    <3>1. OneInFlight(id)
      BY <1>3 DEF FlightFits
    <3> QED  BY <1>5, <1>6, <1>7, <3>1 DEF OneInFlight
  <2>2. \A id : Steady(id)
    BY <1>5, <1>8 DEF Steady
  <2>3. Flying' \subseteq Flying
    BY <1>5, <1>6, <1>7 DEF Flying
  <2> QED  BY <1>3, <1>5, <2>1, <2>2, <2>3, FlightKeeps
<1>11. RemovalFits'
  BY <1>3, <1>5, <1>8 DEF RemovalFits
<1>12. Disjoint' /\ Postponed'
  BY <1>2, <1>3, <1>5 DEF Disjoint, Postponed
<1>13. EngineFits'
  <2>1. Running' <=> Running
    BY <1>2, <1>3, <1>4, <1>5, RunningTaken
  <2>2. Target' = Target
    BY <1>5 DEF Target
  <2> QED  BY <1>3, <1>5, <2>1, <2>2 DEF EngineFits
<1> QED  BY <1>9, <1>10, <1>11, <1>12, <1>13 DEF TrackIInv

\* A client that leaves: its message is the next one.
LEMMA LeavingIs ==
  ASSUME TrackIInv, NextMsg("removeClient")
  PROVE  /\ queue # <<>> /\ queue \in Seq(Message) /\ Tail(queue) \in Seq(Message)
         /\ \E c \in Client : /\ Head(queue) = MsgRemoveClient(c) /\ Head(queue).client = c
                              /\ Leaves(c) /\ c \in mClientData /\ ~ Comes(Tail(queue), {MsgRemoveClient(c)})
<1>1. queue \in Seq(Message) /\ queue # <<>> /\ Head(queue).kind = "removeClient"
  BY DEF TrackIInv, Typed, NextMsg
<1>2. Head(queue) \in Message /\ Tail(queue) \in Seq(Message)
  BY <1>1
<1>3. PICK c \in Client : Head(queue) = MsgRemoveClient(c)
  BY <1>1, <1>2, KindTells
<1> DEFINE A == {MsgRemoveClient(c)}
<1>4. Head(queue) \in A /\ AtMostOne(queue, A) /\ (Comes(queue, A) => c \in mClientData)
  BY <1>3 DEF TrackIInv, RemovalFits, Leaves
<1> HIDE DEF A
<1>5. Comes(queue, A) /\ ~ Comes(Tail(queue), A)
  BY <1>1, <1>4, Taken
<1> QED  BY <1>1, <1>2, <1>3, <1>4, <1>5, MessagesAre DEF Leaves, A

LEMMA OwnedIds == ASSUME Typed PROVE DOMAIN owner \subseteq Id
<1>1. owner \in Seq(Client) /\ Len(owner) <= MaxId
  BY DEF Typed
<1>2. MaxId \in Nat
  BY TrackingAssumption DEF TrackingAssumption
<1>3. DOMAIN owner = 1..Len(owner) /\ Len(owner) \in Nat
  BY <1>1
<1> QED  BY <1>1, <1>2, <1>3 DEF Id

LEMMA StopClientKeeps == ASSUME TrackIInv, Obliging, StopClientSession PROVE TrackIInv'
<1>1. NextMsg("removeClient") /\ UNCHANGED <<state, modem, calls, told, queue>>
  BY DEF StopClientSession
<1>2. PICK c \in Client : /\ Head(queue) = MsgRemoveClient(c) /\ Head(queue).client = c
                          /\ Leaves(c) /\ c \in mClientData /\ queue # <<>>
  BY <1>1, LeavingIs
<1>3. Typed /\ FlightFits /\ RemovalFits /\ Disjoint /\ Postponed /\ EngineFits
  BY DEF TrackIInv
<1>4. PICK id \in DOMAIN timeBased : owner[id] = c /\ Ask(ToStop(id)) /\ EraseTrackingSession(id)
  BY <1>2 DEF StopClientSession, OfClient
<1>5. id \in DOMAIN owner /\ id \in Id
  BY <1>3, <1>4, OwnedIds DEF Typed
<1>6. /\ mClientData' = mClientData /\ mPendingMsgs' = mPendingMsgs /\ known' = known
      /\ mSystemPowerState' = mSystemPowerState /\ engine' = engine /\ engineDistance' = engineDistance
      /\ owner' = owner /\ stopped' = stopped /\ waiting' = waiting /\ answer' = answer /\ queue' = queue
  BY <1>1 DEF state, modem, calls, told
<1>7. /\ timeBased' = Erase(timeBased, id) /\ distanceBased' = distanceBased /\ Changed(id)
      /\ id \notin DOMAIN timeBased' /\ id \notin DOMAIN distanceBased'
  BY <1>3, <1>4, EraseIs
<1> DEFINE stops == Msg("stopDone", id, Off)
           starts == Msg("startDone", id, Off)
           rs == ToStop(id)
<1>8. /\ starts \in IdMsg /\ starts.kind = "startDone" /\ starts.id = id /\ starts.ok = TRUE
      /\ stops \in IdMsg /\ stops.kind = "stopDone" /\ stops.id = id /\ stops.ok = TRUE
  BY <1>5, AnswerOff, KindsAre
<1>9. /\ rs \in Seq(Req)
      /\ OneRequest(rs, {"start"}, starts) \/ OneRequest(rs, {"stop"}, stops)
      /\ TargetOf(rs, Target) \in R /\ OnlyFor(Erase(timeBased, id), TargetOf(rs, Target))
      /\ FastFor(timeBased, Target) => FastFor(Erase(timeBased, id), TargetOf(rs, Target))
  BY <1>3, <1>5, TargetTyped, ToStopServes DEF Typed
<1>10. requests' = requests \o rs /\ requests \in Seq(Req)
  BY <1>3, <1>4 DEF Ask, Typed
<1> HIDE DEF stops, starts, rs
<1>11. /\ \A r \in Elems(rs) : \/ r.op = "start" /\ r.reply = starts
                               \/ r.op = "stop" /\ r.reply = stops
       /\ \A A : AtMostOne(rs, A)
  BY <1>9, OneIs
<1>12. /\ requests' \in Seq(Req) /\ Elems(requests') = Elems(requests) \cup Elems(rs)
       /\ \A A : /\ Comes(requests', A) <=> Comes(requests, A) \/ Comes(rs, A)
                 /\ AtMostOne(requests', A) <=> /\ AtMostOne(requests, A) /\ AtMostOne(rs, A)
                                                /\ ~ (Comes(requests, A) /\ Comes(rs, A))
  BY <1>9, <1>10, Joined
<1>13. \A m \in Flying : m.id # id
  <2> SUFFICES ASSUME NEW m \in Flying, m.id = id PROVE FALSE
    OBVIOUS
  <2>1. MsgFits(m)
    BY <1>3 DEF FlightFits
  <2> QED  BY <1>2, <1>4, <2>1 DEF MsgFits, Awaited, Waits, Orphaned, InTime
<1>14. ~ Comes(queue, Mine(id)) /\ ~ Comes(mPendingMsgs, Mine(id)) /\ ~ Comes(requests, Asked(id))
  BY <1>3, <1>13, NoneFlies
<1>15. ASSUME NEW j \in Id PROVE OneInFlight(j)'
  <2>1. OneInFlight(j)
    BY <1>3 DEF FlightFits
  <2>2. j # id => ~ Comes(rs, Asked(j))
    <3>1. \A r \in Elems(rs) : r \in Asked(j) => j = id
      BY <1>8, <1>11 DEF Asked, Mine
    <3> QED  BY <3>1, ComesIn
  <2>3. AtMostOne(requests', Asked(j)) /\ (Comes(requests', Asked(j)) => Comes(requests, Asked(j)) \/ j = id)
    BY <1>11, <1>12, <1>14, <2>1, <2>2 DEF OneInFlight
  <2> QED  BY <1>6, <1>14, <2>1, <2>3 DEF OneInFlight
<1>16. ASSUME NEW j, j # id PROVE Steady(j)
  BY <1>6, <1>7, <1>16 DEF Steady, Changed, Leaves, Ending
<1>17. ASSUME NEW m \in {starts, stops} PROVE MsgFits(m)'
  <2>1. Ending(owner[m.id])'
    BY <1>2, <1>4, <1>6, <1>8 DEF Ending
  <2> QED  BY <1>5, <1>6, <1>7, <1>8, <2>1 DEF MsgFits, Orphaned, InTime, InDistance
<1>18. FlightFits'
  <2>1. ASSUME NEW m \in Flying' PROVE (m \in Flying /\ Steady(m.id)) \/ MsgFits(m)'
    <3>1. m \in Flying \/ \E r \in Elems(rs) : m = r.reply
      BY <1>6, <1>12 DEF Flying
    <3> QED  BY <1>11, <1>13, <1>16, <1>17, <3>1
  <2>2. ASSUME NEW r \in Elems(requests'), r.reply \in IdMsg
        PROVE  (r \in Elems(requests) /\ Steady(r.reply.id)) \/ OpFits(r)'
    <3>1. CASE r \in Elems(requests)
      BY <1>13, <1>16, <2>2, <3>1 DEF Flying
    <3>2. CASE r \in Elems(rs)
      BY <1>8, <1>11, <3>2 DEF OpFits, DoneKinds
    <3> QED  BY <1>12, <3>1, <3>2
  <2> QED  BY <1>3, <1>15, <2>1, <2>2, FlightKeeps
<1>19. Typed'
  <2>1. \A r \in Elems(requests') : r.op = "startDistance" => r.id \in DOMAIN owner
    BY <1>3, <1>11, <1>12 DEF Typed
  <2>2. /\ SessionMap(timeBased') /\ SessionMap(distanceBased')
        /\ DOMAIN timeBased' \subseteq DOMAIN owner /\ DOMAIN distanceBased' \subseteq DOMAIN owner
    BY <1>3, <1>5, <1>7 DEF Typed, Changed
  <2> QED  BY <1>3, <1>6, <1>12, <2>1, <2>2 DEF Typed
<1>20. RemovalFits' /\ Disjoint' /\ Postponed'
  BY <1>3, <1>6, <1>7 DEF RemovalFits, Leaves, Disjoint, Postponed, Changed
<1>21. EngineFits'
  <2>1. Target' = TargetOf(rs, Target)
    <3>1. TargetOf(requests \o rs, engine) = TargetOf(rs, TargetOf(requests, engine))
      BY <1>9, <1>10, TargetJoined
    <3> QED  BY <1>6, <1>10, <3>1 DEF Target
  <2>2. Running' <=> Running
    BY <1>6 DEF Running, Awaits
  <2> QED  BY <1>3, <1>7, <1>9, <2>1, <2>2 DEF EngineFits
<1> QED  BY <1>18, <1>19, <1>20, <1>21 DEF TrackIInv

\* The stops of the distance based sessions of a client.
LEMMA ClientStops ==
  ASSUME NEW D, IsFiniteSet(D), D \subseteq Id, NEW t
  PROVE  LET ids == SetToSeq(D)
             rs == [i \in 1..Len(ids) |-> Request("stopDistance", ids[i], Off, Msg("clientStopDone", ids[i], Off))]
         IN  /\ rs \in Seq(Req) /\ TargetOf(rs, t) = t
             /\ \A r \in Elems(rs) : /\ r.op = "stopDistance" /\ r.reply \in IdMsg /\ r.reply.id \in D
                                     /\ r.reply.kind = "clientStopDone" /\ r.reply.ok = TRUE
             /\ \A id \in Id : AtMostOne(rs, Asked(id))
             /\ \A id \in D : \E r \in Elems(rs) : r.reply.id = id
<1> DEFINE ids == SetToSeq(D)
           n == Len(ids)
           rs == [i \in 1..n |-> Request("stopDistance", ids[i], Off, Msg("clientStopDone", ids[i], Off))]
<1>1. /\ n \in Nat /\ (\A i \in 1..n : ids[i] \in D) /\ \A i, j \in 1..n : ids[i] = ids[j] => i = j
      /\ \A x \in D : \E i \in 1..n : ids[i] = x
  BY SeqOfSet
<1> HIDE DEF ids, n
<1>2. ASSUME NEW i \in 1..n
      PROVE  /\ rs[i] \in Req /\ rs[i].op = "stopDistance" /\ rs[i].reply \in IdMsg
             /\ rs[i].reply.id = ids[i] /\ rs[i].reply.id \in D /\ rs[i].reply.kind = "clientStopDone" /\ rs[i].reply.ok = TRUE
  <2>1. PICK id \in Id : id = ids[i] /\ id \in Nat /\ id \in D
    BY <1>1, IdsAre
  <2> DEFINE reply == Msg("clientStopDone", id, Off)
  <2>2. reply \in IdMsg /\ reply.id = id /\ reply.kind = "clientStopDone" /\ reply.ok = TRUE
    BY AnswerOff, KindsAre
  <2>3. rs[i] = Request("stopDistance", id, Off, reply)
    BY <2>1
  <2> HIDE DEF reply, rs
  <2>4. rs[i] \in Req /\ rs[i].op = "stopDistance" /\ rs[i].reply = reply
    BY <2>1, <2>2, <2>3, RequestIs, OffIs DEF Ops
  <2> QED  BY <2>1, <2>2, <2>4
<1>3. rs \in Seq(Req) /\ Len(rs) = n
  <2>1. rs \in [1..n -> Req]
    BY <1>2
  <2> QED  BY <1>1, <2>1
<1> HIDE DEF rs
<1>4. TargetOf(rs, t) = t
  BY <1>2, <1>3, TargetOfNone
<1>5. \A r \in Elems(rs) : /\ r.op = "stopDistance" /\ r.reply \in IdMsg /\ r.reply.id \in D
                           /\ r.reply.kind = "clientStopDone" /\ r.reply.ok = TRUE
  BY <1>2, <1>3 DEF Elems
<1>6. ASSUME NEW id \in Id, NEW i \in 1..n, NEW j \in 1..n, rs[i] \in Asked(id), rs[j] \in Asked(id) PROVE i = j
  <2>1. ids[i] = id /\ ids[j] = id
    BY <1>2, <1>6 DEF Asked, Mine
  <2> QED  BY <1>1, <2>1
<1>7. \A id \in Id : AtMostOne(rs, Asked(id))
  BY <1>3, <1>6 DEF AtMostOne
<1>8. ASSUME NEW id \in D PROVE \E r \in Elems(rs) : r.reply.id = id
  <2>1. PICK i \in 1..n : ids[i] = id
    BY <1>1
  <2>2. rs[i] \in Elems(rs)
    BY <1>3 DEF Elems
  <2>3. rs[i].reply.id = id
    BY <1>2, <2>1
  <2> QED  BY <2>2, <2>3
<1> QED  BY <1>3, <1>4, <1>5, <1>7, <1>8 DEF rs, n, ids

LEMMA IdsFinite == ASSUME Typed PROVE IsFiniteSet(DOMAIN timeBased) /\ IsFiniteSet(DOMAIN distanceBased)
<1>1. Len(owner) \in Nat /\ DOMAIN owner = 1..Len(owner)
  BY DEF Typed
<1>2. IsFiniteSet(DOMAIN owner)
  <2>1. IsFiniteSet(1..Len(owner))
    BY <1>1, FS_Interval
  <2> QED  BY <1>1, <2>1
<1> QED  BY <1>2, FS_Subset DEF Typed

LEMMA EraseClientKeeps == ASSUME TrackIInv, Obliging, EraseClient PROVE TrackIInv'
<1>1. Proc("removeClient") /\ OfClient(timeBased) = {}
  BY DEF EraseClient
<1>2. NextMsg("removeClient") /\ queue' = Tail(queue)
  BY <1>1 DEF Proc, Done
<1>3. PICK c \in Client : /\ Head(queue) = MsgRemoveClient(c) /\ Head(queue).client = c
                          /\ Leaves(c) /\ c \in mClientData /\ ~ Comes(Tail(queue), {MsgRemoveClient(c)})
  BY <1>2, LeavingIs
<1>4. Typed /\ FlightFits /\ RemovalFits /\ Disjoint /\ Postponed /\ EngineFits
  BY DEF TrackIInv
<1> DEFINE D == OfClient(distanceBased)
           ids == SetToSeq(D)
           rs == [i \in 1..Len(ids) |-> Request("stopDistance", ids[i], Off, Msg("clientStopDone", ids[i], Off))]
<1>5. /\ mClientData' = mClientData \ {c} /\ mPendingMsgs' = mPendingMsgs /\ known' = known
      /\ mSystemPowerState' = mSystemPowerState /\ engine' = engine /\ engineDistance' = engineDistance
      /\ timeBased' = timeBased /\ distanceBased' = distanceBased
      /\ owner' = owner /\ stopped' = stopped /\ waiting' = waiting /\ answer' = answer
      /\ requests' = requests \o rs
  BY <1>1, <1>3 DEF EraseClient, Ask, Proc, modem, calls, told, sessions
<1>6. D \subseteq DOMAIN distanceBased /\ D \subseteq Id /\ IsFiniteSet(D) /\ D \subseteq DOMAIN owner
      /\ \A id \in D : owner[id] = c /\ InDistance(id) /\ ~ InTime(id)
  <2>1. D \subseteq DOMAIN distanceBased /\ \A id \in D : owner[id] = c
    BY <1>3 DEF OfClient
  <2>2. D \subseteq DOMAIN owner /\ D \subseteq Id
    BY <1>4, <2>1, OwnedIds DEF Typed
  <2>3. IsFiniteSet(D)
    BY <1>4, <2>1, IdsFinite, FS_Subset
  <2> QED  BY <1>4, <2>1, <2>2, <2>3 DEF InDistance, InTime, Disjoint
<1> HIDE DEF D
<1>7. /\ rs \in Seq(Req) /\ TargetOf(rs, Target) = Target
      /\ \A r \in Elems(rs) : /\ r.op = "stopDistance" /\ r.reply \in IdMsg /\ r.reply.id \in D
                              /\ r.reply.kind = "clientStopDone" /\ r.reply.ok = TRUE
      /\ \A id \in Id : AtMostOne(rs, Asked(id))
  BY <1>6, ClientStops
<1> HIDE DEF ids, rs
<1>8. /\ requests \in Seq(Req)
      /\ requests' \in Seq(Req) /\ Elems(requests') = Elems(requests) \cup Elems(rs)
      /\ \A A : /\ Comes(requests', A) <=> Comes(requests, A) \/ Comes(rs, A)
                /\ AtMostOne(requests', A) <=> /\ AtMostOne(requests, A) /\ AtMostOne(rs, A)
                                               /\ ~ (Comes(requests, A) /\ Comes(rs, A))
  <2>1. requests \in Seq(Req)
    BY <1>4 DEF Typed
  <2> QED  BY <1>5, <1>7, <2>1, Joined
<1>9. /\ queue \in Seq(Message) /\ queue # <<>> /\ queue' \in Seq(Message)
      /\ Elems(queue) = {Head(queue)} \cup Elems(queue')
      /\ \A A : /\ Comes(queue, A) <=> Head(queue) \in A \/ Comes(queue', A)
                /\ AtMostOne(queue, A) <=> AtMostOne(queue', A) /\ ~ (Head(queue) \in A /\ Comes(queue', A))
  <2>1. queue \in Seq(Message) /\ queue # <<>>
    BY <1>2, LeavingIs
  <2> QED  BY <1>2, <2>1, Taken
<1>10. Head(queue) \notin IdMsg /\ Head(queue).kind # "engineUp" /\ \A d : Head(queue) = MsgRemoveClient(d) <=> d = c
  BY <1>3, MessagesAre
<1>11. \A d : /\ d # c => (Leaves(d)' <=> Leaves(d))
              /\ AtMostOne(queue, {MsgRemoveClient(d)}) => AtMostOne(queue', {MsgRemoveClient(d)})
              /\ Ending(d) => d \notin mClientData'
  <2> SUFFICES ASSUME NEW d
               PROVE  /\ d # c => (Leaves(d)' <=> Leaves(d))
                      /\ AtMostOne(queue, {MsgRemoveClient(d)}) => AtMostOne(queue', {MsgRemoveClient(d)})
                      /\ Ending(d) => d \notin mClientData'
    OBVIOUS
  <2> DEFINE A == {MsgRemoveClient(d)}
  <2>1. Head(queue) \in A <=> d = c
    BY <1>10
  <2> HIDE DEF A
  <2>2. d # c => (Comes(queue', A) <=> Comes(queue, A))
    BY <1>9, <2>1
  <2>3. AtMostOne(queue, A) => AtMostOne(queue', A)
    BY <1>9
  <2>4. Ending(d) => d \notin mClientData'
    BY <1>5, <1>10 DEF Ending
  <2> QED  BY <2>2, <2>3, <2>4 DEF A, Leaves
<1>12. ~ Leaves(c)'
  BY <1>2, <1>3 DEF Leaves
<1>13. \A m \in Flying : m.id \notin D
  <2> SUFFICES ASSUME NEW m \in Flying, m.id \in D PROVE FALSE
    OBVIOUS
  <2>1. MsgFits(m) /\ owner[m.id] = c /\ InDistance(m.id)
    BY <1>4, <1>6 DEF FlightFits
  <2> QED  BY <1>3, <2>1 DEF MsgFits, Awaited, Waits, Orphaned
<1>14. ASSUME NEW id PROVE Steady(id)
  <2>1. ASSUME NEW d \in Client
        PROVE  /\ d \in mClientData /\ ~ Leaves(d) => d \in mClientData' /\ ~ Leaves(d)'
               /\ Ending(d) => Ending(d)'
               /\ d \notin mClientData => d \notin mClientData'
    BY <1>3, <1>5, <1>11 DEF Ending
  <2> QED  BY <1>5, <2>1 DEF Steady
<1>15. ASSUME NEW id \in Id PROVE OneInFlight(id)'
  <2>1. OneInFlight(id)
    BY <1>4 DEF FlightFits
  <2>2. Head(queue) \notin Mine(id)
    BY <1>10 DEF Mine
  <2>3. id \notin D => ~ Comes(rs, Asked(id))
    <3>1. \A r \in Elems(rs) : r \in Asked(id) => id \in D
      BY <1>7 DEF Asked, Mine
    <3> QED  BY <3>1, ComesIn
  <2>4. id \in D => ~ Comes(queue, Mine(id)) /\ ~ Comes(mPendingMsgs, Mine(id)) /\ ~ Comes(requests, Asked(id))
    BY <1>4, <1>13, NoneFlies
  <2>5. AtMostOne(requests', Asked(id))
    BY <1>7, <1>8, <2>1, <2>3, <2>4 DEF OneInFlight
  <2>6. Comes(queue', Mine(id)) <=> Comes(queue, Mine(id))
    BY <1>9, <2>2
  <2>7. AtMostOne(queue', Mine(id))
    BY <1>9, <2>1 DEF OneInFlight
  <2>8. Comes(requests', Asked(id)) => Comes(requests, Asked(id)) \/ id \in D
    BY <1>8, <2>3
  <2> QED  BY <1>5, <2>1, <2>4, <2>5, <2>6, <2>7, <2>8 DEF OneInFlight
<1>16. ASSUME NEW r \in Elems(rs) PROVE MsgFits(r.reply)' /\ OpFits(r)'
  <2>1. PICK m \in IdMsg : m = r.reply /\ m.id \in D /\ m.kind = "clientStopDone" /\ m.ok = TRUE
    BY <1>7
  <2>2. owner'[m.id] = c /\ m.id \in DOMAIN owner' /\ InDistance(m.id)' /\ ~ InTime(m.id)'
    BY <1>5, <1>6, <2>1 DEF InDistance, InTime
  <2>3. c \notin mClientData'
    BY <1>5
  <2>4. Orphaned(m)'
    BY <2>1, <2>2, <2>3 DEF Orphaned, Ending
  <2>5. MsgFits(m)'
    BY <2>2, <2>4 DEF MsgFits
  <2>6. OpFits(r)'
    BY <1>7, <2>1 DEF OpFits, DoneKinds
  <2> QED  BY <2>1, <2>5, <2>6
<1>17. FlightFits'
  <2>1. ASSUME NEW m \in Flying' PROVE (m \in Flying /\ Steady(m.id)) \/ MsgFits(m)'
    <3>1. m \in Flying \/ \E r \in Elems(rs) : m = r.reply
      BY <1>5, <1>8, <1>9 DEF Flying
    <3> QED  BY <1>14, <1>16, <3>1
  <2>2. ASSUME NEW r \in Elems(requests'), r.reply \in IdMsg
        PROVE  (r \in Elems(requests) /\ Steady(r.reply.id)) \/ OpFits(r)'
    BY <1>8, <1>14, <1>16, <2>2
  <2> QED  BY <1>4, <1>15, <2>1, <2>2, FlightKeeps
<1>18. Typed'
  <2>1. \A r \in Elems(requests') : r.op = "startDistance" => r.id \in DOMAIN owner
    BY <1>4, <1>7, <1>8 DEF Typed
  <2> QED  BY <1>4, <1>5, <1>8, <1>9, <2>1 DEF Typed
<1>19. RemovalFits'
  BY <1>4, <1>5, <1>11, <1>12 DEF RemovalFits
<1>20. Disjoint' /\ Postponed'
  BY <1>4, <1>5 DEF Disjoint, Postponed
<1>21. EngineFits'
  <2>1. Target' = Target
    <3>1. TargetOf(requests \o rs, engine) = TargetOf(rs, TargetOf(requests, engine))
      BY <1>7, <1>8, TargetJoined
    <3> QED  BY <1>5, <1>7, <3>1 DEF Target
  <2>2. Running' <=> Running
    BY <1>2, <1>4, <1>5, <1>9, <1>10, RunningTaken
  <2> QED  BY <1>4, <1>5, <2>1, <2>2 DEF EngineFits
<1> QED  BY <1>17, <1>18, <1>19, <1>20, <1>21 DEF TrackIInv

\* A message about the whole adapter is handled: w are the postponed messages it brings back.
LEMMA PlainKeeps ==
  ASSUME TrackIInv, queue # <<>>, Head(queue) \in PlainMsg,
         NEW w \in Seq(IdMsg), queue' = Tail(queue) \o w, mPendingMsgs' \in Seq(IdMsg),
         Elems(mPendingMsgs) = Elems(w) \cup Elems(mPendingMsgs'),
         \A A : /\ Comes(mPendingMsgs, A) <=> Comes(w, A) \/ Comes(mPendingMsgs', A)
                /\ AtMostOne(mPendingMsgs, A) <=> /\ AtMostOne(w, A) /\ AtMostOne(mPendingMsgs', A)
                                                  /\ ~ (Comes(w, A) /\ Comes(mPendingMsgs', A)),
         NEW rs \in Seq(Req), Plain(rs), requests' = requests \o rs,
         UNCHANGED <<sessions, mClientData, modem, calls, told>>,
         known' \in BOOLEAN, mSystemPowerState' \in {"unknown", "suspend", "resume"}, Postponed',
         NEW u \in R, TargetOf(rs, Target) = u, OnlyFor(timeBased, u), Running' => FastFor(timeBased, u)
  PROVE  TrackIInv'
<1>1. Typed /\ FlightFits /\ RemovalFits /\ Disjoint /\ EngineFits
  BY DEF TrackIInv
<1>2. /\ timeBased' = timeBased /\ distanceBased' = distanceBased /\ mClientData' = mClientData
      /\ engine' = engine /\ engineDistance' = engineDistance
      /\ owner' = owner /\ stopped' = stopped /\ waiting' = waiting /\ answer' = answer
  BY DEF sessions, modem, calls, told
<1>3. Head(queue) \notin IdMsg /\ \A c : Head(queue) # MsgRemoveClient(c)
  BY MessagesAre
<1> DEFINE t == Tail(queue)
<1>4. /\ queue \in Seq(Message) /\ t \in Seq(Message) /\ Elems(queue) = {Head(queue)} \cup Elems(t)
      /\ \A A : /\ Comes(queue, A) <=> Head(queue) \in A \/ Comes(t, A)
                /\ AtMostOne(queue, A) <=> AtMostOne(t, A) /\ ~ (Head(queue) \in A /\ Comes(t, A))
  <2>1. queue \in Seq(Message) /\ queue # <<>>
    BY <1>1 DEF Typed
  <2> QED  BY <2>1, Taken
<1>5. w \in Seq(Message) /\ \A c : ~ Comes(w, {MsgRemoveClient(c)}) /\ AtMostOne(w, {MsgRemoveClient(c)})
  <2>1. w \in Seq(Message) /\ \A i \in 1..Len(w) : w[i] \in IdMsg
    BY DEF Message
  <2> QED  BY <2>1, MessagesAre DEF Comes, AtMostOne
<1> HIDE DEF t
<1>6. /\ queue' \in Seq(Message) /\ Elems(queue') = Elems(t) \cup Elems(w)
      /\ \A A : /\ Comes(queue', A) <=> Comes(t, A) \/ Comes(w, A)
                /\ AtMostOne(queue', A) <=> AtMostOne(t, A) /\ AtMostOne(w, A) /\ ~ (Comes(t, A) /\ Comes(w, A))
  <2>1. /\ t \o w \in Seq(Message) /\ Elems(t \o w) = Elems(t) \cup Elems(w)
        /\ \A A : /\ Comes(t \o w, A) <=> Comes(t, A) \/ Comes(w, A)
                  /\ AtMostOne(t \o w, A) <=> AtMostOne(t, A) /\ AtMostOne(w, A) /\ ~ (Comes(t, A) /\ Comes(w, A))
    BY <1>4, <1>5, Joined
  <2>2. queue' = t \o w
    BY DEF t
  <2> QED  BY <2>1, <2>2
<1>7. /\ requests' \in Seq(Req) /\ requests \in Seq(Req) /\ Elems(requests') = Elems(requests) \cup Elems(rs)
      /\ \A A : /\ Comes(requests', A) <=> Comes(requests, A) \/ Comes(rs, A)
                /\ AtMostOne(requests', A) <=> /\ AtMostOne(requests, A) /\ AtMostOne(rs, A)
                                               /\ ~ (Comes(requests, A) /\ Comes(rs, A))
  <2>1. requests \in Seq(Req)
    BY <1>1 DEF Typed
  <2> QED  BY <2>1, Joined
<1>8. /\ \A r \in Elems(rs) : r.reply \notin IdMsg /\ (r.op = "startDistance" => r.id \in DOMAIN distanceBased)
      /\ \A id : ~ Comes(rs, Asked(id)) /\ AtMostOne(rs, Asked(id))
  <2>1. \A r \in Elems(rs) : r.reply \notin IdMsg /\ (r.op = "startDistance" => r.id \in DOMAIN distanceBased)
    BY MessagesAre DEF Plain
  <2>2. \A id : \A r \in Elems(rs) : r \notin Asked(id)
    BY <2>1 DEF Asked, Mine
  <2>3. \A id : ~ Comes(rs, Asked(id))
    BY <2>2, ComesIn
  <2> QED  BY <2>1, <2>3 DEF Comes, AtMostOne
<1>9. \A c : /\ Leaves(c)' <=> Leaves(c)
             /\ Ending(c) => Ending(c)'
             /\ AtMostOne(queue, {MsgRemoveClient(c)}) => AtMostOne(queue', {MsgRemoveClient(c)})
  <2> SUFFICES ASSUME NEW c
               PROVE  /\ Leaves(c)' <=> Leaves(c)
                      /\ Ending(c) => Ending(c)'
                      /\ AtMostOne(queue, {MsgRemoveClient(c)}) => AtMostOne(queue', {MsgRemoveClient(c)})
    OBVIOUS
  <2> DEFINE A == {MsgRemoveClient(c)}
  <2>1. Head(queue) \notin A /\ ~ Comes(w, A) /\ AtMostOne(w, A)
    BY <1>3, <1>5
  <2>2. Ending(c) => Ending(c)'
    BY <1>2, <1>3 DEF Ending
  <2> HIDE DEF A
  <2>3. (Comes(queue', A) <=> Comes(queue, A)) /\ (AtMostOne(queue, A) => AtMostOne(queue', A))
    BY <1>4, <1>6, <2>1
  <2> QED  BY <2>2, <2>3 DEF A, Leaves
<1>10. ASSUME NEW id \in Id PROVE OneInFlight(id)'
  <2>1. OneInFlight(id)
    BY <1>1 DEF FlightFits
  <2>2. Head(queue) \notin Mine(id)
    BY <1>3 DEF Mine
  <2>3. /\ Comes(requests', Asked(id)) <=> Comes(requests, Asked(id))
        /\ AtMostOne(requests', Asked(id)) <=> AtMostOne(requests, Asked(id))
    BY <1>7, <1>8
  <2>4. /\ Comes(queue', Mine(id)) <=> Comes(queue, Mine(id)) \/ Comes(w, Mine(id))
        /\ AtMostOne(queue', Mine(id)) <=> /\ AtMostOne(queue, Mine(id)) /\ AtMostOne(w, Mine(id))
                                           /\ ~ (Comes(queue, Mine(id)) /\ Comes(w, Mine(id)))
    BY <1>4, <1>6, <2>2
  <2> QED  BY <2>1, <2>3, <2>4 DEF OneInFlight
<1>11. \A id : Steady(id)
  BY <1>2, <1>9 DEF Steady
<1>12. FlightFits'
  <2>1. Flying' \subseteq Flying
    BY <1>4, <1>6, <1>7, <1>8 DEF Flying
  <2> QED  BY <1>1, <1>7, <1>8, <1>10, <1>11, <2>1, FlightKeeps
<1>13. Typed'
  <2>1. \A r \in Elems(requests') : r.op = "startDistance" => r.id \in DOMAIN owner
    BY <1>1, <1>7, <1>8 DEF Typed
  <2>2. \A m \in Elems(mPendingMsgs') : m.kind \in {"start", "update"}
    BY <1>1 DEF Typed
  <2> QED  BY <1>1, <1>2, <1>6, <1>7, <2>1, <2>2 DEF Typed
<1>14. RemovalFits' /\ Disjoint'
  BY <1>1, <1>2, <1>9 DEF RemovalFits, Disjoint
<1>15. EngineFits'
  <2>1. TargetOf(requests \o rs, engine) = TargetOf(rs, TargetOf(requests, engine))
    BY <1>7, TargetJoined
  <2>2. Target' = u
    BY <1>2, <2>1 DEF Target
  <2> QED  BY <1>2, <2>2 DEF EngineFits
<1> QED  BY <1>12, <1>13, <1>14, <1>15 DEF TrackIInv

LEMMA PowerKeeps == ASSUME TrackIInv, ProcUpdatePowerState PROVE TrackIInv'
<1>1. PICK power \in {"suspend", "resume"} :
        /\ Proc(power) /\ mSystemPowerState' = power /\ Ask(ToSetPower(power))
        /\ UNCHANGED <<sessions, mClientData, mPendingMsgs, known, told>>
  BY DEF ProcUpdatePowerState
<1> DEFINE rs == ToSetPower(power)
<1>2. /\ queue # <<>> /\ Head(queue).kind = power /\ queue' = Tail(queue)
      /\ UNCHANGED <<sessions, mClientData, modem, calls, told>>
      /\ mPendingMsgs' = mPendingMsgs /\ known' = known /\ requests' = requests \o rs
  BY <1>1 DEF Proc, NextMsg, Done, Ask
<1>3. Typed /\ Postponed /\ EngineFits
  BY DEF TrackIInv
<1>4. queue \in Seq(Message) /\ Head(queue) \in PlainMsg /\ Tail(queue) \in Seq(Message)
  <2>1. queue \in Seq(Message)
    BY <1>3 DEF Typed
  <2>2. Head(queue) \in Message /\ Tail(queue) \in Seq(Message)
    BY <1>2, <2>1
  <2> QED  BY <1>2, <2>1, <2>2, KindTells
<1>5. SessionMap(timeBased) /\ IsFiniteSet(DOMAIN distanceBased) /\ DOMAIN distanceBased \subseteq Nat /\ Target \in R
  BY <1>3, IdsFinite, TargetTyped DEF Typed, SessionMap
<1>6. PICK u \in R : TargetOf(rs, Target) = u
  BY <1>5, ToSetPowerServes
<1>7. /\ rs \in Seq(Req) /\ Plain(rs) /\ (OnlyFor(timeBased, Target) => OnlyFor(timeBased, u))
      /\ power = "resume" => FastFor(timeBased, u)
  BY <1>5, <1>6, ToSetPowerServes
<1> HIDE DEF rs
<1>8. OnlyFor(timeBased, u)
  BY <1>3, <1>7 DEF EngineFits
<1>9. Running' => FastFor(timeBased, u)
  BY <1>1, <1>7 DEF Running
<1>10. queue' = Tail(queue) \o <<>> /\ <<>> \in Seq(IdMsg)
  BY <1>2, <1>4
<1>11. Elems(<<>>) = {} /\ \A A : ~ Comes(<<>>, A) /\ AtMostOne(<<>>, A)
  BY Single
<1>12. /\ Elems(mPendingMsgs) = Elems(<<>>) \cup Elems(mPendingMsgs')
       /\ \A A : /\ Comes(mPendingMsgs, A) <=> Comes(<<>>, A) \/ Comes(mPendingMsgs', A)
                 /\ AtMostOne(mPendingMsgs, A) <=> /\ AtMostOne(<<>>, A) /\ AtMostOne(mPendingMsgs', A)
                                                   /\ ~ (Comes(<<>>, A) /\ Comes(mPendingMsgs', A))
  BY <1>2, <1>11
<1>13. /\ known' \in BOOLEAN /\ mSystemPowerState' \in {"unknown", "suspend", "resume"} /\ Postponed'
       /\ mPendingMsgs' \in Seq(IdMsg)
  BY <1>1, <1>2, <1>3 DEF Typed, Postponed
<1> QED  BY <1>2, <1>4, <1>6, <1>7, <1>8, <1>9, <1>10, <1>12, <1>13, PlainKeeps

LEMMA EngineUpHandledKeeps == ASSUME TrackIInv, ProcEngineUp PROVE TrackIInv'
<1> DEFINE power == mSystemPowerState
           first == ToSetPower(power)
           more == IF power = "suspend" THEN <<>> ELSE ToRestart
           rs == first \o more
<1>1. /\ queue # <<>> /\ Head(queue).kind = "engineUp" /\ queue' = Tail(queue) \o mPendingMsgs
      /\ known' = TRUE /\ mPendingMsgs' = <<>> /\ mSystemPowerState' = power
      /\ requests' = requests \o rs
      /\ UNCHANGED <<sessions, mClientData, modem, calls, told>>
  BY DEF ProcEngineUp, NextMsg, Ask
<1>2. Typed /\ EngineFits
  BY DEF TrackIInv
<1>3. queue \in Seq(Message) /\ Head(queue) \in PlainMsg /\ mPendingMsgs \in Seq(IdMsg)
  <2>1. queue \in Seq(Message) /\ mPendingMsgs \in Seq(IdMsg)
    BY <1>2 DEF Typed
  <2>2. Head(queue) \in Message
    BY <1>1, <2>1
  <2> QED  BY <1>1, <2>1, <2>2, KindTells
<1>4. SessionMap(timeBased) /\ IsFiniteSet(DOMAIN distanceBased) /\ DOMAIN distanceBased \subseteq Nat /\ Target \in R
  BY <1>2, IdsFinite, TargetTyped DEF Typed, SessionMap
<1>5. PICK v \in R : TargetOf(first, Target) = v
  BY <1>4, ToSetPowerServes
<1>6. /\ first \in Seq(Req) /\ Plain(first) /\ (OnlyFor(timeBased, Target) => OnlyFor(timeBased, v))
  BY <1>4, <1>5, ToSetPowerServes
<1>7. PICK u \in R : TargetOf(more, v) = u
  <2>1. CASE power = "suspend"
    BY <2>1, NoRequest
  <2>2. CASE power # "suspend"
    BY <1>4, <2>2, ToRestartServes
  <2> QED  BY <2>1, <2>2
<1>8. /\ more \in Seq(Req) /\ Plain(more) /\ (OnlyFor(timeBased, v) => OnlyFor(timeBased, u))
      /\ power # "suspend" => FastFor(timeBased, u)
  <2>1. CASE power = "suspend"
    <3>1. more = <<>> /\ Plain(<<>>)
      BY <2>1, Single DEF Plain
    <3> QED  BY <1>7, <2>1, <3>1, NoRequest
  <2>2. CASE power # "suspend"
    <3>1. more = ToRestart
      BY <2>2
    <3> QED  BY <1>4, <1>7, <3>1, ToRestartServes
  <2> QED  BY <2>1, <2>2
<1> HIDE DEF first, more
<1>9. /\ rs \in Seq(Req) /\ Elems(rs) = Elems(first) \cup Elems(more)
      /\ TargetOf(rs, Target) = u
  <2>1. TargetOf(rs, Target) = TargetOf(more, TargetOf(first, Target))
    BY <1>6, <1>8, TargetJoined
  <2> QED  BY <1>5, <1>6, <1>7, <1>8, <2>1, Joined
<1> HIDE DEF rs
<1>10. Plain(rs)
  BY <1>6, <1>8, <1>9 DEF Plain
<1>11. OnlyFor(timeBased, u)
  BY <1>2, <1>6, <1>8 DEF EngineFits
<1>12. Running' => FastFor(timeBased, u)
  BY <1>1, <1>8 DEF Running
<1>13. Elems(<<>>) = {} /\ \A A : ~ Comes(<<>>, A) /\ AtMostOne(<<>>, A)
  BY Single
<1>14. /\ Elems(mPendingMsgs) = Elems(mPendingMsgs) \cup Elems(mPendingMsgs')
       /\ \A A : /\ Comes(mPendingMsgs, A) <=> Comes(mPendingMsgs, A) \/ Comes(mPendingMsgs', A)
                 /\ AtMostOne(mPendingMsgs, A) <=> /\ AtMostOne(mPendingMsgs, A) /\ AtMostOne(mPendingMsgs', A)
                                                   /\ ~ (Comes(mPendingMsgs, A) /\ Comes(mPendingMsgs', A))
  BY <1>1, <1>13
<1>15. /\ known' \in BOOLEAN /\ mSystemPowerState' \in {"unknown", "suspend", "resume"} /\ Postponed'
       /\ mPendingMsgs' \in Seq(IdMsg)
  BY <1>1, <1>2 DEF Typed, Postponed
<1> QED  BY <1>1, <1>3, <1>9, <1>10, <1>11, <1>12, <1>14, <1>15, PlainKeeps

-----------------------------------------------------------------------------
(* Every step *)

LEMMA TrackInit == ASSUME Init PROVE TrackIInv
<1>1. /\ mClientData = Client /\ timeBased = [id \in {} |-> Off] /\ distanceBased = [id \in {} |-> Off]
      /\ queue = <<>> /\ mPendingMsgs = <<>> /\ known = FALSE /\ mSystemPowerState = "unknown"
      /\ requests = <<>> /\ engine = Off /\ engineDistance = {} /\ owner = <<>> /\ stopped = {}
      /\ waiting = {} /\ answer = [id \in Id |-> "nothing"]
  BY DEF Init
<1>2. Elems(<<>>) = {} /\ \A A : ~ Comes(<<>>, A) /\ AtMostOne(<<>>, A)
  BY Single
<1>3. DOMAIN timeBased = {} /\ DOMAIN distanceBased = {} /\ SessionMap(timeBased) /\ SessionMap(distanceBased)
  BY <1>1 DEF SessionMap
<1>4. Typed
  <2>1. MaxId \in Nat
    BY TrackingAssumption DEF TrackingAssumption
  <2>2. owner \in Seq(Client) /\ Len(owner) = 0 /\ Len(owner) <= MaxId
    BY <1>1, <2>1
  <2>3. queue \in Seq(Message) /\ mPendingMsgs \in Seq(IdMsg) /\ requests \in Seq(Req)
    BY <1>1
  <2>4. answer \in [Id -> Answers]
    BY <1>1 DEF Answers
  <2> QED  BY <1>1, <1>2, <1>3, <2>2, <2>3, <2>4, OffIs DEF Typed
<1>5. FlightFits
  <2>1. Flying = {}
    BY <1>1, <1>2 DEF Flying
  <2> QED  BY <1>1, <1>2, <2>1 DEF FlightFits, OneInFlight
<1>6. RemovalFits /\ Disjoint /\ Postponed
  BY <1>1, <1>2, <1>3 DEF RemovalFits, Leaves, Disjoint, Postponed
<1>7. EngineFits
  <2>1. Target = Off
    BY <1>1, NoRequest DEF Target
  <2> QED  BY <1>3, <2>1, OffIs DEF EngineFits, OnlyFor, FastFor
<1> QED  BY <1>4, <1>5, <1>6, <1>7 DEF TrackIInv

LEMMA TrackStutters == ASSUME TrackIInv, UNCHANGED vars PROVE TrackIInv'
<1>1. /\ timeBased' = timeBased /\ distanceBased' = distanceBased /\ mClientData' = mClientData
      /\ mPendingMsgs' = mPendingMsgs /\ known' = known /\ mSystemPowerState' = mSystemPowerState
      /\ engine' = engine /\ engineDistance' = engineDistance /\ requests' = requests /\ queue' = queue
      /\ owner' = owner /\ stopped' = stopped /\ waiting' = waiting /\ answer' = answer
  BY DEF vars, sessions, state, modem, calls, told
<1>2. Typed /\ FlightFits /\ RemovalFits /\ Disjoint /\ Postponed /\ EngineFits
  BY DEF TrackIInv
<1>3. Typed' /\ RemovalFits' /\ Disjoint' /\ Postponed'
  BY <1>1, <1>2 DEF Typed, RemovalFits, Leaves, Disjoint, Postponed
<1>4. FlightFits'
  <2>1. \A id : Steady(id)
    BY <1>1 DEF Steady, Leaves, Ending
  <2>2. \A id \in Id : OneInFlight(id)'
    BY <1>1, <1>2 DEF FlightFits, OneInFlight
  <2>3. Flying' = Flying
    BY <1>1 DEF Flying
  <2> QED  BY <1>1, <1>2, <2>1, <2>2, <2>3, FlightKeeps
<1>5. EngineFits'
  BY <1>1, <1>2 DEF EngineFits, Target, Running, Awaits
<1> QED  BY <1>3, <1>4, <1>5 DEF TrackIInv

LEMMA TrackKeeps == ASSUME TrackIInv, Obliging, [Next]_vars PROVE TrackIInv'
<1>1. CASE Calls
  <2>1. ASSUME NEW c \in Client, RemoveClientCommand(c) PROVE TrackIInv'
    BY <2>1, RemoveCallKeeps
  <2>2. ASSUME NEW c \in Client, NEW o \in Options, StartTrackingCommand(c, o) PROVE TrackIInv'
    BY <2>2, StartCallKeeps
  <2>3. ASSUME NEW id \in Id, StopTrackingCommand(id) PROVE TrackIInv'
    BY <2>3, StopCallKeeps
  <2>4. ASSUME NEW id \in Id, NEW o \in Options, UpdateTrackingOptionsCommand(id, o) PROVE TrackIInv'
    BY <2>4, UpdateCallKeeps
  <2>5. ASSUME NEW power \in {"suspend", "resume"}, UpdateSystemPowerStateCommand(power) PROVE TrackIInv'
    BY <2>5, PowerCallKeeps
  <2> QED  BY <1>1, <2>1, <2>2, <2>3, <2>4, <2>5 DEF Calls
<1>2. CASE MsgTask
  BY <1>2, PostponeKeeps, ProcStartKeeps, ProcStopKeeps, ProcUpdateKeeps, StopClientKeeps, EraseClientKeeps,
     PowerKeeps, EngineUpHandledKeeps, StartDoneKeeps, StopDoneKeeps, DistanceStopDoneKeeps,
     ClientStopDoneKeeps, UpdateDoneKeeps, SwitchDoneKeeps, RestartStopDoneKeeps, RestartDoneKeeps
     DEF MsgTask
<1>3. CASE Modem
  BY <1>3, ModemKeeps
<1>4. CASE EngineUp
  BY <1>4, EngineUpKeeps
<1>5. CASE UNCHANGED vars
  BY <1>5, TrackStutters
<1> QED  BY <1>1, <1>2, <1>3, <1>4, <1>5 DEF Next

LEMMA Typing == ASSUME Typed PROVE TypeOK
<1>1. \A m \in {timeBased, distanceBased} : DOMAIN m \subseteq DOMAIN owner /\ Range(m) \subseteq Options
  BY DEF Typed, SessionMap, Range
<1>2. \A i \in 1..Len(queue) : queue[i].kind \in Kinds
  <2>1. IdKinds \cup {"suspend", "resume", "engineUp", "removeClient"} \subseteq Kinds
    BY DEF IdKinds, CallKinds, DoneKinds, Kinds
  <2>2. \A i \in 1..Len(queue) : queue[i] \in Message
    BY DEF Typed
  <2> QED  BY <2>1, <2>2, KindTells
<1>3. \A i \in 1..Len(mPendingMsgs) : mPendingMsgs[i].kind \in {"start", "update"}
  BY DEF Typed, Elems
<1>4. \A i \in 1..Len(requests) : requests[i].op \in {"start", "stop", "startDistance", "stopDistance"}
  <2>1. \A i \in 1..Len(requests) : requests[i] \in Req
    BY DEF Typed
  <2> QED  BY <2>1 DEF Req, Ops
<1> QED  BY <1>1, <1>2, <1>3, <1>4 DEF Typed, TypeOK

\* What is in the maps, the queues and the modem has its type, under the hypotheses that the
\* proof of the next theorem needs (Obliging).
THEOREM TrackingTypeOK == ASSUME Obliging PROVE Spec => []TypeOK
<1>1. TrackIInv => TypeOK
  BY Typing DEF TrackIInv
<1> QED  BY <1>1, TrackInit, TrackKeeps, PTL DEF Spec

LEMMA Serving == ASSUME EngineFits PROVE EngineServesSessions
BY DEF EngineFits, OnlyFor, FastFor, EngineServesSessions, EngineFastEnough, EngineOnlyForSessions

\* The time based session that the modem is asked for is as fast as every session, and ends
\* with them.
THEOREM SessionsServed == ASSUME Obliging PROVE Spec => []EngineServesSessions
<1>1. TrackIInv => EngineServesSessions
  BY Serving DEF TrackIInv
<1> QED  BY <1>1, TrackInit, TrackKeeps, PTL DEF Spec

-----------------------------------------------------------------------------
(* What the clients have been told *)

Has(id) == InTime(id) \/ InDistance(id)
InFlight(id) == \E m \in Flying : m.id = id

\* The adapter is at work on session id: what is in flight is no new start or update.
AtWork(id) == \E m \in Flying : m.id = id /\ m.kind \notin {"start", "update"}

\* A session is there if its client was told so.
Lives(id) == ~ Ending(owner[id]) /\ answer[id] = "success" /\ id \notin stopped => Has(id)

\* When nothing is in flight a session is its client's, and nobody waits for an answer.
Rests(id) == /\ Has(id) => owner[id] \in mClientData /\ id \notin stopped
             /\ id \in waiting => owner[id] \notin mClientData

Held(id) == (InFlight(id) \/ Rests(id)) /\ (AtWork(id) \/ Lives(id))

HeldFits ==
    /\ \A id \in Id \ DOMAIN owner : answer[id] = "nothing"
    /\ \A id \in DOMAIN owner : Held(id)

HeldInv == TrackIInv /\ HeldFits

\* What was in flight about session id is, or an answer of the same kind.
Goes(id) == \A m \in Flying : m.id = id => \E x \in Flying' : x.id = id /\ x.kind = m.kind

\* A session that a step has nothing to do with.
LEMMA HeldStill ==
  ASSUME HeldFits, NEW id \in DOMAIN owner, owner'[id] = owner[id], Goes(id),
         Has(id)' <=> Has(id), id \in stopped' <=> id \in stopped, answer'[id] = answer[id],
         id \in waiting' => id \in waiting,
         owner[id] \in mClientData' <=> owner[id] \in mClientData,
         \A c : Ending(c) => Ending(c)'
  PROVE  Held(id)'
<1>1. Held(id)
  BY DEF HeldFits
<1>2. PICK c : c = owner[id]
  OBVIOUS
<1>3. Ending(owner[id])' <=> Ending(c)'
  BY <1>2 DEF Ending
<1>4. InFlight(id) => InFlight(id)'
  BY DEF InFlight, Goes
<1>5. AtWork(id) => AtWork(id)'
  BY DEF AtWork, Goes
<1>6. Rests(id) => Rests(id)'
  BY DEF Rests
<1>7. Lives(id) => Lives(id)'
  BY <1>2, <1>3 DEF Lives
<1> QED  BY <1>1, <1>4, <1>5, <1>6, <1>7 DEF Held

\* A step that has nothing to do with sessions.
LEMMA AllStill ==
  ASSUME Typed, HeldFits, UNCHANGED <<sessions, told, owner, stopped, mClientData>>,
         \A id \in Id : Goes(id), \A c : Ending(c) => Ending(c)'
  PROVE  HeldFits'
<1>1. /\ timeBased' = timeBased /\ distanceBased' = distanceBased /\ waiting' = waiting /\ answer' = answer
      /\ owner' = owner /\ stopped' = stopped /\ mClientData' = mClientData
  BY DEF sessions, told
<1>2. \A id : Has(id)' <=> Has(id)
  BY <1>1 DEF Has, InTime, InDistance
<1>3. ASSUME NEW id \in DOMAIN owner PROVE Held(id)'
  <2>1. id \in Id
    BY OwnedIds
  <2> QED  BY <1>1, <1>2, <2>1, HeldStill
<1> QED  BY <1>1, <1>3 DEF HeldFits

\* What is in flight stays in flight when nothing is taken.
LEMMA GoesOn == ASSUME Flying \subseteq Flying' PROVE \A id : Goes(id)
BY DEF Goes

\* The handler of a message about session id: it asks the modem, and will answer, or it has answered.
LEMMA Handles ==
  ASSUME TrackIInv, HeldFits, Base, NEW id \in Id, id = id0,
         NEW rs \in Seq(Req), requests' = requests \o rs, waiting' \subseteq waiting,
         \A j \in Id \ {id} : (Has(j)' <=> Has(j)) /\ answer'[j] = answer[j],
         \/ \E r \in Elems(rs) : r.reply \in IdMsg /\ r.reply.id = id /\ r.reply.kind \in DoneKinds
         \/ (Rests(id) /\ Lives(id))'
  PROVE  HeldFits'
<1>1. /\ Typed /\ queue \in Seq(Message) /\ requests \in Seq(Req) /\ queue # <<>> /\ queue' = Tail(queue)
      /\ Head(queue) \in IdMsg
      /\ mPendingMsgs' = mPendingMsgs /\ mClientData' = mClientData /\ owner' = owner /\ stopped' = stopped
  BY DEF TrackIInv, Typed, Base, state, calls
<1>2. \A c : Ending(c) => Ending(c)'
  BY <1>1, TakenSteady
<1>3. Elems(queue) = {Head(queue)} \cup Elems(queue')
  BY <1>1, Taken
<1>4. Elems(requests') = Elems(requests) \cup Elems(rs)
  BY <1>1, Joined
<1>5. \A j \in Id \ {id} : Goes(j)
  <2>1. \A m \in Flying : m.id # id => m \in Flying'
    BY <1>1, <1>3, <1>4 DEF Flying, id0
  <2> QED  BY <2>1 DEF Goes
<1>6. ASSUME NEW j \in DOMAIN owner, j # id PROVE Held(j)'
  <2>1. j \in Id
    BY <1>1, OwnedIds
  <2> QED  BY <1>1, <1>2, <1>5, <1>6, <2>1, HeldStill
<1>7. Held(id)'
  <2>1. CASE (Rests(id) /\ Lives(id))'
    BY <2>1 DEF Held
  <2>2. CASE \E r \in Elems(rs) : r.reply \in IdMsg /\ r.reply.id = id /\ r.reply.kind \in DoneKinds
    <3>1. PICK r \in Elems(rs) : r.reply \in IdMsg /\ r.reply.id = id /\ r.reply.kind \in DoneKinds
      BY <2>2
    <3>2. r.reply \in Flying'
      BY <1>4, <3>1 DEF Flying
    <3>3. r.reply.kind \notin {"start", "update"}
      BY <3>1 DEF DoneKinds
    <3> QED  BY <3>1, <3>2, <3>3 DEF Held, InFlight, AtWork
  <2> QED  BY <2>1, <2>2
<1>8. ASSUME NEW j \in Id \ DOMAIN owner PROVE answer'[j] = "nothing"
  <2>1. id \in DOMAIN owner
    <3>1. Head(queue) \in Flying
      BY <1>1, <1>3 DEF Flying
    <3> QED  BY <3>1 DEF TrackIInv, FlightFits, MsgFits, id0
  <2> QED  BY <2>1 DEF HeldFits
<1> QED  BY <1>1, <1>6, <1>7, <1>8 DEF HeldFits

\* The client is told, if the adapter still knows it.
LEMMA ReportIs ==
  ASSUME Typed, Base, NEW id \in Id, id = id0, NEW err, ReportResponse(id0, err)
  PROVE  /\ waiting' \subseteq waiting
         /\ \A j \in Id \ {id} : answer'[j] = answer[j]
         /\ owner[id] \in mClientData => answer'[id] = err
         /\ id \in waiting' => owner'[id] \notin mClientData'
<1>1. /\ answer \in [Id -> Answers] /\ owner' = owner /\ mClientData' = mClientData
  BY DEF Typed, Base, state, calls
<1>2. CASE owner[id] \in mClientData
  <2>1. waiting' = waiting \ {id} /\ answer' = [answer EXCEPT ![id] = err]
    BY <1>2 DEF ReportResponse
  <2> QED  BY <1>1, <2>1
<1>3. CASE owner[id] \notin mClientData
  <2>1. waiting' = waiting /\ answer' = answer
    BY <1>3 DEF ReportResponse, told
  <2> QED  BY <1>1, <1>3, <2>1
<1> QED  BY <1>2, <1>3

LEMMA OthersHave == ASSUME NEW id, Changed(id) PROVE \A j \in Id \ {id} : Has(j)' <=> Has(j)
BY DEF Changed, Has, InTime, InDistance

LEMMA Gets == ASSUME Typed, NEW m \in Message PROVE Elems(Append(queue, m)) = Elems(queue) \cup {m}
<1>1. queue \in Seq(Message)
  BY DEF Typed
<1> QED  BY <1>1, Appended

\* A message about no session is queued.
LEMMA OtherHeld ==
  ASSUME HeldInv, NEW m \in Message, queue' = Append(queue, m),
         UNCHANGED <<sessions, state, told, requests, owner, stopped>>
  PROVE  HeldFits'
<1>1. Typed /\ HeldFits /\ queue \in Seq(Message)
  BY DEF HeldInv, TrackIInv, Typed
<1>2. mClientData' = mClientData /\ mPendingMsgs' = mPendingMsgs /\ requests' = requests
  BY DEF state
<1>3. \A c : Ending(c) => Ending(c)'
  BY <1>1, <1>2, SentSteady
<1>4. Elems(Append(queue, m)) = Elems(queue) \cup {m}
  BY <1>1, Gets
<1>5. \A id : Goes(id)
  <2>1. Flying \subseteq Flying'
    BY <1>2, <1>4 DEF Flying
  <2> QED  BY <2>1, GoesOn
<1> QED  BY <1>1, <1>2, <1>3, <1>5, AllStill

LEMMA OutsideHeld ==
  ASSUME HeldInv, \/ \E c \in Client : RemoveClientCommand(c)
                  \/ \E power \in {"suspend", "resume"} : UpdateSystemPowerStateCommand(power)
                  \/ EngineUp
  PROVE  HeldFits'
<1>1. CASE \E c \in Client : RemoveClientCommand(c)
  <2>1. PICK c \in Client : RemoveClientCommand(c)
    BY <1>1
  <2>2. MsgRemoveClient(c) \in Message
    BY DEF Message
  <2>3. /\ queue' = Append(queue, MsgRemoveClient(c))
        /\ UNCHANGED <<sessions, state, told, requests, owner, stopped>>
    BY <2>1, SendIs DEF RemoveClientCommand, calls
  <2> QED  BY <2>2, <2>3, OtherHeld
<1>2. CASE \E power \in {"suspend", "resume"} : UpdateSystemPowerStateCommand(power)
  <2>1. PICK power \in {"suspend", "resume"} : UpdateSystemPowerStateCommand(power)
    BY <1>2
  <2>2. Msg(power, 0, Off) \in Message
    BY DEF Message, PlainMsg
  <2>3. /\ queue' = Append(queue, Msg(power, 0, Off))
        /\ UNCHANGED <<sessions, state, told, requests, owner, stopped>>
    BY <2>1, SendIs DEF UpdateSystemPowerStateCommand
  <2> QED  BY <2>2, <2>3, OtherHeld
<1>3. CASE EngineUp
  <2>1. Msg("engineUp", 0, Off) \in Message
    BY DEF Message, PlainMsg
  <2>2. /\ queue' = Append(queue, Msg("engineUp", 0, Off))
        /\ UNCHANGED <<sessions, state, told, requests, owner, stopped>>
    BY <1>3, SendIs DEF EngineUp, calls
  <2> QED  BY <2>1, <2>2, OtherHeld
<1> QED  BY <1>1, <1>2, <1>3

\* A call about a session: m is in flight, and of the others nothing changes.
LEMMA CallHeld ==
  ASSUME HeldInv, NEW id \in Id, NEW m \in IdMsg, m.id = id, queue' = Append(queue, m),
         UNCHANGED <<sessions, state, requests>>, answer' = answer,
         waiting' = waiting \cup {id}, stopped \subseteq stopped', stopped' \subseteq stopped \cup {id},
         DOMAIN owner' \ {id} \subseteq DOMAIN owner, DOMAIN owner \subseteq DOMAIN owner',
         \A j \in DOMAIN owner : owner'[j] = owner[j],
         m.kind \notin {"start", "update"} \/ Lives(id)'
  PROVE  HeldFits'
<1>1. Typed /\ HeldFits /\ queue \in Seq(Message) /\ m \in Message
  BY DEF HeldInv, TrackIInv, Typed, Message
<1>2. /\ mClientData' = mClientData /\ mPendingMsgs' = mPendingMsgs /\ requests' = requests
      /\ timeBased' = timeBased /\ distanceBased' = distanceBased
  BY DEF state, sessions
<1>3. \A c : Ending(c) => Ending(c)'
  BY <1>1, <1>2, SentSteady
<1>4. Elems(Append(queue, m)) = Elems(queue) \cup {m}
  BY <1>1, Gets
<1>5. Flying \subseteq Flying' /\ m \in Flying'
  BY <1>2, <1>4 DEF Flying
<1>6. ASSUME NEW j \in DOMAIN owner, j # id PROVE Held(j)'
  <2>1. Goes(j) /\ (Has(j)' <=> Has(j))
    BY <1>2, <1>5, GoesOn DEF Has, InTime, InDistance
  <2> QED  BY <1>1, <1>2, <1>3, <1>6, <2>1, HeldStill
<1>7. Held(id)'
  BY <1>5 DEF Held, InFlight, AtWork
<1> QED  BY <1>1, <1>6, <1>7 DEF HeldFits

\* Nothing is in flight about a session whose client may call, so it is there if the client was told so.
LEMMA MayCallLives ==
  ASSUME HeldInv, Obliging, NEW id \in Id, MayCall(id)
  PROVE  Lives(id) /\ id \in DOMAIN owner
<1>1. id \in DOMAIN owner /\ \A m \in Flying : m.id # id
  BY MayCallIs DEF HeldInv
<1>2. ~ AtWork(id)
  BY <1>1 DEF AtWork
<1> QED  BY <1>1, <1>2 DEF HeldInv, HeldFits, Held

LEMMA UpdateCallHeld ==
  ASSUME HeldInv, Obliging, NEW id \in Id, NEW o \in Options, UpdateTrackingOptionsCommand(id, o)
  PROVE  HeldFits'
<1> DEFINE m == Msg("update", id, o)
<1>1. /\ MayCall(id) /\ queue' = Append(queue, m) /\ UNCHANGED <<sessions, state, requests>>
      /\ stopped' = stopped /\ waiting' = waiting \cup {id} /\ answer' = answer /\ owner' = owner
  BY SendIs DEF UpdateTrackingOptionsCommand
<1>2. m \in IdMsg /\ m.kind = "update" /\ m.id = id
  <2>1. o \in R
    BY OptionsAre
  <2> QED  BY <2>1 DEF Msg, IdMsg, IdKinds, CallKinds
<1> HIDE DEF m
<1>3. Lives(id)'
  <2>1. Lives(id) /\ ~ Ending(owner[id])
    <3>1. owner[id] \in mClientData /\ ~ Leaves(owner[id]) /\ Lives(id)
      BY <1>1, MayCallIs, MayCallLives DEF HeldInv
    <3>2. ASSUME queue # <<>>, Head(queue) = MsgRemoveClient(owner[id]) PROVE FALSE
      <4> DEFINE A == {MsgRemoveClient(owner[id])}
      <4>1. Head(queue) \in A /\ queue \in Seq(Message)
        BY <3>2 DEF HeldInv, TrackIInv, Typed
      <4> HIDE DEF A
      <4>2. Comes(queue, A)
        BY <3>2, <4>1, Taken
      <4> QED  BY <3>1, <4>2 DEF Leaves, A
    <3> QED  BY <3>1, <3>2 DEF Ending
  <2>2. Has(id)' <=> Has(id)
    BY <1>1 DEF Has, InTime, InDistance, sessions
  <2> QED  BY <1>1, <2>1, <2>2 DEF Lives
<1> QED  BY <1>1, <1>2, <1>3, CallHeld

LEMMA StopCallHeld ==
  ASSUME HeldInv, Obliging, NEW id \in Id, StopTrackingCommand(id)
  PROVE  HeldFits'
<1> DEFINE m == Msg("stop", id, Off)
<1>1. /\ MayCall(id) /\ queue' = Append(queue, m) /\ UNCHANGED <<sessions, state, requests>>
      /\ stopped' = stopped \cup {id} /\ waiting' = waiting \cup {id} /\ answer' = answer /\ owner' = owner
  BY SendIs DEF StopTrackingCommand
<1>2. m \in IdMsg /\ m.kind = "stop" /\ m.id = id
  <2>1. Off \in R
    BY OffIs
  <2> QED  BY <2>1 DEF Msg, IdMsg, IdKinds, CallKinds
<1> HIDE DEF m
<1> QED  BY <1>1, <1>2, CallHeld

LEMMA StartCallHeld ==
  ASSUME HeldInv, NEW c \in Client, NEW o \in Options, StartTrackingCommand(c, o)
  PROVE  HeldFits'
<1>0. owner \in Seq(Client) /\ Len(owner) \in Nat /\ Len(owner) < MaxId /\ MaxId \in Nat
  BY TrackingAssumption DEF HeldInv, TrackIInv, Typed, StartTrackingCommand, TrackingAssumption
<1>1. PICK id \in Id : id = Len(owner) + 1
  BY <1>0 DEF Id
<1> DEFINE m == Msg("start", id, o)
<1>2. /\ queue' = Append(queue, m) /\ UNCHANGED <<sessions, state, requests>>
      /\ stopped' = stopped /\ waiting' = waiting \cup {id}
      /\ answer' = answer /\ owner' = Append(owner, c)
  BY <1>1, SendIs DEF StartTrackingCommand
<1>3. m \in IdMsg /\ m.id = id
  <2>1. o \in R
    BY OptionsAre
  <2> QED  BY <2>1 DEF Msg, IdMsg, IdKinds, CallKinds
<1> HIDE DEF m
<1>4. /\ DOMAIN owner' \ {id} \subseteq DOMAIN owner /\ DOMAIN owner \subseteq DOMAIN owner'
      /\ id \notin DOMAIN owner /\ \A j \in DOMAIN owner : owner'[j] = owner[j]
  BY <1>0, <1>1, <1>2
<1>5. Lives(id)'
  <2>1. answer[id] = "nothing"
    BY <1>4 DEF HeldInv, HeldFits
  <2> QED  BY <1>2, <2>1 DEF Lives
<1> QED  BY <1>2, <1>3, <1>4, <1>5, CallHeld

LEMMA PostponeHeld == ASSUME HeldInv, Postpone PROVE HeldFits'
<1>0. TrackIInv /\ Typed /\ HeldFits
  BY DEF HeldInv, TrackIInv
<1>1. PICK kind \in {"start", "update"} : Proc(kind)
  BY DEF Postpone
<1>2. /\ mPendingMsgs' = Append(mPendingMsgs, Head(queue)) /\ queue' = Tail(queue) /\ requests' = requests
      /\ UNCHANGED <<sessions, told, owner, stopped, mClientData>>
  BY <1>1 DEF Postpone, Proc, Done, calls
<1>3. /\ queue # <<>> /\ Head(queue) \in IdMsg
  <2>1. NextMsg(kind) /\ kind \in IdKinds
    BY <1>1 DEF Proc, IdKinds, CallKinds
  <2> QED  BY <1>0, <2>1, HeadIs
<1>4. queue \in Seq(Message) /\ mPendingMsgs \in Seq(IdMsg)
  BY <1>0 DEF Typed
<1>5. Elems(queue) = {Head(queue)} \cup Elems(queue')
  BY <1>2, <1>3, <1>4, Taken
<1>6. Elems(Append(mPendingMsgs, Head(queue))) = Elems(mPendingMsgs) \cup {Head(queue)}
  BY <1>3, <1>4, Appended
<1>7. \A id : Goes(id)
  <2>1. Flying \subseteq Flying'
    BY <1>2, <1>5, <1>6 DEF Flying
  <2> QED  BY <2>1, GoesOn
<1>8. \A c : Ending(c) => Ending(c)'
  BY <1>0, <1>2, <1>3, TakenSteady
<1> QED  BY <1>0, <1>2, <1>7, <1>8, AllStill

\* A message about the whole adapter is handled: w are the postponed messages it brings back.
LEMMA PlainHeld ==
  ASSUME HeldInv, queue # <<>>, Head(queue) \in PlainMsg, NEW w \in Seq(IdMsg), queue' = Tail(queue) \o w,
         Elems(mPendingMsgs) \subseteq Elems(w) \cup Elems(mPendingMsgs'),
         NEW rs \in Seq(Req), requests' = requests \o rs,
         UNCHANGED <<sessions, told, owner, stopped, mClientData>>
  PROVE  HeldFits'
<1>1. Typed /\ HeldFits /\ queue \in Seq(Message) /\ requests \in Seq(Req)
  BY DEF HeldInv, TrackIInv, Typed
<1>2. Elems(requests') = Elems(requests) \cup Elems(rs)
  BY <1>1, Joined
<1>3. Elems(queue) = {Head(queue)} \cup Elems(Tail(queue)) /\ Tail(queue) \in Seq(Message)
  BY <1>1, Taken
<1>4. Elems(queue') = Elems(Tail(queue)) \cup Elems(w)
  <2>1. w \in Seq(Message)
    BY DEF Message
  <2>2. Elems(Tail(queue) \o w) = Elems(Tail(queue)) \cup Elems(w)
    <3>1. PICK t \in Seq(Message) : t = Tail(queue)
      BY <1>3
    <3>2. Elems(t \o w) = Elems(t) \cup Elems(w)
      BY <2>1, Joined
    <3> QED  BY <3>1, <3>2
  <2> QED  BY <2>2
<1>5. Head(queue) \notin IdMsg /\ \A c : Head(queue) # MsgRemoveClient(c)
  BY MessagesAre
<1>6. \A id : Goes(id)
  <2>1. Flying \subseteq Flying'
    BY <1>2, <1>3, <1>4, <1>5 DEF Flying
  <2> QED  BY <2>1, GoesOn
<1>7. \A c : Ending(c) => Ending(c)'
  BY <1>5 DEF Ending
<1> QED  BY <1>1, <1>6, <1>7, AllStill

LEMMA PowerHeld == ASSUME HeldInv, ProcUpdatePowerState PROVE HeldFits'
<1>1. PICK power \in {"suspend", "resume"} :
        /\ Proc(power) /\ Ask(ToSetPower(power))
        /\ UNCHANGED <<sessions, mClientData, mPendingMsgs, known, told>>
  BY DEF ProcUpdatePowerState
<1>2. /\ queue # <<>> /\ Head(queue).kind = power /\ queue' = Tail(queue) /\ mPendingMsgs' = mPendingMsgs
      /\ UNCHANGED <<sessions, told, owner, stopped, mClientData>>
      /\ requests' = requests \o ToSetPower(power)
  BY <1>1 DEF Proc, NextMsg, Done, Ask, calls
<1>3. Typed /\ queue \in Seq(Message) /\ Target \in R
  BY TargetTyped DEF HeldInv, TrackIInv, Typed
<1>4. Head(queue) \in PlainMsg
  <2>1. Head(queue) \in Message
    BY <1>2, <1>3
  <2> QED  BY <1>2, <2>1, KindTells
<1>5. ToSetPower(power) \in Seq(Req)
  <2>1. SessionMap(timeBased) /\ IsFiniteSet(DOMAIN distanceBased) /\ DOMAIN distanceBased \subseteq Nat
    BY <1>3, IdsFinite DEF Typed, SessionMap
  <2> QED  BY <1>3, <2>1, ToSetPowerServes
<1>6. queue' = Tail(queue) \o <<>> /\ <<>> \in Seq(IdMsg)
  <2>1. Tail(queue) \in Seq(Message)
    BY <1>2, <1>3
  <2> QED  BY <1>2, <2>1
<1> QED  BY <1>2, <1>4, <1>5, <1>6, PlainHeld

LEMMA EngineUpHandledHeld == ASSUME HeldInv, ProcEngineUp PROVE HeldFits'
<1> DEFINE first == ToSetPower(mSystemPowerState)
           more == IF mSystemPowerState = "suspend" THEN <<>> ELSE ToRestart
           rs == first \o more
<1>1. /\ queue # <<>> /\ Head(queue).kind = "engineUp" /\ queue' = Tail(queue) \o mPendingMsgs
      /\ requests' = requests \o rs
      /\ UNCHANGED <<sessions, told, owner, stopped, mClientData>>
  BY DEF ProcEngineUp, NextMsg, Ask, calls
<1>2. Typed /\ queue \in Seq(Message) /\ Target \in R /\ mPendingMsgs \in Seq(IdMsg)
  BY TargetTyped DEF HeldInv, TrackIInv, Typed
<1>3. Head(queue) \in PlainMsg
  <2>1. Head(queue) \in Message
    BY <1>1, <1>2
  <2> QED  BY <1>1, <2>1, KindTells
<1>4. rs \in Seq(Req)
  <2>1. SessionMap(timeBased) /\ IsFiniteSet(DOMAIN distanceBased) /\ DOMAIN distanceBased \subseteq Nat
    BY <1>2, IdsFinite DEF Typed, SessionMap
  <2>2. first \in Seq(Req)
    BY <1>2, <2>1, ToSetPowerServes
  <2>3. ToRestart \in Seq(Req)
    BY <1>2, <2>1, ToRestartServes
  <2>4. more \in Seq(Req)
    BY <2>3
  <2> HIDE DEF first, more
  <2> QED  BY <2>2, <2>4
<1> HIDE DEF rs
<1> QED  BY <1>1, <1>2, <1>3, <1>4, PlainHeld

LEMMA ModemHeld == ASSUME HeldInv, Modem PROVE HeldFits'
<1>0. Typed /\ HeldFits
  BY DEF HeldInv, TrackIInv
<1>1. PICK r \in Req : r = Head(requests) /\ requests # <<>> /\ requests \in Seq(Req) /\ queue \in Seq(Message)
  <2>1. requests \in Seq(Req) /\ requests # <<>> /\ queue \in Seq(Message)
    BY <1>0 DEF Modem, Typed
  <2> QED  BY <2>1
<1>2. /\ requests' = Tail(requests) /\ UNCHANGED <<sessions, state, told, owner, stopped>>
      /\ \E ok \in BOOLEAN : queue' = IF r.reply = NoReply THEN queue ELSE Append(queue, [r.reply EXCEPT !.ok = ok])
  BY <1>1 DEF Modem, calls
<1>3. PICK ok \in BOOLEAN : queue' = IF r.reply = NoReply THEN queue ELSE Append(queue, [r.reply EXCEPT !.ok = ok])
  BY <1>2
<1>4. mClientData' = mClientData /\ mPendingMsgs' = mPendingMsgs
  BY <1>2 DEF state
<1>5. Elems(requests) = {r} \cup Elems(requests')
  BY <1>1, <1>2, Taken
<1>6. CASE r.reply = NoReply
  <2>1. \A id : Goes(id)
    <3>1. Flying \subseteq Flying'
      BY <1>3, <1>4, <1>5, <1>6, MessagesAre DEF Flying
    <3> QED  BY <3>1, GoesOn
  <2>2. \A c : Ending(c) => Ending(c)'
    BY <1>3, <1>4, <1>6 DEF Ending
  <2> QED  BY <1>0, <1>2, <1>4, <2>1, <2>2, AllStill
<1>7. CASE r.reply # NoReply
  <2>1. r.reply \in IdMsg
    BY <1>1, <1>7 DEF Req
  <2>2. PICK a \in IdMsg : a = [r.reply EXCEPT !.ok = ok] /\ a.id = r.reply.id /\ a.kind = r.reply.kind
    <3> DEFINE b == [r.reply EXCEPT !.ok = ok]
    <3>1. b \in IdMsg /\ b.id = r.reply.id /\ b.kind = r.reply.kind
      BY <2>1 DEF IdMsg
    <3> QED  BY <3>1
  <2>3. a \in Message /\ queue' = Append(queue, a)
    BY <1>3, <1>7, <2>2 DEF Message
  <2>4. Elems(queue') = Elems(queue) \cup {a}
    BY <1>0, <2>3, Gets
  <2>5. \A id : Goes(id)
    <3>1. a \in Flying' /\ \A m \in Flying : m \in Flying' \/ m = r.reply
      BY <1>4, <1>5, <2>4 DEF Flying
    <3> QED  BY <2>2, <3>1 DEF Goes
  <2>6. \A c : Ending(c) => Ending(c)'
    BY <1>0, <1>4, <2>3, SentSteady
  <2> QED  BY <1>0, <1>2, <1>4, <2>5, <2>6, AllStill
<1> QED  BY <1>6, <1>7

\* The client whose session is stopped is being removed.
LEMMA StopClientHeld == ASSUME HeldInv, StopClientSession PROVE HeldFits'
<1>0. TrackIInv /\ Typed /\ Disjoint /\ HeldFits
  BY DEF HeldInv, TrackIInv
<1>1. NextMsg("removeClient") /\ UNCHANGED <<state, calls, told, queue>>
  BY DEF StopClientSession
<1>2. PICK c \in Client : Head(queue) = MsgRemoveClient(c) /\ Head(queue).client = c /\ queue # <<>>
  BY <1>0, <1>1, LeavingIs
<1>3. PICK id \in DOMAIN timeBased : owner[id] = c /\ Ask(ToStop(id)) /\ EraseTrackingSession(id)
  BY <1>2 DEF StopClientSession, OfClient
<1>4. id \in DOMAIN owner /\ SessionMap(timeBased) /\ requests \in Seq(Req) /\ Target \in R
  BY <1>0, TargetTyped DEF Typed
<1>5. id \in Id
  BY <1>0, <1>4, OwnedIds
<1>6. /\ mClientData' = mClientData /\ mPendingMsgs' = mPendingMsgs /\ owner' = owner /\ stopped' = stopped
      /\ waiting' = waiting /\ answer' = answer /\ queue' = queue
  BY <1>1 DEF state, calls, told
<1>7. ToStop(id) \in Seq(Req) /\ requests' = requests \o ToStop(id)
  BY <1>3, <1>4, <1>5, ToStopServes DEF Ask
<1>8. Elems(requests') = Elems(requests) \cup Elems(ToStop(id))
  BY <1>4, <1>7, Joined
<1>9. \A j : Goes(j)
  <2>1. Flying \subseteq Flying'
    BY <1>6, <1>8 DEF Flying
  <2> QED  BY <2>1, GoesOn
<1>10. Changed(id) /\ ~ Has(id)'
  BY <1>0, <1>3, EraseIs DEF Has, InTime, InDistance
<1>11. \A d : Ending(d)' <=> Ending(d)
  BY <1>6 DEF Ending
<1>12. ASSUME NEW j \in DOMAIN owner, j # id PROVE Held(j)'
  <2>1. j \in Id
    BY <1>0, OwnedIds
  <2>2. Has(j)' <=> Has(j)
    BY <1>10, <1>12, <2>1, OthersHave
  <2> QED  BY <1>0, <1>6, <1>9, <1>11, <2>2, HeldStill
<1>13. Held(id)'
  <2>1. InFlight(id) => InFlight(id)'
    BY <1>9 DEF InFlight, Goes
  <2>2. Rests(id) => Rests(id)'
    BY <1>6, <1>10 DEF Rests
  <2>3. Lives(id)'
    <3>1. Ending(c) /\ owner'[id] = c
      BY <1>2, <1>3, <1>6 DEF Ending
    <3>2. Ending(owner[id])' <=> Ending(c)'
      BY <3>1 DEF Ending
    <3> QED  BY <1>11, <3>1, <3>2 DEF Lives
  <2> QED  BY <1>0, <1>4, <2>1, <2>2, <2>3 DEF HeldFits, Held
<1> QED  BY <1>0, <1>6, <1>12, <1>13 DEF HeldFits

\* The modem is asked to stop what the client has left.
LEMMA EraseClientHeld == ASSUME HeldInv, EraseClient PROVE HeldFits'
<1>0. TrackIInv /\ Typed /\ Disjoint /\ HeldFits
  BY DEF HeldInv, TrackIInv
<1>1. Proc("removeClient") /\ OfClient(timeBased) = {}
  BY DEF EraseClient
<1>2. NextMsg("removeClient") /\ queue' = Tail(queue)
  BY <1>1 DEF Proc, Done
<1>3. PICK c \in Client : Head(queue) = MsgRemoveClient(c) /\ Head(queue).client = c
  BY <1>0, <1>2, LeavingIs
<1> DEFINE D == OfClient(distanceBased)
           ids == SetToSeq(D)
           rs == [i \in 1..Len(ids) |-> Request("stopDistance", ids[i], Off, Msg("clientStopDone", ids[i], Off))]
<1>4. /\ mClientData' = mClientData \ {c} /\ mPendingMsgs' = mPendingMsgs /\ requests' = requests \o rs
      /\ timeBased' = timeBased /\ distanceBased' = distanceBased
      /\ owner' = owner /\ stopped' = stopped /\ waiting' = waiting /\ answer' = answer
  BY <1>1, <1>3 DEF EraseClient, Ask, Proc, calls, told, sessions
<1>5. D \subseteq DOMAIN distanceBased /\ D = {j \in DOMAIN distanceBased : owner[j] = c}
  BY <1>3 DEF OfClient
<1>6. D \subseteq Id /\ IsFiniteSet(D)
  <2>1. D \subseteq DOMAIN owner
    BY <1>0, <1>5 DEF Typed
  <2>2. IsFiniteSet(D)
    BY <1>0, <1>5, IdsFinite, FS_Subset
  <2> QED  BY <1>0, <2>1, <2>2, OwnedIds
<1>7. \A j \in DOMAIN timeBased : owner[j] # c
  BY <1>1, <1>3 DEF OfClient
<1> HIDE DEF D
<1>8. /\ rs \in Seq(Req)
      /\ \A r \in Elems(rs) : r.reply \in IdMsg /\ r.reply.kind = "clientStopDone"
      /\ \A j \in D : \E r \in Elems(rs) : r.reply.id = j
  BY <1>6, ClientStops
<1> HIDE DEF ids, rs
<1>9. requests \in Seq(Req) /\ queue \in Seq(Message) /\ queue # <<>>
  BY <1>0, <1>2 DEF Typed, NextMsg
<1>10. Elems(requests') = Elems(requests) \cup Elems(rs)
  BY <1>4, <1>8, <1>9, Joined
<1>11. Elems(queue) = {Head(queue)} \cup Elems(queue') /\ Head(queue) \notin IdMsg
  <2>1. Elems(queue) = {Head(queue)} \cup Elems(Tail(queue))
    BY <1>9, Taken
  <2>2. Head(queue) \notin IdMsg
    BY <1>3, MessagesAre
  <2> QED  BY <1>2, <2>1, <2>2
<1>12. \A j : Goes(j)
  <2>1. Flying \subseteq Flying'
    BY <1>4, <1>10, <1>11 DEF Flying
  <2> QED  BY <2>1, GoesOn
<1>13. \A d : Ending(d) => Ending(d)' /\ d \notin mClientData'
  BY <1>3, <1>4, MessagesAre DEF Ending
<1>14. \A j : Has(j)' <=> Has(j)
  BY <1>4 DEF Has, InTime, InDistance
<1>15. ASSUME NEW j \in DOMAIN owner, owner[j] # c PROVE Held(j)'
  BY <1>0, <1>4, <1>12, <1>13, <1>14, <1>15, HeldStill
<1>16. ASSUME NEW j \in DOMAIN owner, owner[j] = c PROVE Held(j)'
  <2>1. c \notin mClientData' /\ owner'[j] = c
    BY <1>4, <1>16
  <2>2. Lives(j)'
    BY <2>1 DEF Lives, Ending
  <2>3. InFlight(j)' \/ Rests(j)'
    <3>1. CASE Has(j)
      <4>1. j \in D
        BY <1>5, <1>7, <1>16, <3>1 DEF Has, InTime, InDistance
      <4>2. PICK r \in Elems(rs) : r.reply.id = j /\ r.reply \in IdMsg
        BY <1>8, <4>1
      <4>3. r.reply \in Flying'
        BY <1>10, <4>2 DEF Flying
      <4> QED  BY <4>2, <4>3 DEF InFlight
    <3>2. CASE ~ Has(j)
      BY <1>14, <2>1, <3>2 DEF Rests
    <3> QED  BY <3>1, <3>2
  <2> QED  BY <2>2, <2>3 DEF Held
<1> QED  BY <1>0, <1>4, <1>15, <1>16 DEF HeldFits

\* The handler of a message about session id tells the client, or will.
LEMMA AnswerHeld ==
  ASSUME TrackIInv, HeldFits, Base, NEW id \in Id, id = id0, Changed(id),
         NEW rs \in Seq(Req), requests' = requests \o rs, NEW err,
         \/ /\ ReportResponse(id0, err)
            /\ Has(id)' => owner[id] \in mClientData /\ id \notin stopped
            /\ err = "success" /\ id \notin stopped => Has(id)' \/ Ending(owner[id])
         \/ /\ UNCHANGED told
            /\ \E r \in Elems(rs) : r.reply \in IdMsg /\ r.reply.id = id /\ r.reply.kind \in DoneKinds
  PROVE  HeldFits'
<1>1. Typed /\ owner' = owner /\ stopped' = stopped /\ mClientData' = mClientData
  BY DEF TrackIInv, Base, state, calls
<1>2. \A j \in Id \ {id} : Has(j)' <=> Has(j)
  BY OthersHave
<1>3. CASE /\ ReportResponse(id0, err)
           /\ Has(id)' => owner[id] \in mClientData /\ id \notin stopped
           /\ err = "success" /\ id \notin stopped => Has(id)' \/ Ending(owner[id])
  <2>1. /\ waiting' \subseteq waiting
        /\ \A j \in Id \ {id} : answer'[j] = answer[j]
        /\ owner[id] \in mClientData => answer'[id] = err
        /\ id \in waiting' => owner'[id] \notin mClientData'
    BY <1>1, <1>3, ReportIs
  <2>2. Rests(id)'
    BY <1>1, <1>3, <2>1 DEF Rests
  <2>3. Lives(id)'
    <3>1. PICK c : c = owner[id]
      OBVIOUS
    <3>2. Ending(c) => Ending(c)'
      BY <1>1, TakenSteady DEF Base
    <3>3. Ending(owner[id])' <=> Ending(c)'
      BY <1>1, <3>1 DEF Ending
    <3>4. c \notin mClientData => Ending(c)
      BY DEF Ending
    <3> QED  BY <1>1, <1>3, <2>1, <3>1, <3>2, <3>3, <3>4 DEF Lives
  <2> QED  BY <1>2, <2>1, <2>2, <2>3, Handles
<1>4. CASE /\ UNCHANGED told
           /\ \E r \in Elems(rs) : r.reply \in IdMsg /\ r.reply.id = id /\ r.reply.kind \in DoneKinds
  <2>1. waiting' = waiting /\ answer' = answer
    BY <1>4 DEF told
  <2> QED  BY <1>2, <1>4, <2>1, Handles
<1> QED  BY <1>3, <1>4

\* The same when the modem is asked for nothing.
LEMMA ReportHeld ==
  ASSUME TrackIInv, HeldFits, Base, NEW id \in Id, id = id0, Changed(id), requests' = requests, NEW err,
         ReportResponse(id0, err),
         Has(id)' => owner[id] \in mClientData /\ id \notin stopped,
         err = "success" /\ id \notin stopped => Has(id)' \/ Ending(owner[id])
  PROVE  HeldFits'
<1>1. requests \in Seq(Req)
  BY DEF TrackIInv, Typed
<1>2. PICK rs \in Seq(Req) : requests' = requests \o rs
  <2>1. requests' = requests \o <<>> /\ <<>> \in Seq(Req)
    BY <1>1
  <2> QED  BY <2>1
<1> QED  BY <1>2, AnswerHeld

LEMMA StartDoneHeld == ASSUME HeldInv, Obliging, StartDone PROVE HeldFits'
<1>0. TrackIInv /\ HeldFits
  BY DEF HeldInv
<1>1. /\ Proc("startDone") /\ UNCHANGED state /\ requests' = requests
      /\ ReportResponse(id0, Result(ok0))
      /\ IF ok0 THEN UNCHANGED sessions ELSE EraseTrackingSession(id0)
  BY DEF StartDone
<1>2. /\ Base /\ Head(queue).kind = "startDone" /\ Typed /\ Disjoint
      /\ \E id \in Id : /\ id = id0 /\ id = Head(queue).id /\ id \in Nat \ {0} /\ id \in DOMAIN owner
                        /\ Awaited(Head(queue)) \/ Orphaned(Head(queue))
  BY <1>0, <1>1, HeadTaken DEF IdKinds, DoneKinds
<1>3. PICK id \in Id : /\ id = id0 /\ id = Head(queue).id
                       /\ Awaited(Head(queue)) \/ Orphaned(Head(queue))
  BY <1>2
<1>4. /\ Has(id) => owner[id] \in mClientData /\ id \notin stopped
      /\ id \notin stopped => Has(id) \/ Ending(owner[id])
  BY <1>2, <1>3 DEF Awaited, Waits, Says, Orphaned, Has
<1>5. CASE ok0
  <2>1. timeBased' = timeBased /\ distanceBased' = distanceBased /\ Changed(id)
    BY <1>1, <1>2, <1>5, Unmoved
  <2>2. Has(id)' <=> Has(id)
    BY <2>1 DEF Has, InTime, InDistance
  <2> QED  BY <1>0, <1>1, <1>2, <1>3, <1>4, <2>1, <2>2, ReportHeld
<1>6. CASE ~ ok0
  <2>1. EraseTrackingSession(id)
    BY <1>1, <1>3, <1>6 DEF EraseTrackingSession
  <2>2. Changed(id) /\ ~ Has(id)'
    BY <1>2, <2>1, EraseIs DEF Has, InTime, InDistance
  <2>3. Result(ok0) # "success"
    BY <1>6 DEF Result
  <2> QED  BY <1>0, <1>1, <1>2, <1>3, <2>2, <2>3, ReportHeld
<1> QED  BY <1>5, <1>6

LEMMA StopDoneHeld == ASSUME HeldInv, Obliging, StopDone PROVE HeldFits'
<1>0. TrackIInv /\ HeldFits
  BY DEF HeldInv
<1>1. /\ Proc("stopDone") /\ UNCHANGED state /\ requests' = requests
      /\ ReportResponse(id0, Result(ok0)) /\ UNCHANGED sessions
  BY DEF StopDone
<1>2. /\ Base /\ Head(queue).kind = "stopDone" /\ Typed /\ Disjoint
      /\ \E id \in Id : /\ id = id0 /\ id = Head(queue).id /\ id \in Nat \ {0} /\ id \in DOMAIN owner
                        /\ Awaited(Head(queue)) \/ Orphaned(Head(queue))
  BY <1>0, <1>1, HeadTaken DEF IdKinds, DoneKinds
<1>3. PICK id \in Id : /\ id = id0 /\ id = Head(queue).id
                       /\ Awaited(Head(queue)) \/ Orphaned(Head(queue))
  BY <1>2
<1>4. /\ Has(id) => owner[id] \in mClientData /\ id \notin stopped
      /\ id \notin stopped => Has(id) \/ Ending(owner[id])
  BY <1>2, <1>3 DEF Awaited, Waits, Says, Orphaned, Has
<1>5. timeBased' = timeBased /\ distanceBased' = distanceBased /\ Changed(id)
  BY <1>1, <1>2, Unmoved
<1>6. Has(id)' <=> Has(id)
  BY <1>5 DEF Has, InTime, InDistance
<1> QED  BY <1>0, <1>1, <1>2, <1>3, <1>4, <1>5, <1>6, ReportHeld

LEMMA DistanceStopDoneHeld ==
  ASSUME HeldInv, Obliging, "stopDistance" \notin Fails, DistanceStopDone PROVE HeldFits'
<1>0. TrackIInv /\ HeldFits
  BY DEF HeldInv
<1>1. /\ Proc("distanceStopDone") /\ UNCHANGED state /\ requests' = requests
      /\ ReportResponse(id0, Result(ok0))
      /\ IF ok0 THEN EraseTrackingSession(id0) ELSE UNCHANGED sessions
  BY DEF DistanceStopDone
<1>2. /\ Base /\ Head(queue).kind = "distanceStopDone" /\ Typed /\ Disjoint
      /\ \E id \in Id : /\ id = id0 /\ id = Head(queue).id /\ id \in Nat \ {0} /\ id \in DOMAIN owner
                        /\ Awaited(Head(queue)) \/ Orphaned(Head(queue))
  BY <1>0, <1>1, HeadTaken DEF IdKinds, DoneKinds
<1>3. PICK id \in Id : /\ id = id0 /\ id = Head(queue).id
                       /\ Awaited(Head(queue)) \/ Orphaned(Head(queue))
  BY <1>2
<1>4. id \in stopped /\ ok0
  BY <1>2, <1>3 DEF Awaited, Says, Orphaned, ok0
<1>5. EraseTrackingSession(id)
  BY <1>1, <1>3, <1>4 DEF EraseTrackingSession
<1>6. Changed(id) /\ ~ Has(id)'
  BY <1>2, <1>5, EraseIs DEF Has, InTime, InDistance
<1> QED  BY <1>0, <1>1, <1>2, <1>3, <1>4, <1>6, ReportHeld

\* The client is gone: nobody is told.
LEMMA ClientStopDoneHeld ==
  ASSUME HeldInv, Obliging, "stopDistance" \notin Fails, ClientStopDone PROVE HeldFits'
<1>0. TrackIInv /\ HeldFits
  BY DEF HeldInv
<1>1. /\ Proc("clientStopDone") /\ UNCHANGED state /\ requests' = requests /\ UNCHANGED told
      /\ IF ok0 THEN EraseTrackingSession(id0) ELSE UNCHANGED sessions
  BY DEF ClientStopDone
<1>2. /\ Base /\ Head(queue).kind = "clientStopDone" /\ Typed /\ Disjoint
      /\ \E id \in Id : /\ id = id0 /\ id = Head(queue).id /\ id \in Nat \ {0} /\ id \in DOMAIN owner
                        /\ Awaited(Head(queue)) \/ Orphaned(Head(queue))
  BY <1>0, <1>1, HeadTaken DEF IdKinds, DoneKinds
<1>3. PICK id \in Id : /\ id = id0 /\ id = Head(queue).id
                       /\ Awaited(Head(queue)) \/ Orphaned(Head(queue))
  BY <1>2
<1>4. owner[id] \notin mClientData /\ ok0
  BY <1>2, <1>3 DEF Awaited, Says, Orphaned, ok0
<1>5. ReportResponse(id0, "nothing")
  BY <1>1, <1>3, <1>4 DEF ReportResponse
<1>6. EraseTrackingSession(id)
  BY <1>1, <1>3, <1>4 DEF EraseTrackingSession
<1>7. Changed(id) /\ ~ Has(id)'
  BY <1>2, <1>6, EraseIs DEF Has, InTime, InDistance
<1> QED  BY <1>0, <1>1, <1>2, <1>3, <1>5, <1>7, ReportHeld

LEMMA UpdateDoneHeld == ASSUME HeldInv, Obliging, UpdateDone PROVE HeldFits'
<1>0. TrackIInv /\ HeldFits
  BY DEF HeldInv
<1>1. /\ Proc("updateDone") /\ UNCHANGED state /\ requests' = requests
      /\ ReportResponse(id0, Result(ok0))
      /\ IF ok0 THEN UNCHANGED sessions ELSE SaveTrackingSession(id0, options0)
  BY DEF UpdateDone
<1>2. /\ Base /\ Head(queue).kind = "updateDone" /\ Typed /\ Disjoint
      /\ \E id \in Id : /\ id = id0 /\ id = Head(queue).id /\ id \in Nat \ {0} /\ id \in DOMAIN owner
                        /\ Awaited(Head(queue)) \/ Orphaned(Head(queue))
  BY <1>0, <1>1, HeadTaken DEF IdKinds, DoneKinds
<1>3. PICK id \in Id : /\ id = id0 /\ id = Head(queue).id
                       /\ Awaited(Head(queue)) \/ Orphaned(Head(queue))
  BY <1>2
<1>4. owner[id] \in mClientData /\ id \notin stopped /\ Has(id) /\ ok0
  BY <1>2, <1>3 DEF Awaited, Waits, Says, Orphaned, Has, ok0
<1>5. timeBased' = timeBased /\ distanceBased' = distanceBased /\ Changed(id)
  BY <1>1, <1>2, <1>4, Unmoved
<1>6. Has(id)'
  BY <1>4, <1>5 DEF Has, InTime, InDistance
<1> QED  BY <1>0, <1>1, <1>2, <1>3, <1>4, <1>5, <1>6, ReportHeld

\* A session that is saved is there.
LEMMA SavedHas ==
  ASSUME Typed, Disjoint, Obliging, NEW id \in Id, NEW o \in Options, SaveTrackingSession(id, o),
         o.minDistance = 0 => id \notin DOMAIN distanceBased, o.minDistance > 0 => id \notin DOMAIN timeBased
  PROVE  Has(id)' /\ Changed(id)
<1>1. SessionMap(timeBased) /\ SessionMap(distanceBased) /\ id \in Nat \ {0} /\ o.minDistance \in Nat
  BY IdsAre, OptionsAre DEF Typed
<1>2. id \in DOMAIN Save(timeBased, id, o) /\ id \in DOMAIN Save(distanceBased, id, o)
  BY DEF Save
<1>3. CASE o.minDistance = 0
  <2>1. timeBased' = Save(timeBased, id, o) /\ Changed(id)
    BY <1>3, SaveIs
  <2> QED  BY <1>2, <2>1 DEF Has, InTime
<1>4. CASE o.minDistance > 0
  <2>1. distanceBased' = Save(distanceBased, id, o) /\ Changed(id)
    BY <1>4, SaveIs
  <2> QED  BY <1>2, <2>1 DEF Has, InDistance
<1> QED  BY <1>1, <1>3, <1>4

LEMMA RestartDoneHeld == ASSUME HeldInv, Obliging, RestartDone PROVE HeldFits'
<1>0. TrackIInv /\ HeldFits
  BY DEF HeldInv
<1>1. /\ Proc("restartDone") /\ UNCHANGED state /\ requests' = requests
      /\ ReportResponse(id0, Result(ok0))
      /\ IF ok0 THEN SaveTrackingSession(id0, options0) ELSE UNCHANGED sessions
  BY DEF RestartDone
<1>2. /\ Base /\ Head(queue).kind = "restartDone" /\ Typed /\ Disjoint
      /\ \E id \in Id : /\ id = id0 /\ id = Head(queue).id /\ id \in Nat \ {0} /\ id \in DOMAIN owner
                        /\ Awaited(Head(queue)) \/ Orphaned(Head(queue))
  BY <1>0, <1>1, HeadTaken DEF IdKinds, DoneKinds
<1>3. PICK id \in Id : /\ id = id0 /\ id = Head(queue).id
                       /\ Awaited(Head(queue)) \/ Orphaned(Head(queue))
  BY <1>2
<1>4. /\ owner[id] \in mClientData /\ id \notin stopped /\ InDistance(id)
      /\ options0 \in Options /\ options0.minDistance > 0
  BY <1>2, <1>3 DEF Awaited, Waits, Says, Orphaned, options0
<1>5. PICK o \in Options : o = options0 /\ o.minDistance > 0
  BY <1>4
<1>6. Has(id)' /\ Changed(id)
  <2>1. CASE ok0
    <3>1. SaveTrackingSession(id, o)
      BY <1>1, <1>3, <1>5, <2>1 DEF SaveTrackingSession
    <3>2. id \notin DOMAIN timeBased /\ o.minDistance # 0
      BY <1>2, <1>4, <1>5, OptionsAre DEF InDistance, Disjoint
    <3> QED  BY <1>2, <3>1, <3>2, SavedHas
  <2>2. CASE ~ ok0
    <3>1. timeBased' = timeBased /\ distanceBased' = distanceBased /\ Changed(id)
      BY <1>1, <1>2, <2>2, Unmoved
    <3> QED  BY <1>4, <3>1 DEF Has, InDistance
  <2> QED  BY <2>1, <2>2
<1> QED  BY <1>0, <1>1, <1>2, <1>3, <1>4, <1>6, ReportHeld

LEMMA AsksOne ==
  ASSUME NEW rs, NEW ops, NEW reply, OneRequest(rs, ops, reply), rs # <<>>
  PROVE  \E r \in Elems(rs) : r.reply = reply
<1>1. PICK r \in Req : rs = <<r>> /\ r.reply = reply
  BY DEF OneRequest
<1>2. Elems(<<r>>) = {r}
  BY Single
<1> QED  BY <1>1, <1>2

\* It asks the modem, or tells the client at once.
LEMMA AskedHeld ==
  ASSUME TrackIInv, HeldFits, Base, NEW id \in Id, id = id0, Changed(id),
         NEW rs \in Seq(Req), AskAndReport(id, rs), NEW ops, NEW reply \in IdMsg, OneRequest(rs, ops, reply),
         reply.id = id, reply.kind \in DoneKinds,
         Has(id)' => owner[id] \in mClientData /\ id \notin stopped, id \notin stopped => Has(id)'
  PROVE  HeldFits'
<1>1. requests' = requests \o rs
  BY DEF AskAndReport, Ask
<1>2. CASE rs = <<>>
  <2>1. ReportResponse(id0, "success")
    BY <1>2 DEF AskAndReport, ReportResponse
  <2> QED  BY <1>1, <2>1, AnswerHeld
<1>3. CASE rs # <<>>
  <2>1. UNCHANGED told
    BY <1>3 DEF AskAndReport
  <2>2. \E r \in Elems(rs) : r.reply \in IdMsg /\ r.reply.id = id /\ r.reply.kind \in DoneKinds
    BY <1>3, AsksOne
  <2> QED  BY <1>1, <2>1, <2>2, AnswerHeld
<1> QED  BY <1>2, <1>3

\* It asks the modem one thing about a distance based session, and the client waits.
LEMMA DistanceHeld ==
  ASSUME TrackIInv, HeldFits, Base, NEW id \in Id, id = id0, Changed(id), UNCHANGED told,
         NEW op \in {"startDistance", "stopDistance"}, NEW reply \in IdMsg, reply.id = id, reply.kind \in DoneKinds,
         requests' = requests \o <<Request(op, id, Off, reply)>>
  PROVE  HeldFits'
<1> DEFINE rs == <<Request(op, id, Off, reply)>>
<1>1. id \in Nat
  BY IdsAre
<1>2. rs \in Seq(Req) /\ OneRequest(rs, {op}, reply)
  BY <1>1, DistanceAsked
<1>3. rs # <<>>
  OBVIOUS
<1> HIDE DEF rs
<1>4. \E r \in Elems(rs) : r.reply \in IdMsg /\ r.reply.id = id /\ r.reply.kind \in DoneKinds
  BY <1>2, <1>3, AsksOne
<1>5. requests' = requests \o rs
  BY DEF rs
<1> QED  BY <1>2, <1>4, <1>5, AnswerHeld

LEMMA RestartStopDoneHeld ==
  ASSUME HeldInv, Obliging, "stopDistance" \notin Fails, RestartStopDone PROVE HeldFits'
<1>0. TrackIInv /\ HeldFits
  BY DEF HeldInv
<1>1. /\ Proc("restartStopDone") /\ UNCHANGED state /\ UNCHANGED told /\ UNCHANGED sessions
      /\ Ask(IF ok0 THEN ToStartDistance(id0, Msg("restartDone", id0, options0)) ELSE <<>>)
  BY DEF RestartStopDone
<1>2. /\ Base /\ Head(queue).kind = "restartStopDone" /\ Typed /\ Disjoint
      /\ \E id \in Id : /\ id = id0 /\ id = Head(queue).id /\ id \in Nat \ {0} /\ id \in DOMAIN owner
                        /\ Awaited(Head(queue)) \/ Orphaned(Head(queue))
  BY <1>0, <1>1, HeadTaken DEF IdKinds, DoneKinds
<1>3. PICK id \in Id : /\ id = id0 /\ id = Head(queue).id
                       /\ Awaited(Head(queue)) \/ Orphaned(Head(queue))
  BY <1>2
<1>4. ok0 /\ options0 \in Options
  BY <1>2, <1>3 DEF Awaited, Says, Orphaned, options0, ok0
<1>5. PICK o \in Options : o = options0
  BY <1>4
<1> DEFINE reply == Msg("restartDone", id, o)
<1>6. reply \in IdMsg /\ reply.id = id /\ reply.kind \in DoneKinds
  <2>1. o \in R
    BY OptionsAre
  <2> QED  BY <2>1 DEF Msg, IdMsg, IdKinds, DoneKinds
<1>7. requests' = requests \o <<Request("startDistance", id, Off, reply)>>
  BY <1>1, <1>3, <1>4, <1>5 DEF Ask, ToStartDistance
<1> HIDE DEF reply
<1>8. Changed(id)
  BY <1>1, <1>2, Unmoved
<1> QED  BY <1>0, <1>1, <1>2, <1>3, <1>6, <1>7, <1>8, DistanceHeld

\* A session starts that is in no map yet.
LEMMA StartHeld ==
  ASSUME TrackIInv, HeldFits, Obliging, Base, NEW id \in Id, id = id0, Waits(id),
         ~ InDistance(id), id \notin stopped, NEW o \in Options, o.minDistance = 0, StartTimeBased(id, o)
  PROVE  HeldFits'
<1> DEFINE reply == Msg("startDone", id, Off)
           rs == ToStart(id, o)
<1>1. Typed /\ Disjoint /\ SessionMap(timeBased) /\ Target \in R
  BY DEF TrackIInv, Typed, EngineFits
<1>2. AskAndReport(id, rs) /\ SaveTrackingSession(id, o)
  BY DEF StartTimeBased
<1>3. Has(id)' /\ Changed(id)
  BY <1>1, <1>2, SavedHas DEF InDistance
<1>4. reply \in IdMsg /\ reply.kind \in DoneKinds /\ reply.id = id
  BY AnswerOff, KindsAre
<1>5. rs \in Seq(Req) /\ OneRequest(rs, {"start"}, reply)
  BY <1>1, ToStartServes
<1> HIDE DEF reply, rs
<1>6. owner[id] \in mClientData
  BY DEF Waits
<1> QED  BY <1>2, <1>3, <1>4, <1>5, <1>6, AskedHeld

LEMMA SwitchDoneHeld == ASSUME HeldInv, Obliging, SwitchDone PROVE HeldFits'
<1>0. TrackIInv /\ HeldFits
  BY DEF HeldInv
<1>1. Proc("switchDone") /\ UNCHANGED state /\ StartTimeBased(id0, options0)
  BY DEF SwitchDone
<1>2. /\ Base /\ Head(queue).kind = "switchDone" /\ Typed /\ Disjoint
      /\ \E id \in Id : /\ id = id0 /\ id = Head(queue).id /\ id \in Nat \ {0} /\ id \in DOMAIN owner
                        /\ Awaited(Head(queue)) \/ Orphaned(Head(queue))
  BY <1>0, <1>1, HeadTaken DEF IdKinds, DoneKinds
<1>3. PICK id \in Id : /\ id = id0 /\ id = Head(queue).id
                       /\ Awaited(Head(queue)) \/ Orphaned(Head(queue))
  BY <1>2
<1>4. /\ Waits(id) /\ ~ InDistance(id) /\ id \notin stopped
      /\ options0 \in Options /\ options0.minDistance = 0
  BY <1>2, <1>3 DEF Awaited, Says, Orphaned, options0
<1>5. PICK o \in Options : o = options0
  BY <1>4
<1>6. StartTimeBased(id, o)
  BY <1>1, <1>3, <1>5 DEF StartTimeBased
<1> QED  BY <1>0, <1>2, <1>3, <1>4, <1>5, <1>6, StartHeld

LEMMA ProcStartHeld == ASSUME HeldInv, Obliging, ProcStartTracking PROVE HeldFits'
<1>0. TrackIInv /\ HeldFits
  BY DEF HeldInv
<1>1. /\ Proc("start") /\ UNCHANGED state
      /\ IF owner[id0] \notin mClientData THEN UNCHANGED <<sessions, told, requests>>
         ELSE IF options0.minDistance > 0 /\ DistanceSupported
         THEN /\ SaveTrackingSession(id0, options0)
              /\ Ask(ToStartDistance(id0, Msg("startDone", id0, Off)))
              /\ UNCHANGED told
         ELSE StartTimeBased(id0, options0)
  BY DEF ProcStartTracking
<1>2. /\ Base /\ Head(queue).kind = "start" /\ Typed /\ Disjoint
      /\ \E id \in Id : /\ id = id0 /\ id = Head(queue).id /\ id \in Nat \ {0} /\ id \in DOMAIN owner
                        /\ Awaited(Head(queue)) \/ Orphaned(Head(queue))
  BY <1>0, <1>1, HeadTaken DEF IdKinds, CallKinds
<1>3. PICK id \in Id : /\ id = id0 /\ id = Head(queue).id
                       /\ Awaited(Head(queue)) \/ Orphaned(Head(queue))
  BY <1>2
<1>4. /\ Waits(id) /\ ~ InTime(id) /\ ~ InDistance(id) /\ id \notin stopped /\ options0 \in Options
  BY <1>2, <1>3 DEF Awaited, Says, Orphaned, options0
<1>5. PICK o \in Options : o = options0
  BY <1>4
<1>6. owner[id0] \in mClientData /\ DistanceSupported /\ o.minDistance \in Nat
  BY <1>3, <1>4, OptionsAre DEF Waits, Obliging
<1>7. CASE o.minDistance = 0
  <2>1. StartTimeBased(id, o)
    BY <1>1, <1>3, <1>5, <1>6, <1>7 DEF StartTimeBased
  <2> QED  BY <1>0, <1>2, <1>3, <1>4, <1>7, <2>1, StartHeld
<1>8. CASE o.minDistance > 0
  <2> DEFINE reply == Msg("startDone", id, Off)
  <2>1. /\ SaveTrackingSession(id0, options0) /\ UNCHANGED told
        /\ Ask(ToStartDistance(id0, Msg("startDone", id0, Off)))
    BY <1>1, <1>5, <1>6, <1>8
  <2>2. SaveTrackingSession(id, o)
    BY <1>3, <1>5, <2>1 DEF SaveTrackingSession
  <2>3. Changed(id)
    BY <1>2, <1>4, <1>8, <2>2, SaveIs DEF InTime
  <2>4. requests' = requests \o <<Request("startDistance", id, Off, reply)>>
    BY <1>3, <2>1 DEF Ask, ToStartDistance
  <2>5. reply \in IdMsg /\ reply.kind \in DoneKinds /\ reply.id = id
    BY AnswerOff, KindsAre
  <2> HIDE DEF reply
  <2> QED  BY <1>0, <1>2, <1>3, <2>1, <2>3, <2>4, <2>5, DistanceHeld
<1> QED  BY <1>6, <1>7, <1>8

LEMMA ProcStopHeld == ASSUME HeldInv, Obliging, ProcStopTracking PROVE HeldFits'
<1>0. TrackIInv /\ HeldFits
  BY DEF HeldInv
<1>1. /\ Proc("stop") /\ UNCHANGED state
      /\ IF id0 \in DOMAIN timeBased
         THEN AskAndReport(id0, ToStop(id0)) /\ EraseTrackingSession(id0)
         ELSE IF id0 \in DOMAIN distanceBased
         THEN /\ Ask(ToStopDistance(id0, Msg("distanceStopDone", id0, Off)))
              /\ UNCHANGED <<sessions, told>>
         ELSE ReportResponse(id0, "unknown") /\ UNCHANGED <<sessions, requests>>
  BY DEF ProcStopTracking
<1>2. /\ Base /\ Head(queue).kind = "stop" /\ Typed /\ Disjoint
      /\ \E id \in Id : /\ id = id0 /\ id = Head(queue).id /\ id \in Nat \ {0} /\ id \in DOMAIN owner
                        /\ Awaited(Head(queue)) \/ Orphaned(Head(queue))
  BY <1>0, <1>1, HeadTaken DEF IdKinds, CallKinds
<1>3. PICK id \in Id : /\ id = id0 /\ id = Head(queue).id
                       /\ Awaited(Head(queue)) \/ Orphaned(Head(queue))
  BY <1>2
<1>4. id \in stopped
  BY <1>2, <1>3 DEF Awaited, Says, Orphaned
<1>5. CASE id \in DOMAIN timeBased
  <2> DEFINE stops == Msg("stopDone", id, Off)
             starts == Msg("startDone", id, Off)
             rs == ToStop(id)
  <2>1. AskAndReport(id, rs) /\ EraseTrackingSession(id)
    BY <1>1, <1>3, <1>5 DEF AskAndReport, EraseTrackingSession, ReportResponse
  <2>2. Changed(id) /\ ~ Has(id)'
    BY <1>2, <2>1, EraseIs DEF Has, InTime, InDistance
  <2>3. /\ starts \in IdMsg /\ starts.kind \in DoneKinds /\ starts.id = id
        /\ stops \in IdMsg /\ stops.kind \in DoneKinds /\ stops.id = id
    BY AnswerOff, KindsAre
  <2>4. rs \in Seq(Req) /\ (OneRequest(rs, {"start"}, starts) \/ OneRequest(rs, {"stop"}, stops))
    BY <1>0, <1>2, <1>5, TargetTyped, ToStopServes DEF Typed
  <2> HIDE DEF starts, stops, rs
  <2>5. CASE OneRequest(rs, {"start"}, starts)
    BY <1>0, <1>2, <1>3, <1>4, <2>1, <2>2, <2>3, <2>4, <2>5, AskedHeld
  <2>6. CASE OneRequest(rs, {"stop"}, stops)
    BY <1>0, <1>2, <1>3, <1>4, <2>1, <2>2, <2>3, <2>4, <2>6, AskedHeld
  <2> QED  BY <2>4, <2>5, <2>6
<1>6. CASE id \notin DOMAIN timeBased /\ id \in DOMAIN distanceBased
  <2> DEFINE reply == Msg("distanceStopDone", id, Off)
  <2>1. /\ UNCHANGED sessions /\ UNCHANGED told
        /\ requests' = requests \o <<Request("stopDistance", id, Off, reply)>>
    BY <1>1, <1>3, <1>6 DEF Ask, ToStopDistance
  <2>2. Changed(id)
    BY <1>2, <2>1, Unmoved
  <2>3. reply \in IdMsg /\ reply.kind \in DoneKinds /\ reply.id = id
    BY AnswerOff, KindsAre
  <2> HIDE DEF reply
  <2> QED  BY <1>0, <1>2, <1>3, <2>1, <2>2, <2>3, DistanceHeld
<1>7. CASE id \notin DOMAIN timeBased /\ id \notin DOMAIN distanceBased
  <2>1. ReportResponse(id0, "unknown") /\ UNCHANGED sessions /\ requests' = requests
    BY <1>1, <1>3, <1>7
  <2>2. timeBased' = timeBased /\ distanceBased' = distanceBased /\ Changed(id)
    BY <1>2, <2>1, Unmoved
  <2>3. ~ Has(id)'
    BY <1>7, <2>2 DEF Has, InTime, InDistance
  <2> QED  BY <1>0, <1>2, <1>3, <2>1, <2>2, <2>3, ReportHeld
<1> QED  BY <1>5, <1>6, <1>7

LEMMA SwitchToDistanceHeld ==
  ASSUME TrackIInv, HeldFits, Obliging, Base, NEW id \in Id, id = id0, Waits(id),
         InTime(id), id \notin stopped, NEW o \in Options, o = options0, SwitchToDistance
  PROVE  HeldFits'
<1> DEFINE stops == Msg("stopDone", id, Off)
           starts == Msg("startDone", id, Off)
           rs == ToStop(id)
           more == <<Request("startDistance", id, Off, NoReply)>>
<1>1. Typed /\ Disjoint /\ SessionMap(timeBased) /\ SessionMap(distanceBased) /\ Target \in R /\ id \in Nat \ {0}
  BY TargetTyped, IdsAre DEF TrackIInv, Typed
<1>2. /\ requests' = requests \o (rs \o more)
      /\ IF rs = <<>> THEN ReportResponse(id0, "success") ELSE UNCHANGED told
      /\ timeBased' = Erase(timeBased, id) /\ distanceBased' = Save(distanceBased, id, o)
  BY DEF SwitchToDistance, Ask, ToStartDistance, Obliging
<1>3. /\ SessionMap(timeBased') /\ DOMAIN timeBased' = DOMAIN timeBased \ {id}
      /\ SessionMap(distanceBased') /\ DOMAIN distanceBased' = DOMAIN distanceBased \cup {id}
  <2>1. SessionMap(Erase(timeBased, id)) /\ DOMAIN Erase(timeBased, id) = DOMAIN timeBased \ {id}
    BY <1>1, Erased
  <2>2. SessionMap(Save(distanceBased, id, o)) /\ DOMAIN Save(distanceBased, id, o) = DOMAIN distanceBased \cup {id}
    BY <1>1, Saved
  <2> QED  BY <1>2, <2>1, <2>2
<1>4. Changed(id) /\ Has(id)'
  BY <1>1, <1>3 DEF Changed, Disjoint, Has, InDistance
<1>5. /\ starts \in IdMsg /\ starts.kind \in DoneKinds /\ starts.id = id
      /\ stops \in IdMsg /\ stops.kind \in DoneKinds /\ stops.id = id
  BY AnswerOff, KindsAre
<1>6. rs \in Seq(Req) /\ (OneRequest(rs, {"start"}, starts) \/ OneRequest(rs, {"stop"}, stops))
  BY <1>1, ToStopServes DEF InTime
<1>7. more \in Seq(Req)
  BY <1>1, DistanceAsked
<1> HIDE DEF starts, stops, rs, more
<1>8. rs \o more \in Seq(Req) /\ Elems(rs) \subseteq Elems(rs \o more)
  <2>1. rs \o more \in Seq(Req) /\ Elems(rs \o more) = Elems(rs) \cup Elems(more)
    BY <1>6, <1>7, Joined
  <2> QED  BY <2>1
<1>9. PICK all \in Seq(Req) : all = rs \o more /\ Elems(rs) \subseteq Elems(all) /\ requests' = requests \o all
  BY <1>2, <1>8
<1>10. CASE rs = <<>>
  <2>1. ReportResponse(id0, "success") /\ owner[id] \in mClientData
    BY <1>2, <1>10 DEF Waits
  <2> QED  BY <1>4, <1>9, <2>1, AnswerHeld
<1>11. CASE rs # <<>>
  <2>1. UNCHANGED told
    BY <1>2, <1>11
  <2>2. \E r \in Elems(rs) : r.reply \in {starts, stops}
    BY <1>6, <1>11, AsksOne
  <2>3. \E r \in Elems(all) : r.reply \in IdMsg /\ r.reply.id = id /\ r.reply.kind \in DoneKinds
    BY <1>5, <1>9, <2>2
  <2> QED  BY <1>4, <1>9, <2>1, <2>3, AnswerHeld
<1> QED  BY <1>10, <1>11

LEMMA UpdateTimeBasedHeld ==
  ASSUME TrackIInv, HeldFits, Obliging, Base, NEW id \in Id, id = id0, Waits(id),
         InTime(id), id \notin stopped, NEW o \in Options, o = options0, o.minDistance = 0, UpdateTimeBased
  PROVE  HeldFits'
<1>1. /\ Typed /\ Disjoint /\ SessionMap(timeBased) /\ Target \in R
      /\ id \in DOMAIN timeBased /\ id \notin DOMAIN distanceBased
  BY TargetTyped DEF TrackIInv, Typed, Disjoint, InTime
<1>2. PICK old \in Options : old = timeBased[id] /\ old \in R
  BY <1>1, OptionsOf, OptionsAre
<1> DEFINE reply == Msg("updateDone", id, old)
           rs == ToUpdate(id, o)
<1>3. AskAndReport(id, rs) /\ SaveTrackingSession(id, o)
  BY DEF UpdateTimeBased
<1>4. Has(id)' /\ Changed(id)
  BY <1>1, <1>3, SavedHas
<1>5. reply \in IdMsg /\ reply.kind \in DoneKinds /\ reply.id = id
  BY <1>2 DEF Msg, IdMsg, IdKinds, DoneKinds
<1>6. rs \in Seq(Req) /\ OneRequest(rs, {"start"}, reply)
  BY <1>1, <1>2, ToUpdateServes
<1> HIDE DEF reply, rs
<1>7. owner[id] \in mClientData
  BY DEF Waits
<1> QED  BY <1>3, <1>4, <1>5, <1>6, <1>7, AskedHeld

LEMMA ProcUpdateHeld == ASSUME HeldInv, Obliging, ProcUpdateTracking PROVE HeldFits'
<1>0. TrackIInv /\ HeldFits
  BY DEF HeldInv
<1>1. /\ Proc("update") /\ UNCHANGED state
      /\ \/ id0 \in DOMAIN timeBased /\ options0.minDistance # 0 /\ SwitchToDistance
         \/ id0 \in DOMAIN distanceBased /\ options0.minDistance = 0 /\ SwitchToTime
         \/ id0 \in DOMAIN timeBased /\ options0.minDistance = 0 /\ UpdateTimeBased
         \/ id0 \in DOMAIN distanceBased /\ options0.minDistance # 0 /\ RestartDistance
         \/ id0 \notin DOMAIN timeBased /\ id0 \notin DOMAIN distanceBased /\ UpdateUnknown
  BY DEF ProcUpdateTracking
<1>2. /\ Base /\ Head(queue).kind = "update" /\ Typed /\ Disjoint
      /\ \E id \in Id : /\ id = id0 /\ id = Head(queue).id /\ id \in Nat \ {0} /\ id \in DOMAIN owner
                        /\ Awaited(Head(queue)) \/ Orphaned(Head(queue))
  BY <1>0, <1>1, HeadTaken DEF IdKinds, CallKinds
<1>3. PICK id \in Id : /\ id = id0 /\ id = Head(queue).id
                       /\ Awaited(Head(queue)) \/ Orphaned(Head(queue))
  BY <1>2
<1>4. Waits(id) /\ id \notin stopped /\ options0 \in Options
  BY <1>2, <1>3 DEF Awaited, Says, Orphaned, options0
<1>5. PICK o \in Options : o = options0 /\ o \in R
  BY <1>4, OptionsAre
<1>6. CASE id0 \in DOMAIN timeBased /\ SwitchToDistance
  BY <1>0, <1>2, <1>3, <1>4, <1>5, <1>6, SwitchToDistanceHeld DEF InTime
<1>7. CASE id0 \in DOMAIN distanceBased /\ SwitchToTime
  <2> DEFINE reply == Msg("switchDone", id, o)
  <2>1. /\ EraseTrackingSession(id) /\ UNCHANGED told
        /\ requests' = requests \o <<Request("stopDistance", id, Off, reply)>>
    BY <1>3, <1>5, <1>7 DEF SwitchToTime, Ask, ToStopDistance, EraseTrackingSession
  <2>2. Changed(id)
    BY <1>2, <2>1, EraseIs
  <2>3. reply \in IdMsg /\ reply.kind \in DoneKinds /\ reply.id = id
    BY <1>5 DEF Msg, IdMsg, IdKinds, DoneKinds
  <2> HIDE DEF reply
  <2> QED  BY <1>0, <1>2, <1>3, <2>1, <2>2, <2>3, DistanceHeld
<1>8. CASE id0 \in DOMAIN timeBased /\ options0.minDistance = 0 /\ UpdateTimeBased
  BY <1>0, <1>2, <1>3, <1>4, <1>5, <1>8, UpdateTimeBasedHeld DEF InTime
<1>9. CASE id0 \in DOMAIN distanceBased /\ RestartDistance
  <2> DEFINE reply == Msg("restartStopDone", id, o)
  <2>1. /\ UNCHANGED sessions /\ UNCHANGED told
        /\ requests' = requests \o <<Request("stopDistance", id, Off, reply)>>
    BY <1>3, <1>5, <1>9 DEF RestartDistance, Ask, ToStopDistance
  <2>2. Changed(id)
    BY <1>2, <2>1, Unmoved
  <2>3. reply \in IdMsg /\ reply.kind \in DoneKinds /\ reply.id = id
    BY <1>5 DEF Msg, IdMsg, IdKinds, DoneKinds
  <2> HIDE DEF reply
  <2> QED  BY <1>0, <1>2, <1>3, <2>1, <2>2, <2>3, DistanceHeld
<1>10. CASE id0 \notin DOMAIN timeBased /\ id0 \notin DOMAIN distanceBased /\ UpdateUnknown
  <2>1. ReportResponse(id0, "unknown") /\ UNCHANGED sessions /\ requests' = requests
    BY <1>10 DEF UpdateUnknown
  <2>2. timeBased' = timeBased /\ distanceBased' = distanceBased /\ Changed(id)
    BY <1>2, <2>1, Unmoved
  <2>3. ~ Has(id)'
    BY <1>3, <1>10, <2>2 DEF Has, InTime, InDistance
  <2> QED  BY <1>0, <1>2, <1>3, <2>1, <2>2, <2>3, ReportHeld
<1> QED  BY <1>1, <1>6, <1>7, <1>8, <1>9, <1>10

-----------------------------------------------------------------------------
(* The sessions are as the clients were told, and no call is forgotten *)

LEMMA HeldInit == ASSUME Init PROVE HeldInv
<1>1. DOMAIN owner = {} /\ \A id \in Id : answer[id] = "nothing"
  BY DEF Init
<1> QED  BY <1>1, TrackInit DEF HeldInv, HeldFits

LEMMA HeldKeeps == ASSUME HeldInv, Obliging, "stopDistance" \notin Fails, [Next]_vars PROVE HeldInv'
<1>1. TrackIInv'
  BY TrackKeeps DEF HeldInv
<1>2. CASE Calls
  <2>1. ASSUME NEW c \in Client, RemoveClientCommand(c) PROVE HeldFits'
    BY <2>1, OutsideHeld
  <2>2. ASSUME NEW c \in Client, NEW o \in Options, StartTrackingCommand(c, o) PROVE HeldFits'
    BY <2>2, StartCallHeld
  <2>3. ASSUME NEW id \in Id, StopTrackingCommand(id) PROVE HeldFits'
    BY <2>3, StopCallHeld
  <2>4. ASSUME NEW id \in Id, NEW o \in Options, UpdateTrackingOptionsCommand(id, o) PROVE HeldFits'
    BY <2>4, UpdateCallHeld
  <2>5. ASSUME NEW power \in {"suspend", "resume"}, UpdateSystemPowerStateCommand(power) PROVE HeldFits'
    BY <2>5, OutsideHeld
  <2>6. HeldFits'
    BY <1>2, <2>1, <2>2, <2>3, <2>4, <2>5 DEF Calls
  <2> QED  BY <1>1, <2>6 DEF HeldInv
<1>3. CASE MsgTask
  <2>1. HeldFits'
    BY <1>3, PostponeHeld, ProcStartHeld, ProcStopHeld, ProcUpdateHeld, StopClientHeld, EraseClientHeld,
       PowerHeld, EngineUpHandledHeld, StartDoneHeld, StopDoneHeld, DistanceStopDoneHeld,
       ClientStopDoneHeld, UpdateDoneHeld, SwitchDoneHeld, RestartStopDoneHeld, RestartDoneHeld
       DEF MsgTask
  <2> QED  BY <1>1, <2>1 DEF HeldInv
<1>4. CASE Modem
  BY <1>1, <1>4, ModemHeld DEF HeldInv
<1>5. CASE EngineUp
  BY <1>1, <1>5, OutsideHeld DEF HeldInv
<1>6. CASE UNCHANGED vars
  <2>1. /\ UNCHANGED <<sessions, told, owner, stopped, mClientData>>
        /\ queue' = queue /\ mPendingMsgs' = mPendingMsgs /\ requests' = requests
    BY <1>6 DEF vars, calls, state
  <2>2. \A id : Goes(id)
    <3>1. Flying' = Flying
      BY <2>1 DEF Flying
    <3> QED  BY <3>1, GoesOn
  <2>3. \A c : Ending(c) => Ending(c)'
    BY <2>1 DEF Ending
  <2>4. HeldFits'
    BY <2>1, <2>2, <2>3, AllStill DEF HeldInv, TrackIInv
  <2> QED  BY <1>1, <2>4 DEF HeldInv
<1> QED  BY <1>2, <1>3, <1>4, <1>5, <1>6 DEF Next

\* When the adapter has nothing to do, only postponed calls are in flight, and their clients wait.
LEMMA SettledFlight ==
  ASSUME TrackIInv, Settled, NEW m \in Flying
  PROVE  m \in Elems(mPendingMsgs) /\ m.kind \in {"start", "update"} /\ Awaited(m)
<1>1. Elems(queue) = {} /\ {r.reply : r \in Elems(requests)} = {}
  <2>1. Elems(<<>>) = {}
    BY Single
  <2> QED  BY <2>1 DEF Settled
<1>2. m \in Elems(mPendingMsgs) /\ m.kind \in {"start", "update"}
  BY <1>1 DEF Flying, TrackIInv, Typed
<1>3. MsgFits(m)
  BY DEF TrackIInv, FlightFits
<1> QED  BY <1>2, <1>3 DEF MsgFits, Orphaned

LEMMA Holding == ASSUME HeldInv PROVE SessionsAsTold
<1>1. Typed /\ TrackIInv /\ \A id \in DOMAIN owner : Held(id)
  BY DEF HeldInv, TrackIInv, HeldFits
<1>2. ASSUME Settled, NEW id \in DOMAIN timeBased \cup DOMAIN distanceBased
      PROVE  owner[id] \in mClientData /\ id \notin stopped
  <2>1. Has(id) /\ Held(id)
    BY <1>1 DEF Has, InTime, InDistance, Typed
  <2>2. CASE Rests(id)
    BY <2>1, <2>2 DEF Rests
  <2>3. CASE InFlight(id)
    <3>1. PICK m \in Flying : m.id = id
      BY <2>3 DEF InFlight
    <3>2. Waits(id) /\ Says(m) /\ m.kind \in {"start", "update"}
      BY <1>1, <1>2, <3>1, SettledFlight DEF Awaited
    <3> QED  BY <3>1, <3>2 DEF Waits, Says
  <2> QED  BY <2>1, <2>2, <2>3 DEF Held
<1>3. ASSUME Settled, NEW id \in DOMAIN owner,
             owner[id] \in mClientData, answer[id] = "success", id \notin stopped
      PROVE  id \in DOMAIN timeBased \cup DOMAIN distanceBased
  <2>1. ~ AtWork(id)
    BY <1>1, <1>3, SettledFlight DEF AtWork
  <2>2. Lives(id)
    BY <1>1, <2>1 DEF Held
  <2>3. ~ Ending(owner[id])
    BY <1>3 DEF Ending, Settled
  <2> QED  BY <1>3, <2>2, <2>3 DEF Lives, Has, InTime, InDistance
<1> QED  BY <1>2, <1>3 DEF SessionsAsTold, NoGhostSession, NoSessionLost

LEMMA Answering == ASSUME HeldInv PROVE EveryCallAnswered
<1>1. Typed /\ TrackIInv /\ Postponed /\ \A id \in DOMAIN owner : Held(id)
  BY DEF HeldInv, TrackIInv, HeldFits
<1>2. ASSUME Settled, known, NEW id \in waiting PROVE owner[id] \notin mClientData
  <2>1. Elems(mPendingMsgs) = {}
    BY <1>1, <1>2, Single DEF Postponed
  <2>2. ~ InFlight(id)
    BY <1>1, <1>2, <2>1, SettledFlight DEF InFlight
  <2>3. Rests(id)
    BY <1>1, <2>2 DEF Held, Typed
  <2> QED  BY <2>3 DEF Rests
<1> QED  BY <1>2 DEF EveryCallAnswered

\* A session that was stopped, or whose client was removed, is in no map when the adapter and
\* the modem have nothing left to do, and one its client was told has started is in a map until
\* it is stopped: if the modem refuses no request but to start a distance based session.
THEOREM SessionsHeld == ASSUME Obliging, "stopDistance" \notin Fails PROVE Spec => []SessionsAsTold
<1>1. HeldInv => SessionsAsTold
  BY Holding
<1> QED  BY <1>1, HeldInit, HeldKeeps, PTL DEF Spec

\* Then every call about a session has been answered, unless its client was removed.
THEOREM CallsAnswered == ASSUME Obliging, "stopDistance" \notin Fails PROVE Spec => []EveryCallAnswered
<1>1. HeldInv => EveryCallAnswered
  BY Answering
<1> QED  BY <1>1, HeldInit, HeldKeeps, PTL DEF Spec
=============================================================================
