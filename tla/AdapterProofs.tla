---------------------------- MODULE AdapterProofs ----------------------------
(***************************************************************************)
(* Proofs about GnssAdapter's smaller services, for any bounds: coarse     *)
(* positions on demand, network initiated requests, the lock on positions  *)
(* and the mask of events.  In all of them the modem is told through a     *)
(* queue, so the inductive invariants relate what is stored, what is on    *)
(* its way and what the modem has.                                         *)
(***************************************************************************)
EXTENDS Odcpi, NiSessions, GpsControl, EventMask, SequenceTheorems, TLAPS

-----------------------------------------------------------------------------
(* On demand coarse positions: the inductive invariant *)

OdcpiMsgs == [op : {"START", "STOP"}, kind : OdcpiKind]
             \cup [op : {"expire", "engineUp", "init", "deRegister"}, kind : {NoOdcpi}]

StartsCall(m) == m = OdcpiMsg("START", "emergency")
StopsCall(m) == m = OdcpiMsg("STOP", "emergency")

\* In a queue q, with a call reported or not: the modem starts and stops no other session
\* before it has stopped an emergency.
OthersFollowStop(q, call) ==
    /\ \A j, i \in 1..Len(q) : StartsCall(q[j]) /\ q[i].kind = "normal" /\ j < i =>
           \E k \in 1..Len(q) : j < k /\ k < i /\ StopsCall(q[k])
    /\ call => \A i \in 1..Len(q) : q[i].kind = "normal" =>
                   \E k \in 1..Len(q) : k < i /\ StopsCall(q[k])

\* An emergency that is over for the modem has a STOP under way.
StopUnderWay(q, call, session) ==
    session # "emergency" =>
        /\ \A j \in 1..Len(q) : StartsCall(q[j]) =>
               \E k \in 1..Len(q) : j < k /\ StopsCall(q[k])
        /\ call => \E k \in 1..Len(q) : StopsCall(q[k])

CallsOrdered == ~callCut => /\ OthersFollowStop(odcpiQueue, inEmergencyCall)
                            /\ StopUnderWay(odcpiQueue, inEmergencyCall, modemSession)

OdcpiTyped ==
    /\ odcpiQueue \in Seq(OdcpiMsgs)
    /\ odcpiActive \in BOOLEAN /\ mOdcpiRequest \in OdcpiKind
    /\ odcpiTimerActive \in BOOLEAN /\ odcpiTimerRuns \in BOOLEAN
    /\ modemSession \in OdcpiKind \cup {NoOdcpi}
    /\ inEmergencyCall \in BOOLEAN /\ callCut \in BOOLEAN

OdcpiIInv == OdcpiTyped /\ OdcpiConsistent /\ CallsOrdered

-----------------------------------------------------------------------------
(* What a message that is posted, or taken, means for the ones in the queue *)

Expires(q) == \E i \in 1..Len(q) : q[i].op = "expire"

\* A message at the end leaves the others where they are.
LEMMA OdcpiAppended ==
  ASSUME NEW q \in Seq(OdcpiMsgs), NEW m \in OdcpiMsgs
  PROVE  LET p == Append(q, m)
         IN  /\ p \in Seq(OdcpiMsgs) /\ Len(p) = Len(q) + 1 /\ Len(q) \in Nat
             /\ p[Len(p)] = m /\ \A i \in 1..Len(q) : p[i] = q[i]
             /\ Expires(p) <=> Expires(q) \/ m.op = "expire"
  BY DEF Expires

\* The head that is taken moves the others to the front.
LEMMA OdcpiTailed ==
  ASSUME NEW q \in Seq(OdcpiMsgs), q # <<>>
  PROVE  LET p == Tail(q)
         IN  /\ p \in Seq(OdcpiMsgs) /\ Len(p) = Len(q) - 1 /\ Len(q) \in Nat \ {0}
             /\ Head(q) = q[1] /\ q[1] \in OdcpiMsgs
             /\ \A i \in 1..Len(p) : p[i] = q[i + 1]
             /\ \A i \in 2..Len(q) : i - 1 \in 1..Len(p) /\ p[i - 1] = q[i]
             /\ Expires(q) => Expires(p) \/ q[1].op = "expire"
<1> DEFINE p == Tail(q)
<1>1. /\ p \in Seq(OdcpiMsgs) /\ Len(p) = Len(q) - 1 /\ Len(q) \in Nat \ {0}
      /\ Head(q) = q[1] /\ q[1] \in OdcpiMsgs
      /\ \A i \in 1..Len(p) : p[i] = q[i + 1]
  OBVIOUS
<1>2. \A i \in 2..Len(q) : i - 1 \in 1..Len(p) /\ p[i - 1] = q[i]
  BY <1>1
<1> HIDE DEF p
<1>3. ASSUME NEW i \in 1..Len(q), q[i].op = "expire", i # 1
      PROVE  Expires(p)
  <2>1. i \in 2..Len(q)
    BY <1>1, <1>3
  <2>2. i - 1 \in 1..Len(p) /\ p[i - 1].op = "expire"
    BY <1>2, <1>3, <2>1
  <2> QED  BY <2>2 DEF Expires
<1>4. Expires(q) => Expires(p) \/ q[1].op = "expire"
  BY <1>3 DEF Expires
<1> QED  BY <1>1, <1>2, <1>4 DEF p

\* The order is kept when the adapter takes the head: a call is reported from then on only
\* if the head starts one, or one was and the head does not stop it.
LEMMA TakenKeepsOrder ==
  ASSUME NEW q \in Seq(OdcpiMsgs), q # <<>>, NEW call, NEW call2, NEW session,
         OthersFollowStop(q, call), StopUnderWay(q, call, session),
         call2 => (call /\ ~StopsCall(q[1])) \/ StartsCall(q[1])
  PROVE  OthersFollowStop(Tail(q), call2) /\ StopUnderWay(Tail(q), call2, session)
<1> DEFINE p == Tail(q)
<1>1. /\ Len(p) = Len(q) - 1 /\ Len(q) \in Nat \ {0}
      /\ \A i \in 1..Len(p) : p[i] = q[i + 1]
      /\ \A i \in 2..Len(q) : i - 1 \in 1..Len(p) /\ p[i - 1] = q[i]
  BY OdcpiTailed
<1> HIDE DEF p
<1>2. \A i \in 1..Len(p) : i + 1 \in 1..Len(q) /\ p[i] = q[i + 1] /\ i \in Nat /\ i >= 1
  BY <1>1
<1>3. ASSUME NEW k \in 1..Len(q), k # 1, StopsCall(q[k])
      PROVE  /\ k - 1 \in 1..Len(p) /\ StopsCall(p[k - 1])
             /\ \A j \in Nat : (j + 1 < k => j < k - 1) /\ (k < j + 1 => k - 1 < j)
  <2>1. k \in 2..Len(q) /\ k \in Nat
    BY <1>1, <1>3
  <2>2. k - 1 \in 1..Len(p) /\ p[k - 1] = q[k]
    BY <1>1, <2>1
  <2> QED  BY <1>3, <2>1, <2>2
<1>4. ASSUME NEW j \in 1..Len(p), NEW i \in 1..Len(p),
             StartsCall(p[j]), p[i].kind = "normal", j < i
      PROVE  \E k \in 1..Len(p) : j < k /\ k < i /\ StopsCall(p[k])
  <2>1. PICK k \in 1..Len(q) : j + 1 < k /\ k < i + 1 /\ StopsCall(q[k])
    BY <1>2, <1>4 DEF OthersFollowStop
  <2>2. k # 1
    BY <2>1
  <2> QED  BY <1>2, <1>3, <2>1, <2>2
<1>5. ASSUME call2, NEW i \in 1..Len(p), p[i].kind = "normal"
      PROVE  \E k \in 1..Len(p) : k < i /\ StopsCall(p[k])
  <2>0. 1 \in 1..Len(q) /\ i + 1 \in 1..Len(q) /\ 1 < i + 1 /\ q[i + 1].kind = "normal"
    BY <1>1, <1>2, <1>5
  <2>1. PICK k \in 1..Len(q) : k < i + 1 /\ k # 1 /\ StopsCall(q[k])
    <3>1. CASE StartsCall(q[1])
      <4>1. PICK k \in 1..Len(q) : 1 < k /\ k < i + 1 /\ StopsCall(q[k])
        BY <2>0, <3>1 DEF OthersFollowStop
      <4> QED  BY <4>1
    <3>2. CASE call /\ ~StopsCall(q[1])
      BY <2>0, <3>2 DEF OthersFollowStop
    <3> QED  BY <1>5, <3>1, <3>2
  <2> QED  BY <1>2, <1>3, <2>1
<1>6. ASSUME session # "emergency", NEW j \in 1..Len(p), StartsCall(p[j])
      PROVE  \E k \in 1..Len(p) : j < k /\ StopsCall(p[k])
  <2>1. PICK k \in 1..Len(q) : j + 1 < k /\ StopsCall(q[k])
    BY <1>2, <1>6 DEF StopUnderWay
  <2>2. k # 1
    BY <2>1
  <2> QED  BY <1>2, <1>3, <2>1, <2>2
<1>7. ASSUME session # "emergency", call2
      PROVE  \E k \in 1..Len(p) : StopsCall(p[k])
  <2>1. PICK k \in 1..Len(q) : k # 1 /\ StopsCall(q[k])
    <3>0. 1 \in 1..Len(q)
      BY <1>1
    <3>1. CASE StartsCall(q[1])
      <4>1. PICK k \in 1..Len(q) : 1 < k /\ StopsCall(q[k])
        BY <1>7, <3>0, <3>1 DEF StopUnderWay
      <4> QED  BY <4>1
    <3>2. CASE call /\ ~StopsCall(q[1])
      BY <1>7, <3>2 DEF StopUnderWay
    <3> QED  BY <1>7, <3>1, <3>2
  <2> QED  BY <1>3, <2>1
<1>8. OthersFollowStop(p, call2)
  BY <1>4, <1>5 DEF OthersFollowStop
<1>9. StopUnderWay(p, call2, session)
  BY <1>6, <1>7 DEF StopUnderWay
<1> QED  BY <1>8, <1>9 DEF p

\* The order is kept when a message is posted: one about another session is only sent when
\* the modem has no emergency, which a STOP ends.
LEMMA PostedKeepsOrder ==
  ASSUME NEW q \in Seq(OdcpiMsgs), NEW m \in OdcpiMsgs,
         NEW call, NEW session, NEW session2,
         OthersFollowStop(q, call), StopUnderWay(q, call, session),
         m.kind = "normal" => session # "emergency",
         session2 # "emergency" => session # "emergency" \/ StopsCall(m),
         StartsCall(m) => session2 = "emergency"
  PROVE  /\ OthersFollowStop(Append(q, m), call)
         /\ StopUnderWay(Append(q, m), call, session2)
<1> DEFINE p == Append(q, m)
           last == Len(q) + 1
<1>1. /\ Len(q) \in Nat /\ last \in 1..Len(p) /\ p[last] = m
      /\ \A i \in 1..Len(q) : i \in 1..Len(p) /\ p[i] = q[i] /\ i < last
      /\ \A i \in 1..Len(p) : i \in 1..Len(q) \/ i = last
      /\ \A i \in 1..Len(p) : ~(last < i)
  BY OdcpiAppended
<1> HIDE DEF p, last
<1>2. ASSUME NEW k \in 1..Len(q), StopsCall(q[k])
      PROVE  k \in 1..Len(p) /\ StopsCall(p[k]) /\ k < last
  BY <1>1, <1>2
<1>4. ASSUME NEW j \in 1..Len(p), NEW i \in 1..Len(p),
             StartsCall(p[j]), p[i].kind = "normal", j < i
      PROVE  \E k \in 1..Len(p) : j < k /\ k < i /\ StopsCall(p[k])
  <2>1. j \in 1..Len(q) /\ StartsCall(q[j])
    BY <1>1, <1>4
  <2>2. CASE i \in 1..Len(q)
    <3>1. PICK k \in 1..Len(q) : j < k /\ k < i /\ StopsCall(q[k])
      BY <1>1, <1>4, <2>1, <2>2 DEF OthersFollowStop
    <3> QED  BY <1>2, <3>1
  <2>3. CASE i = last
    <3>0. session # "emergency"
      BY <1>1, <1>4, <2>3
    <3>1. PICK k \in 1..Len(q) : j < k /\ StopsCall(q[k])
      BY <3>0, <2>1 DEF StopUnderWay
    <3> QED  BY <1>2, <2>3, <3>1
  <2> QED  BY <1>1, <2>2, <2>3
<1>5. ASSUME call, NEW i \in 1..Len(p), p[i].kind = "normal"
      PROVE  \E k \in 1..Len(p) : k < i /\ StopsCall(p[k])
  <2>1. CASE i \in 1..Len(q)
    <3>1. PICK k \in 1..Len(q) : k < i /\ StopsCall(q[k])
      BY <1>1, <1>5, <2>1 DEF OthersFollowStop
    <3> QED  BY <1>2, <3>1
  <2>2. CASE i = last
    <3>0. session # "emergency"
      BY <1>1, <1>5, <2>2
    <3>1. PICK k \in 1..Len(q) : StopsCall(q[k])
      BY <1>5, <3>0 DEF StopUnderWay
    <3> QED  BY <1>2, <2>2, <3>1
  <2> QED  BY <1>1, <2>1, <2>2
<1>6. ASSUME session2 # "emergency", NEW j \in 1..Len(p), StartsCall(p[j])
      PROVE  \E k \in 1..Len(p) : j < k /\ StopsCall(p[k])
  <2>0. j \in 1..Len(q) /\ StartsCall(q[j]) /\ j < last
    BY <1>1, <1>6
  <2>1. CASE session # "emergency"
    <3>2. PICK k \in 1..Len(q) : j < k /\ StopsCall(q[k])
      BY <2>0, <2>1 DEF StopUnderWay
    <3> QED  BY <1>2, <3>2
  <2>2. CASE StopsCall(m)
    BY <1>1, <2>0, <2>2
  <2> QED  BY <1>6, <2>1, <2>2
<1>7. ASSUME session2 # "emergency", call
      PROVE  \E k \in 1..Len(p) : StopsCall(p[k])
  <2>1. CASE session # "emergency"
    <3>1. PICK k \in 1..Len(q) : StopsCall(q[k])
      BY <1>7, <2>1 DEF StopUnderWay
    <3> QED  BY <1>2, <3>1
  <2>2. CASE StopsCall(m)
    BY <1>1, <2>2
  <2> QED  BY <1>7, <2>1, <2>2
<1>8. OthersFollowStop(p, call)
  BY <1>4, <1>5 DEF OthersFollowStop
<1>9. StopUnderWay(p, call, session2)
  BY <1>6, <1>7 DEF StopUnderWay
<1> QED  BY <1>8, <1>9 DEF p

-----------------------------------------------------------------------------
(* The steps *)

LEMMA OdcpiStarts == ASSUME OdcpiAssumption, OdcpiInit PROVE OdcpiIInv
<1>1. OdcpiTyped
  <2>1. odcpiQueue \in Seq(OdcpiMsgs)
    BY DEF OdcpiInit
  <2> QED  BY <2>1 DEF OdcpiInit, OdcpiTyped, OdcpiKind
<1>2. OdcpiConsistent
  BY DEF OdcpiInit, OdcpiConsistent, TimerComesBack, SessionIsRepeated, EmergencyCallEnds
<1>3. Len(odcpiQueue) = 0
  BY DEF OdcpiInit
<1>4. CallsOrdered
  BY <1>3 DEF OdcpiInit, CallsOrdered, OthersFollowStop, StopUnderWay
<1> QED  BY <1>1, <1>2, <1>4 DEF OdcpiIInv

\* What of the invariant a message that is posted says.
LEMMA PostKeeps ==
  ASSUME OdcpiIInv, NEW m \in OdcpiMsgs, PostOdcpi(m),
         UNCHANGED <<odcpiState, wanted, odcpiTimerActive>>,
         odcpiTimerRuns' = odcpiTimerRuns \/ (odcpiTimerRuns' = FALSE /\ m.op = "expire"),
         modemSession' \in OdcpiKind \cup {NoOdcpi}, callCut' = callCut,
         m.kind = "normal" => modemSession # "emergency",
         modemSession' # "emergency" => modemSession # "emergency" \/ StopsCall(m),
         StartsCall(m) => modemSession' = "emergency"
  PROVE  OdcpiIInv'
<1>1. odcpiQueue \in Seq(OdcpiMsgs) /\ odcpiQueue' = Append(odcpiQueue, m)
  BY DEF OdcpiIInv, OdcpiTyped, PostOdcpi
<1>2. /\ odcpiQueue' \in Seq(OdcpiMsgs)
      /\ Expires(odcpiQueue') <=> Expires(odcpiQueue) \/ m.op = "expire"
  BY <1>1, OdcpiAppended
<1>3. OdcpiTyped'
  BY <1>2 DEF OdcpiIInv, OdcpiTyped, odcpiState
<1>4. OdcpiConsistent'
  BY <1>2 DEF OdcpiIInv, OdcpiTyped, OdcpiConsistent, TimerComesBack, SessionIsRepeated, EmergencyCallEnds,
              Expires, odcpiState
<1>5. CASE ~callCut
  <2>1. /\ OthersFollowStop(odcpiQueue, inEmergencyCall)
        /\ StopUnderWay(odcpiQueue, inEmergencyCall, modemSession)
    BY <1>5 DEF OdcpiIInv, CallsOrdered
  <2>2. /\ OthersFollowStop(odcpiQueue', inEmergencyCall)
        /\ StopUnderWay(odcpiQueue', inEmergencyCall, modemSession')
    BY <1>1, <2>1, PostedKeepsOrder
  <2> QED  BY <1>3, <1>4, <2>2 DEF OdcpiIInv, CallsOrdered, odcpiState
<1>6. CASE callCut
  BY <1>3, <1>4, <1>6 DEF OdcpiIInv, CallsOrdered
<1> QED  BY <1>5, <1>6 DEF OdcpiIInv, OdcpiTyped

LEMMA OdcpiThreadsPost ==
  ASSUME OdcpiIInv,
         \/ \E kind \in OdcpiKind : ModemStarts(kind)
         \/ ModemStops \/ OdcpiEngineUp \/ OdcpiTimerFires \/ HandlerPosts
  PROVE  OdcpiIInv'
<1>1. OdcpiTyped
  BY DEF OdcpiIInv
<1> USE DEF OdcpiMsgs, OdcpiMsg, OdcpiKind, NoOdcpi, StartsCall, StopsCall
<1>2. ASSUME NEW kind \in OdcpiKind, ModemStarts(kind)
      PROVE  OdcpiIInv'
  <2> DEFINE m == OdcpiMsg("START", kind)
  <2>1. m \in OdcpiMsgs /\ m.kind = kind /\ m.op = "START"
    OBVIOUS
  <2>2. /\ PostOdcpi(m) /\ UNCHANGED <<odcpiState, wanted, odcpiTimerActive>>
        /\ odcpiTimerRuns' = odcpiTimerRuns /\ callCut' = callCut /\ modemSession' = kind
        /\ modemSession = "emergency" => kind = "emergency"
    BY <1>2 DEF ModemStarts, ModemPosts, odcpiTimer, odcpiHistory
  <2>3. StartsCall(m) => kind = "emergency"
    BY <2>1
  <2> HIDE DEF m
  <2> QED  BY <2>1, <2>2, <2>3, PostKeeps
<1>3. ASSUME ModemStops
      PROVE  OdcpiIInv'
  <2> DEFINE m == OdcpiMsg("STOP", modemSession)
  <2>1. m \in OdcpiMsgs /\ m.kind = modemSession /\ m.op = "STOP"
    BY <1>1, <1>3 DEF OdcpiTyped, ModemStops
  <2>2. /\ PostOdcpi(m) /\ UNCHANGED <<odcpiState, wanted, odcpiTimerActive>>
        /\ odcpiTimerRuns' = odcpiTimerRuns /\ callCut' = callCut /\ modemSession' = NoOdcpi
    BY <1>3 DEF ModemStops, ModemPosts, odcpiTimer, odcpiHistory
  <2>3. ~StartsCall(m) /\ (modemSession = "emergency" => StopsCall(m))
    BY <2>1
  <2> HIDE DEF m
  <2> QED  BY <2>1, <2>2, <2>3, PostKeeps
<1>4. ASSUME OdcpiEngineUp
      PROVE  OdcpiIInv'
  <2> DEFINE m == OdcpiMsg("engineUp", NoOdcpi)
  <2>1. m \in OdcpiMsgs /\ m.kind = NoOdcpi /\ m.op = "engineUp"
    OBVIOUS
  <2>2. /\ PostOdcpi(m) /\ UNCHANGED <<odcpiState, wanted, odcpiTimerActive>>
        /\ odcpiTimerRuns' = odcpiTimerRuns /\ callCut' = callCut /\ modemSession' = modemSession
    BY <1>4 DEF OdcpiEngineUp, odcpiTimer, odcpiHistory
  <2>3. ~StartsCall(m)
    BY <2>1
  <2> HIDE DEF m
  <2> QED  BY <1>1, <2>1, <2>2, <2>3, PostKeeps DEF OdcpiTyped
<1>5. ASSUME OdcpiTimerFires
      PROVE  OdcpiIInv'
  <2> DEFINE m == OdcpiMsg("expire", NoOdcpi)
  <2>1. m \in OdcpiMsgs /\ m.kind = NoOdcpi /\ m.op = "expire"
    OBVIOUS
  <2>2. /\ PostOdcpi(m) /\ UNCHANGED <<odcpiState, wanted, odcpiTimerActive>>
        /\ odcpiTimerRuns' = FALSE /\ callCut' = callCut /\ modemSession' = modemSession
    BY <1>5 DEF OdcpiTimerFires, odcpiTimer, odcpiHistory, odcpiModem
  <2>3. ~StartsCall(m)
    BY <2>1
  <2> HIDE DEF m
  <2> QED  BY <1>1, <2>1, <2>2, <2>3, PostKeeps DEF OdcpiTyped
<1>6. ASSUME HandlerPosts
      PROVE  OdcpiIInv'
  <2> DEFINE m == OdcpiMsg(IF odcpiHandlers % 2 = 0 THEN "init" ELSE "deRegister", NoOdcpi)
  <2>1. m \in OdcpiMsgs /\ m.kind = NoOdcpi
    OBVIOUS
  <2>2. /\ PostOdcpi(m) /\ UNCHANGED <<odcpiState, wanted, odcpiTimerActive>>
        /\ odcpiTimerRuns' = odcpiTimerRuns /\ callCut' = callCut /\ modemSession' = modemSession
    BY <1>6 DEF HandlerPosts, odcpiTimer, odcpiHistory, odcpiModem
  <2>3. ~StartsCall(m)
    BY <2>1
  <2> HIDE DEF m
  <2> QED  BY <1>1, <2>1, <2>2, <2>3, PostKeeps DEF OdcpiTyped
<1> QED  BY <1>2, <1>3, <1>4, <1>5, <1>6

\* What of the invariant a message that is taken says.
LEMMA TakeKeeps ==
  ASSUME OdcpiIInv, odcpiQueue # <<>>, OdcpiTaken, OdcpiTyped',
         Head(odcpiQueue).op = "expire" /\ odcpiTimerActive' => odcpiTimerRuns',
         odcpiTimerActive' => odcpiTimerRuns' \/ (odcpiTimerActive /\ odcpiTimerRuns' = odcpiTimerRuns),
         odcpiActive' => odcpiTimerActive',
         inEmergencyCall' => wanted' = "emergency" \/ callCut',
         callCut => callCut',
         ~callCut' /\ inEmergencyCall' => \/ inEmergencyCall /\ ~StopsCall(Head(odcpiQueue))
                                         \/ StartsCall(Head(odcpiQueue))
  PROVE  OdcpiIInv'
<1>1. odcpiQueue \in Seq(OdcpiMsgs) /\ odcpiQueue' = Tail(odcpiQueue) /\ modemSession' = modemSession
  BY DEF OdcpiIInv, OdcpiTyped, OdcpiTaken, odcpiModem
<1>2. /\ Head(odcpiQueue) = odcpiQueue[1]
      /\ Expires(odcpiQueue) => Expires(odcpiQueue') \/ Head(odcpiQueue).op = "expire"
  BY <1>1, OdcpiTailed
<1>3. OdcpiConsistent'
  <2>1. odcpiTimerActive' => odcpiTimerRuns' \/ Expires(odcpiQueue')
    BY <1>2 DEF OdcpiIInv, OdcpiConsistent, TimerComesBack, Expires
  <2> QED  BY <2>1 DEF OdcpiConsistent, TimerComesBack, SessionIsRepeated, EmergencyCallEnds, Expires
<1>4. ASSUME ~callCut'
      PROVE  /\ OthersFollowStop(odcpiQueue', inEmergencyCall')
             /\ StopUnderWay(odcpiQueue', inEmergencyCall', modemSession')
  <2>1. /\ OthersFollowStop(odcpiQueue, inEmergencyCall)
        /\ StopUnderWay(odcpiQueue, inEmergencyCall, modemSession)
    BY <1>4 DEF OdcpiIInv, CallsOrdered
  <2>2. inEmergencyCall' => \/ inEmergencyCall /\ ~StopsCall(odcpiQueue[1])
                            \/ StartsCall(odcpiQueue[1])
    BY <1>2, <1>4
  <2> QED  BY <1>1, <2>1, <2>2, TakenKeepsOrder
<1> QED  BY <1>3, <1>4 DEF OdcpiIInv, CallsOrdered

\* While a call is reported and none was cut, the head is not about another session.
LEMMA HeadOfCall ==
  ASSUME OdcpiIInv, odcpiQueue # <<>>, inEmergencyCall, ~callCut
  PROVE  Head(odcpiQueue).kind # "normal"
<1>1. /\ odcpiQueue \in Seq(OdcpiMsgs) /\ OthersFollowStop(odcpiQueue, inEmergencyCall)
  BY DEF OdcpiIInv, OdcpiTyped, CallsOrdered
<1>2. Len(odcpiQueue) \in Nat \ {0} /\ Head(odcpiQueue) = odcpiQueue[1] /\ 1 \in 1..Len(odcpiQueue)
  BY <1>1, OdcpiTailed
<1>3. ASSUME odcpiQueue[1].kind = "normal" PROVE FALSE
  <2>1. PICK k \in 1..Len(odcpiQueue) : k < 1
    BY <1>1, <1>2, <1>3 DEF OthersFollowStop
  <2> QED  BY <1>2, <2>1
<1> QED  BY <1>2, <1>3

LEMMA OdcpiAdapterTakes ==
  ASSUME OdcpiIInv, ProcOdcpi
  PROVE  OdcpiIInv'
<1>1. odcpiQueue # <<>> /\ OdcpiTaken
  BY DEF ProcOdcpi, ProcOdcpiStart, ProcOdcpiStop, OdcpiTimerExpire, ProcOdcpiEngineUp,
         ProcOdcpiHandler, OdcpiHead
<1> DEFINE m == Head(odcpiQueue)
<1>2. /\ OdcpiTyped /\ OdcpiConsistent /\ m \in OdcpiMsgs
      /\ odcpiQueue' \in Seq(OdcpiMsgs) /\ modemSession' = modemSession
  BY <1>1, OdcpiTailed DEF OdcpiIInv, OdcpiTyped, OdcpiTaken, odcpiModem
<1>3. /\ m.op \in {"START", "STOP"} <=> m.kind \in OdcpiKind
      /\ m.op = "START" /\ m.kind = "emergency" => StartsCall(m)
      /\ StopsCall(m) => m.op = "STOP" /\ m.kind = "emergency"
  BY <1>2 DEF OdcpiMsgs, OdcpiMsg, OdcpiKind, NoOdcpi, StartsCall, StopsCall
<1>4. /\ inEmergencyCall => wanted = "emergency" \/ callCut
      /\ odcpiActive => odcpiTimerActive
      /\ inEmergencyCall /\ ~callCut => m.kind # "normal"
  BY <1>1, <1>2, HeadOfCall DEF OdcpiConsistent, SessionIsRepeated, EmergencyCallEnds
<1> HIDE DEF m
<1>5. CASE ProcOdcpiStart
  <2>1. /\ m.op = "START" /\ m.kind \in OdcpiKind
        /\ \/ /\ odcpiTimerActive' = TRUE /\ odcpiTimerRuns' = TRUE
              /\ inEmergencyCall' = (inEmergencyCall \/ m.kind = "emergency")
           \/ UNCHANGED <<odcpiTimerActive, odcpiTimerRuns, inEmergencyCall>>
        /\ ~FiresAtOnce(m.kind) =>
              UNCHANGED <<odcpiTimerActive, odcpiTimerRuns, inEmergencyCall>>
        /\ mOdcpiRequest' = m.kind /\ wanted' = m.kind
        /\ odcpiActive' = TRUE /\ callCut' = callCut
    BY <1>3, <1>5 DEF ProcOdcpiStart, OdcpiHead, TimerStart, odcpiTimer, m
  <2>2. OdcpiTyped'
    BY <1>2, <2>1 DEF OdcpiTyped
  <2>3. odcpiTimerActive'
    BY <1>4, <2>1, <1>5 DEF ProcOdcpiStart, TimerStart, FiresAtOnce, m
  <2>4. inEmergencyCall' => inEmergencyCall \/ m.kind = "emergency"
    BY <2>1
  <2>5. inEmergencyCall' => wanted' = "emergency" \/ callCut'
    BY <1>4, <2>1, <2>4 DEF OdcpiKind
  <2>6. inEmergencyCall' => (inEmergencyCall /\ ~StopsCall(m)) \/ StartsCall(m)
    BY <1>3, <2>1, <2>4
  <2>7. odcpiTimerActive' => odcpiTimerRuns' \/ (odcpiTimerActive /\ odcpiTimerRuns' = odcpiTimerRuns)
    BY <2>1
  <2> QED  BY <1>1, <2>1, <2>2, <2>3, <2>5, <2>6, <2>7, TakeKeeps DEF m
<1>6. CASE ProcOdcpiStop
  <2>1. /\ m.op = "STOP" /\ m.kind \in OdcpiKind /\ wanted' = NoOdcpi /\ odcpiActive' = FALSE
        /\ inEmergencyCall' = (inEmergencyCall /\ m.kind # "emergency")
        /\ UNCHANGED <<odcpiTimerActive, odcpiTimerRuns, mOdcpiRequest, callCut>>
    BY <1>3, <1>6 DEF ProcOdcpiStop, OdcpiHead, odcpiTimer, m
  <2>2. OdcpiTyped'
    BY <1>2, <2>1 DEF OdcpiTyped
  <2>3. inEmergencyCall' => inEmergencyCall /\ ~StopsCall(m) /\ callCut'
    BY <1>3, <1>4, <2>1 DEF OdcpiKind
  <2> QED  BY <1>1, <2>1, <2>2, <2>3, TakeKeeps DEF m
<1>7. CASE OdcpiTimerExpire
  <2>1. /\ m.op = "expire" /\ UNCHANGED <<odcpiActive, mOdcpiRequest, inEmergencyCall, wanted, callCut>>
        /\ \/ odcpiActive /\ odcpiTimerActive' = TRUE /\ odcpiTimerRuns' = TRUE
           \/ ~odcpiActive /\ odcpiTimerActive' = FALSE /\ odcpiTimerRuns' = FALSE
    BY <1>7 DEF OdcpiTimerExpire, OdcpiHead, TimerStart, TimerStop, odcpiState, m
  <2>2. OdcpiTyped'
    BY <1>2, <2>1 DEF OdcpiTyped
  <2> QED  BY <1>1, <1>3, <1>4, <2>1, <2>2, TakeKeeps DEF m
<1>8. CASE ProcOdcpiEngineUp
  <2>1. /\ m.op = "engineUp"
        /\ UNCHANGED <<odcpiTimerActive, odcpiTimerRuns, mOdcpiRequest, inEmergencyCall>>
        /\ \/ odcpiActive' = FALSE /\ callCut' = (callCut \/ inEmergencyCall)
           \/ UNCHANGED <<odcpiActive, wanted, callCut>>
    BY <1>8 DEF ProcOdcpiEngineUp, OdcpiHead, odcpiTimer, m
  <2>2. OdcpiTyped' /\ (callCut => callCut')
    BY <1>2, <2>1 DEF OdcpiTyped
  <2>3. inEmergencyCall' => wanted' = "emergency" \/ callCut'
    BY <1>4, <2>1
  <2>4. odcpiActive' => odcpiTimerActive'
    BY <1>4, <2>1
  <2> QED  BY <1>1, <1>3, <2>1, <2>2, <2>3, <2>4, TakeKeeps DEF m
<1>9. CASE ProcOdcpiHandler
  <2>1. /\ m.op \in {"init", "deRegister"}
        /\ UNCHANGED <<odcpiTimerActive, odcpiTimerRuns, odcpiActive, mOdcpiRequest,
                       inEmergencyCall, wanted, callCut>>
    BY <1>9 DEF ProcOdcpiHandler, OdcpiHead, odcpiTimer, odcpiHistory, m
  <2>2. OdcpiTyped'
    BY <1>2, <2>1 DEF OdcpiTyped
  <2> QED  BY <1>1, <1>3, <1>4, <2>1, <2>2, TakeKeeps DEF m
<1> QED  BY <1>5, <1>6, <1>7, <1>8, <1>9 DEF ProcOdcpi

LEMMA OdcpiModemRestartKeeps ==
  ASSUME OdcpiIInv, OdcpiModemRestarts
  PROVE  OdcpiIInv'
<1>1. /\ UNCHANGED <<odcpiQueue, odcpiActive, mOdcpiRequest, odcpiTimerActive, odcpiTimerRuns,
                     inEmergencyCall, wanted>>
      /\ modemSession' = NoOdcpi /\ callCut' = (callCut \/ modemSession = "emergency")
  BY DEF OdcpiModemRestarts, odcpiTimer, odcpiState
<1>2. OdcpiTyped'
  BY <1>1 DEF OdcpiIInv, OdcpiTyped
<1>3. OdcpiConsistent'
  BY <1>1 DEF OdcpiIInv, OdcpiConsistent, TimerComesBack, SessionIsRepeated, EmergencyCallEnds
<1>4. CallsOrdered'
  BY <1>1 DEF OdcpiIInv, CallsOrdered, StopUnderWay, OthersFollowStop
<1> QED  BY <1>2, <1>3, <1>4 DEF OdcpiIInv

\* The timer of coarse position requests comes back as long as it counts as active, a
\* session is active only while it runs, and an emergency call is reported only while an
\* emergency session lasts, unless a restart of the modem cut it off.
THEOREM CoarsePositionsHold == OdcpiSpec => []OdcpiConsistent
<1>1. OdcpiInit => OdcpiIInv
  BY OdcpiStarts, OdcpiAssumption
<1>2. OdcpiIInv /\ [OdcpiNext]_odcpiVars => OdcpiIInv'
  <2>1. CASE OdcpiNext
    BY <2>1, OdcpiThreadsPost, OdcpiAdapterTakes, OdcpiModemRestartKeeps DEF OdcpiNext
  <2>2. ASSUME OdcpiIInv, UNCHANGED odcpiVars PROVE OdcpiIInv'
    BY <2>2 DEF odcpiVars, odcpiTimer, odcpiModem, odcpiHistory, odcpiState, OdcpiIInv, OdcpiTyped,
           OdcpiConsistent, TimerComesBack, SessionIsRepeated, EmergencyCallEnds, CallsOrdered
  <2> QED  BY <2>1, <2>2
<1>3. OdcpiIInv => OdcpiConsistent
  BY DEF OdcpiIInv
<1> QED  BY <1>1, <1>2, <1>3, PTL DEF OdcpiSpec

-----------------------------------------------------------------------------
(* Network initiated requests: the inductive invariant *)

NiSaid == NiUser \cup {"IGNORE"}
NiAnswer == NiSaid \cup {"NO_RESPONSE"}
NiTail == [kind : NiKind, raw : NiRequest, resp : NiAnswer]
NiSet == [kind : NiKind, resp : NiSaid, for : NiRequest]

NiTyped ==
    /\ rawRequest \in [NiKind -> {0} \cup NiRequest]
    /\ resp \in [NiKind -> NiAnswer \cup {"none"}] /\ respRecvd \in [NiKind -> BOOLEAN]
    /\ reqIDCounter \in Nat /\ niWaiting \in [NiKind -> BOOLEAN]
    /\ \A k \in NiKind : respRecvd[k] => resp[k] \in NiSaid
    /\ niTails \subseteq NiTail /\ niSets \in Seq(NiSet)
    /\ answered \in [NiRequest -> NiUser \cup {"none"}]
    /\ told \in [NiRequest -> Seq(NiUser \cup {"NO_RESPONSE"})]
    /\ late \in BOOLEAN

\* A request that was entered is with the user, or with a thread that has let go of the
\* lock, or the modem was told of it, and never two of these.
InOnePlace ==
    /\ \A k \in NiKind : /\ niWaiting[k] => rawRequest[k] # 0
                         /\ rawRequest[k] <= reqIDCounter
    /\ \A t \in niTails : /\ t.raw <= reqIDCounter /\ told[t.raw] = <<>>
                          /\ \A k \in NiKind : rawRequest[k] # t.raw
    /\ \A t, u \in niTails : t.raw = u.raw => t = u
    /\ \A r \in NiRequest : told[r] # <<>> => r <= reqIDCounter

\* Unless one was written too late, an answer that is stored, passed on or about to be
\* written is the one that the user gave to its request.
AnswersFit ==
    ~late =>
        /\ \A k \in NiKind : respRecvd[k] =>
              /\ rawRequest[k] # 0
              /\ resp[k] # "IGNORE" => resp[k] = answered[rawRequest[k]]
        /\ \A t \in niTails : t.resp \in NiUser => answered[t.raw] = t.resp
        /\ \A i \in 1..Len(niSets) :
              niSets[i].resp \in NiUser => answered[niSets[i].for] = niSets[i].resp

NiIInv == NiTyped /\ InOnePlace /\ AnswersFit /\ ModemToldRightly

LEMMA NiStarts == ASSUME NiAssumption, NiInit PROVE NiIInv
<1>1. niSets \in Seq(NiSet) /\ Len(niSets) = 0 /\ \A r \in NiRequest : told[r] \in Seq(NiUser \cup {"NO_RESPONSE"})
  BY DEF NiInit
<1>2. NiTyped
  BY <1>1 DEF NiInit, NiTyped, NiKind, NiRequest, NiUser
<1>3. InOnePlace
  BY DEF NiInit, InOnePlace, NiKind
<1>4. AnswersFit
  BY <1>1 DEF NiInit, AnswersFit
<1>5. ModemToldRightly
  <2>1. \A r \in NiRequest : told[r] = <<>> /\ Len(told[r]) = 0
    BY DEF NiInit
  <2>2. rawRequest["session"] = 0
    BY DEF NiInit, NiKind
  <2> QED  BY <2>1, <2>2 DEF ModemToldRightly, ToldOnce, ToldWhatUserSaid, EmergencyOverrides
<1> QED  BY <1>2, <1>3, <1>4, <1>5 DEF NiIInv

LEMMA NiRequestKeeps ==
  ASSUME NiAssumption, NiIInv, NEW kind \in NiKind, RequestNiNotify(kind)
  PROVE  NiIInv'
<1> DEFINE n == reqIDCounter + 1
<1>1. /\ reqIDCounter < MaxNi /\ reqIDCounter' = n /\ ~Busy(kind)
      /\ rawRequest' = [rawRequest EXCEPT ![kind] = n]
      /\ niWaiting' = [niWaiting EXCEPT ![kind] = TRUE]
      /\ UNCHANGED <<resp, respRecvd, niTails, niSets, answered, told, late>>
  BY DEF RequestNiNotify
<1>2. NiTyped /\ InOnePlace /\ AnswersFit /\ ModemToldRightly
  BY DEF NiIInv
<1>3. n \in NiRequest /\ n \in Nat /\ reqIDCounter \in Nat /\ NiRequest \subseteq Nat \ {0}
  BY <1>1, <1>2 DEF NiTyped, NiAssumption, NiRequest
<1>4. rawRequest[kind] = 0 /\ (kind = "session" => rawRequest["sessionEs"] = 0)
  BY <1>1 DEF Busy, NiKind
<1>5. /\ rawRequest'[kind] = n /\ niWaiting'[kind]
      /\ \A k \in NiKind : k # kind => rawRequest'[k] = rawRequest[k] /\ niWaiting'[k] = niWaiting[k]
      /\ \A k \in NiKind : rawRequest[k] \in Nat
  <2>1. rawRequest'[kind] = n /\ niWaiting'[kind] = TRUE
    BY <1>1, <1>2 DEF NiTyped
  <2>2. \A k \in NiKind : k # kind => rawRequest'[k] = rawRequest[k] /\ niWaiting'[k] = niWaiting[k]
    BY <1>1, <1>2 DEF NiTyped
  <2>3. ASSUME NEW k \in NiKind PROVE rawRequest[k] \in Nat
    <3>1. rawRequest[k] \in {0} \cup NiRequest
      BY <1>2 DEF NiTyped
    <3> QED  BY <3>1 DEF NiRequest
  <2> QED  BY <2>1, <2>2, <2>3
<1>6. NiTyped'
  BY <1>1, <1>2, <1>3 DEF NiTyped
<1>7. \A r \in NiRequest : r <= reqIDCounter => r # n /\ r <= n
  BY <1>3
<1>8. niTails \subseteq NiTail /\ \A t \in niTails : t.raw \in NiRequest
  BY <1>2 DEF NiTyped, NiTail
<1>9. InOnePlace'
  <2>1. ASSUME NEW k \in NiKind
        PROVE  (niWaiting'[k] => rawRequest'[k] # 0) /\ rawRequest'[k] <= reqIDCounter'
    BY <1>1, <1>2, <1>3, <1>5 DEF InOnePlace
  <2>2. ASSUME NEW t \in niTails
        PROVE  /\ t.raw <= reqIDCounter' /\ told[t.raw] = <<>>
               /\ \A k \in NiKind : rawRequest'[k] # t.raw
    BY <1>1, <1>2, <1>5, <1>7, <1>8 DEF InOnePlace
  <2>3. ASSUME NEW r \in NiRequest, told[r] # <<>> PROVE r <= reqIDCounter'
    BY <1>1, <1>2, <1>7, <2>3 DEF InOnePlace
  <2> QED  BY <1>1, <1>2, <2>1, <2>2, <2>3 DEF InOnePlace
<1>10. AnswersFit'
  BY <1>1, <1>2, <1>4, <1>5 DEF AnswersFit
<1>11. ModemToldRightly'
  <2>1. ToldOnce'
    BY <1>1, <1>2, <1>5, <1>7 DEF ModemToldRightly, ToldOnce, InOnePlace
  <2>2. ToldWhatUserSaid'
    BY <1>1, <1>2 DEF ModemToldRightly, ToldWhatUserSaid
  <2>3. EmergencyOverrides'
    BY <1>2, <1>3, <1>4, <1>5 DEF ModemToldRightly, EmergencyOverrides, InOnePlace, NiKind
  <2> QED  BY <2>1, <2>2, <2>3 DEF ModemToldRightly
<1> QED  BY <1>6, <1>9, <1>10, <1>11 DEF NiIInv

\* IgnoreOther is about the request that the session is busy with.
LEMMA IgnoreOtherType ==
  ASSUME NiTyped
  PROVE  /\ IgnoreOther \in Seq(NiSet)
         /\ \A i \in 1..Len(IgnoreOther) : IgnoreOther[i].resp = "IGNORE"
<1>1. CASE rawRequest["session"] = 0
  BY <1>1 DEF IgnoreOther
<1>2. CASE rawRequest["session"] # 0
  <2> DEFINE s == Set("session", "IGNORE", rawRequest["session"])
  <2>1. s \in NiSet /\ s.resp = "IGNORE" /\ IgnoreOther = <<s>>
    BY <1>2 DEF NiTyped, NiKind, NiSet, NiSaid, Set, IgnoreOther
  <2> HIDE DEF s
  <2> QED  BY <2>1
<1> QED  BY <1>1, <1>2

LEMMA NobodyToAskKeeps ==
  ASSUME NiIInv, NobodyToAsk
  PROVE  NiIInv'
<1>1. /\ niSets' = IgnoreOther
      /\ UNCHANGED <<rawRequest, reqID, resp, respRecvd, reqIDCounter, niWaiting, niTails, answered, told, late>>
  BY DEF NobodyToAsk, niSession
<1>2. /\ niSets' \in Seq(NiSet) /\ \A i \in 1..Len(niSets') : niSets'[i].resp = "IGNORE"
  BY <1>1, IgnoreOtherType DEF NiIInv
<1>3. NiTyped'
  BY <1>1, <1>2 DEF NiIInv, NiTyped
<1>4. InOnePlace' /\ ModemToldRightly'
  BY <1>1 DEF NiIInv, InOnePlace, ModemToldRightly, ToldOnce, ToldWhatUserSaid, EmergencyOverrides
<1>5. AnswersFit'
  BY <1>1, <1>2 DEF NiIInv, AnswersFit, NiUser
<1> QED  BY <1>3, <1>4, <1>5 DEF NiIInv

LEMMA NiResponseKeeps ==
  ASSUME NiIInv, NEW id \in NiRequest, NEW a \in NiUser, GnssNiResponseFor(id, a)
  PROVE  NiIInv'
<1>1. /\ answered[id] = "none" /\ answered' = [answered EXCEPT ![id] = a]
      /\ UNCHANGED <<rawRequest, reqID, resp, respRecvd, reqIDCounter, niWaiting, niTails, told, late>>
  BY DEF GnssNiResponseFor, niSession
<1>2. NiTyped /\ InOnePlace /\ AnswersFit /\ ModemToldRightly
  BY DEF NiIInv
<1>3. /\ answered'[id] = a
      /\ \A r \in NiRequest : answered[r] # "none" => answered'[r] = answered[r]
      /\ answered' \in [NiRequest -> NiUser \cup {"none"}]
  BY <1>1, <1>2 DEF NiTyped
<1>4. /\ niSets' \in Seq(NiSet)
      /\ \A i \in 1..Len(niSets') : niSets'[i].resp \in NiUser => niSets'[i].for = id /\ niSets'[i].resp = a
  <2> DEFINE none == niSets' = <<>>
             one(k) == niSets' = <<Set(k, a, id)>>
             both(k) == niSets' = IgnoreOther \o <<Set(k, a, id)>>
  <2>1. none \/ \E k \in NiKind : one(k) \/ both(k)
    <3>1. PICK k \in NiKind : niSets' = IF ~niCb \/ ~(reqID[k] = id /\ rawRequest[k] # 0) THEN <<>>
                     ELSE (IF k = "sessionEs" /\ a = "ACCEPT" THEN IgnoreOther ELSE <<>>)
                          \o <<Set(k, a, id)>>
      BY DEF GnssNiResponseFor, NiKind
    <3>2. <<>> \o <<Set(k, a, id)>> = <<Set(k, a, id)>>
      OBVIOUS
    <3> QED  BY <3>1, <3>2
  <2>2. CASE none
    BY <2>2
  <2>3. ASSUME NEW k \in NiKind
        PROVE  /\ Set(k, a, id) \in NiSet /\ Set(k, a, id).for = id /\ Set(k, a, id).resp = a
    BY DEF Set, NiSet, NiSaid
  <2>4. ASSUME NEW k \in NiKind, one(k) PROVE <1>4!1 /\ <1>4!2
    <3> DEFINE s == Set(k, a, id)
    <3>1. s \in NiSet /\ s.for = id /\ s.resp = a /\ niSets' = <<s>>
      BY <2>3, <2>4
    <3> HIDE DEF s
    <3> QED  BY <3>1
  <2>5. ASSUME NEW k \in NiKind, both(k) PROVE <1>4!1 /\ <1>4!2
    <3> DEFINE s == Set(k, a, id)
               q == IgnoreOther
    <3>1. s \in NiSet /\ s.for = id /\ s.resp = a /\ niSets' = q \o <<s>>
      BY <2>3, <2>5
    <3>2. q \in Seq(NiSet) /\ \A i \in 1..Len(q) : q[i].resp = "IGNORE"
      BY <1>2, IgnoreOtherType
    <3> HIDE DEF s, q
    <3>3. /\ niSets' \in Seq(NiSet) /\ Len(niSets') = Len(q) + 1 /\ Len(q) \in Nat
          /\ \A i \in 1..Len(q) : niSets'[i] = q[i]
          /\ niSets'[Len(q) + 1] = s
      BY <3>1, <3>2
    <3>4. \A i \in 1..Len(niSets') : i \in 1..Len(q) \/ i = Len(q) + 1
      BY <3>3
    <3> QED  BY <3>1, <3>2, <3>3, <3>4 DEF NiUser
  <2> QED  BY <2>1, <2>2, <2>4, <2>5
<1>5. NiTyped'
  BY <1>1, <1>2, <1>3, <1>4 DEF NiTyped
<1>6. InOnePlace'
  BY <1>1, <1>2 DEF InOnePlace
<1>7. /\ "none" \notin NiUser /\ "none" \notin NiSaid
      /\ \A k \in NiKind : rawRequest[k] # 0 => rawRequest[k] \in NiRequest
      /\ \A t \in niTails : t.raw \in NiRequest
  BY <1>2 DEF NiTyped, NiTail, NiUser, NiSaid
<1>8. AnswersFit'
  <2>1. ASSUME ~late, NEW k \in NiKind, respRecvd[k]
        PROVE  /\ rawRequest[k] # 0
               /\ resp[k] # "IGNORE" => resp[k] = answered'[rawRequest[k]]
    <3>1. rawRequest[k] # 0 /\ (resp[k] # "IGNORE" => resp[k] = answered[rawRequest[k]])
      BY <1>2, <2>1 DEF AnswersFit
    <3>2. resp[k] \in NiSaid
      BY <1>2, <2>1 DEF NiTyped
    <3> QED  BY <1>3, <1>7, <3>1, <3>2
  <2>2. ASSUME ~late, NEW t \in niTails, t.resp \in NiUser PROVE answered'[t.raw] = t.resp
    BY <1>2, <1>3, <1>7, <2>2 DEF AnswersFit
  <2> QED  BY <1>1, <1>3, <1>4, <2>1, <2>2 DEF AnswersFit
<1>9. ModemToldRightly'
  <2>1. ToldOnce' /\ EmergencyOverrides'
    BY <1>1, <1>2 DEF ModemToldRightly, ToldOnce, EmergencyOverrides
  <2>2. ASSUME ~late, NEW r \in NiRequest, told[r] # <<>>
        PROVE  Head(told[r]) \in {answered'[r], "NO_RESPONSE"}
    <3>1. Head(told[r]) \in {answered[r], "NO_RESPONSE"}
      BY <1>2, <2>2 DEF ModemToldRightly, ToldWhatUserSaid
    <3>2. told[r] \in Seq(NiUser \cup {"NO_RESPONSE"})
      BY <1>2 DEF NiTyped
    <3>3. Head(told[r]) \in NiUser \cup {"NO_RESPONSE"}
      BY <2>2, <3>2
    <3> QED  BY <1>3, <1>7, <3>1, <3>3
  <2>3. ToldWhatUserSaid'
    BY <1>1, <2>2 DEF ToldWhatUserSaid
  <2> QED  BY <2>1, <2>3 DEF ModemToldRightly
<1> QED  BY <1>5, <1>6, <1>8, <1>9 DEF NiIInv

LEMMA SetResponseKeeps ==
  ASSUME NiIInv, SetResponse
  PROVE  NiIInv'
<1> DEFINE s == Head(niSets)
<1>1. /\ niSets # <<>> /\ niSets' = Tail(niSets)
      /\ resp' = [resp EXCEPT ![s.kind] = s.resp]
      /\ respRecvd' = [respRecvd EXCEPT ![s.kind] = TRUE]
      /\ late' = (late \/ rawRequest[s.kind] # s.for)
      /\ UNCHANGED <<rawRequest, reqIDCounter, niWaiting, niTails, answered, told>>
  BY DEF SetResponse
<1>2. NiTyped /\ InOnePlace /\ AnswersFit /\ ModemToldRightly
  BY DEF NiIInv
<1>3. /\ Len(niSets) \in Nat \ {0} /\ s = niSets[1] /\ s \in NiSet
      /\ niSets' \in Seq(NiSet) /\ Len(niSets') = Len(niSets) - 1
      /\ \A i \in 1..Len(niSets') : niSets'[i] = niSets[i + 1] /\ i + 1 \in 1..Len(niSets)
  BY <1>1, <1>2 DEF NiTyped
<1> HIDE DEF s
<1>4. s.kind \in NiKind /\ s.resp \in NiSaid /\ s.for \in NiRequest
  BY <1>3 DEF NiSet
<1>10. ~late' => ~late /\ rawRequest[s.kind] = s.for
  BY <1>1
<1>5. /\ resp'[s.kind] = s.resp
      /\ respRecvd' \in [NiKind -> BOOLEAN] /\ resp' \in [NiKind -> NiAnswer \cup {"none"}]
      /\ late' \in BOOLEAN
      /\ \A k \in NiKind : k # s.kind => resp'[k] = resp[k] /\ respRecvd'[k] = respRecvd[k]
  BY <1>1, <1>2, <1>4 DEF NiTyped, NiAnswer
<1>6. NiTyped'
  <2>1. \A k \in NiKind : respRecvd'[k] => resp'[k] \in NiSaid
    BY <1>2, <1>4, <1>5 DEF NiTyped
  <2> QED  BY <1>1, <1>2, <1>3, <1>5, <2>1 DEF NiTyped
<1>7. InOnePlace'
  BY <1>1, <1>2 DEF InOnePlace
<1>8. AnswersFit'
  <2>1. ASSUME ~late', NEW k \in NiKind, respRecvd'[k]
        PROVE  /\ rawRequest[k] # 0
               /\ resp'[k] # "IGNORE" => resp'[k] = answered[rawRequest[k]]
    <3>1. CASE k = s.kind
      <4>1. rawRequest[k] = s.for /\ s.for # 0 /\ resp'[k] = s.resp
        BY <1>10, <1>4, <1>5, <2>1, <3>1 DEF NiRequest
      <4>2. s.resp \in NiUser => answered[s.for] = s.resp
        <5>1. ~late /\ 1 \in 1..Len(niSets)
          BY <1>10, <1>3, <2>1
        <5> QED  BY <1>2, <1>3, <5>1 DEF AnswersFit
      <4> QED  BY <1>4, <4>1, <4>2 DEF NiSaid
    <3>2. CASE k # s.kind
      BY <1>10, <1>2, <1>5, <2>1, <3>2 DEF AnswersFit
    <3> QED  BY <3>1, <3>2
  <2> QED  BY <1>1, <1>10, <1>2, <1>3, <2>1 DEF AnswersFit
<1>9. ModemToldRightly'
  BY <1>1, <1>2 DEF ModemToldRightly, ToldOnce, ToldWhatUserSaid, EmergencyOverrides
<1> QED  BY <1>6, <1>7, <1>8, <1>9 DEF NiIInv

LEMMA NiThreadEndsKeeps ==
  ASSUME NiIInv, NEW kind \in NiKind, NiAnswered(kind) \/ NiTimeout(kind)
  PROVE  NiIInv'
<1>1. NiTyped /\ InOnePlace /\ AnswersFit /\ ModemToldRightly
  BY DEF NiIInv
<1>2. PICK a : /\ niWaiting[kind]
               /\ resp' = [resp EXCEPT ![kind] = a]
               /\ respRecvd' = [respRecvd EXCEPT ![kind] = FALSE]
               /\ rawRequest' = [rawRequest EXCEPT ![kind] = 0]
               /\ niWaiting' = [niWaiting EXCEPT ![kind] = FALSE]
               /\ niTails' = niTails \cup {[kind |-> kind, raw |-> rawRequest[kind], resp |-> a]}
               /\ UNCHANGED <<reqIDCounter, niSets, answered, told, late>>
               /\ a = "NO_RESPONSE" \/ (respRecvd[kind] /\ a = resp[kind])
  BY DEF NiAnswered, NiTimeout, NiThreadEnds
<1> DEFINE t == [kind |-> kind, raw |-> rawRequest[kind], resp |-> a]
<1>3. /\ a \in NiAnswer /\ (a \in NiUser => respRecvd[kind] /\ a = resp[kind])
      /\ rawRequest[kind] # 0 /\ rawRequest[kind] \in NiRequest
      /\ rawRequest[kind] <= reqIDCounter
  BY <1>1, <1>2 DEF NiTyped, NiAnswer, InOnePlace, NiUser
<1>4. t \in NiTail /\ t.raw = rawRequest[kind] /\ t.resp = a
  BY <1>3 DEF NiTail
<1>5. niTails' = niTails \cup {t} /\ \A u \in niTails : u \in NiTail /\ u.raw # 0 /\ u.raw \in NiRequest
  BY <1>1, <1>2 DEF NiTyped, NiTail, NiRequest
<1> HIDE DEF t
<1>6. /\ rawRequest'[kind] = 0 /\ ~niWaiting'[kind] /\ ~respRecvd'[kind]
      /\ \A k \in NiKind : k # kind => /\ rawRequest'[k] = rawRequest[k] /\ resp'[k] = resp[k]
                                      /\ niWaiting'[k] = niWaiting[k] /\ respRecvd'[k] = respRecvd[k]
  <2>1. rawRequest'[kind] = 0 /\ niWaiting'[kind] = FALSE /\ respRecvd'[kind] = FALSE
    BY <1>1, <1>2 DEF NiTyped
  <2>2. \A k \in NiKind : k # kind => /\ rawRequest'[k] = rawRequest[k] /\ resp'[k] = resp[k]
                                      /\ niWaiting'[k] = niWaiting[k] /\ respRecvd'[k] = respRecvd[k]
    BY <1>1, <1>2 DEF NiTyped
  <2> QED  BY <2>1, <2>2
<1>7. NiTyped'
  <2>1. rawRequest' \in [NiKind -> {0} \cup NiRequest]
    BY <1>1, <1>2 DEF NiTyped
  <2>2. resp' \in [NiKind -> NiAnswer \cup {"none"}]
    BY <1>1, <1>2, <1>3 DEF NiTyped
  <2>3. respRecvd' \in [NiKind -> BOOLEAN] /\ niWaiting' \in [NiKind -> BOOLEAN]
    BY <1>1, <1>2 DEF NiTyped
  <2>4. \A k \in NiKind : respRecvd'[k] => resp'[k] \in NiSaid
    BY <1>1, <1>6 DEF NiTyped
  <2>5. niTails' \subseteq NiTail
    BY <1>1, <1>4, <1>5 DEF NiTyped
  <2> QED  BY <1>1, <1>2, <2>1, <2>2, <2>3, <2>4, <2>5 DEF NiTyped
<1>8. \A u \in niTails : u.raw # rawRequest[kind]
  BY <1>1 DEF InOnePlace
<1>9. told[rawRequest[kind]] = <<>>
  BY <1>1, <1>3 DEF ModemToldRightly, ToldOnce
<1>10. InOnePlace'
  <2>1. ASSUME NEW k \in NiKind
        PROVE  (niWaiting'[k] => rawRequest'[k] # 0) /\ rawRequest'[k] <= reqIDCounter'
    BY <1>1, <1>2, <1>6 DEF InOnePlace, NiTyped
  <2>2. ASSUME NEW u \in niTails'
        PROVE  u.raw <= reqIDCounter' /\ told'[u.raw] = <<>>
    <3>1. CASE u \in niTails
      BY <1>1, <1>2, <3>1 DEF InOnePlace
    <3>2. CASE u = t
      BY <1>2, <1>3, <1>4, <1>9, <3>2
    <3> QED  BY <1>5, <3>1, <3>2
  <2>3. ASSUME NEW u \in niTails', NEW k \in NiKind
        PROVE  rawRequest'[k] # u.raw
    <3>1. CASE k = kind
      BY <1>3, <1>4, <1>5, <1>6, <3>1
    <3>2. CASE k # kind /\ u \in niTails
      BY <1>1, <1>6, <3>2 DEF InOnePlace
    <3>3. CASE k # kind /\ u = t
      <4>1. rawRequest[k] # rawRequest[kind]
        <5>1. rawRequest[kind] \in Nat
          BY <1>3 DEF NiRequest
        <5> QED  BY <1>1, <1>3, <3>3, <5>1 DEF ModemToldRightly, EmergencyOverrides, NiKind
      <4> QED  BY <1>4, <1>6, <3>3, <4>1
    <3> QED  BY <1>5, <3>1, <3>2, <3>3
  <2>4. ASSUME NEW u \in niTails', NEW v \in niTails', u.raw = v.raw
        PROVE  u = v
    BY <1>1, <1>4, <1>5, <1>8, <2>4 DEF InOnePlace
  <2>5. \A r \in NiRequest : told'[r] # <<>> => r <= reqIDCounter'
    BY <1>1, <1>2 DEF InOnePlace
  <2> QED  BY <2>1, <2>2, <2>3, <2>4, <2>5 DEF InOnePlace
<1>11. AnswersFit'
  <2>1. ASSUME ~late, NEW k \in NiKind, respRecvd'[k]
        PROVE  /\ rawRequest'[k] # 0
               /\ resp'[k] # "IGNORE" => resp'[k] = answered[rawRequest'[k]]
    BY <1>1, <1>6, <2>1 DEF AnswersFit
  <2>2. ASSUME ~late, NEW u \in niTails', u.resp \in NiUser
        PROVE  answered[u.raw] = u.resp
    <3>1. CASE u \in niTails
      BY <1>1, <2>2, <3>1 DEF AnswersFit
    <3>2. CASE u = t
      BY <1>1, <1>3, <1>4, <2>2, <3>2 DEF AnswersFit, NiUser
    <3> QED  BY <1>5, <3>1, <3>2
  <2> QED  BY <1>1, <1>2, <2>1, <2>2 DEF AnswersFit
<1>12. ModemToldRightly'
  <2>1. ToldOnce'
    BY <1>1, <1>2, <1>6 DEF ModemToldRightly, ToldOnce, NiRequest
  <2>2. ToldWhatUserSaid' /\ EmergencyOverrides'
    BY <1>1, <1>2, <1>6 DEF ModemToldRightly, ToldWhatUserSaid, EmergencyOverrides, NiKind
  <2> QED  BY <2>1, <2>2 DEF ModemToldRightly
<1> QED  BY <1>7, <1>10, <1>11, <1>12 DEF NiIInv

LEMMA NiTailKeeps ==
  ASSUME NiIInv, NEW t \in niTails, NiThreadTail(t)
  PROVE  NiIInv'
<1>1. NiTyped /\ InOnePlace /\ AnswersFit /\ ModemToldRightly
  BY DEF NiIInv
<1>2. /\ niTails' = niTails \ {t}
      /\ told' = IF t.resp = "IGNORE" THEN told ELSE [told EXCEPT ![t.raw] = Append(@, t.resp)]
      /\ UNCHANGED <<rawRequest, resp, respRecvd, reqIDCounter, niWaiting, niSets, answered, late>>
  BY DEF NiThreadTail
<1>3. /\ t.raw \in NiRequest /\ t.resp \in NiAnswer /\ told[t.raw] = <<>> /\ t.raw <= reqIDCounter
      /\ \A k \in NiKind : rawRequest[k] # t.raw
      /\ \A u \in niTails : u # t => u.raw # t.raw /\ u.raw \in NiRequest
  BY <1>1 DEF NiTyped, NiTail, InOnePlace
<1>4. CASE t.resp = "IGNORE"
  BY <1>1, <1>2, <1>4 DEF NiIInv, NiTyped, InOnePlace, AnswersFit, ModemToldRightly, ToldOnce,
                          ToldWhatUserSaid, EmergencyOverrides
<1>5. CASE t.resp # "IGNORE"
  <2> DEFINE one == <<t.resp>>
  <2>1. told' = [told EXCEPT ![t.raw] = one]
    BY <1>2, <1>3, <1>5
  <2>2. /\ t.resp \in NiUser \cup {"NO_RESPONSE"}
        /\ one \in Seq(NiUser \cup {"NO_RESPONSE"}) /\ Len(one) = 1 /\ Head(one) = t.resp
    BY <1>3, <1>5 DEF NiAnswer, NiSaid
  <2> HIDE DEF one
  <2>3. /\ told'[t.raw] = one /\ \A r \in NiRequest : r # t.raw => told'[r] = told[r]
        /\ told' \in [NiRequest -> Seq(NiUser \cup {"NO_RESPONSE"})]
    BY <1>1, <1>3, <2>1, <2>2 DEF NiTyped
  <2>4. NiTyped'
    BY <1>1, <1>2, <2>3 DEF NiTyped
  <2>5. InOnePlace'
    <3>1. ASSUME NEW u \in niTails' PROVE told'[u.raw] = <<>>
      BY <1>1, <1>2, <1>3, <2>3 DEF InOnePlace
    <3>2. ASSUME NEW r \in NiRequest, told'[r] # <<>> PROVE r <= reqIDCounter'
      BY <1>1, <1>2, <1>3, <2>3, <3>2 DEF InOnePlace
    <3> QED  BY <1>1, <1>2, <3>1, <3>2 DEF InOnePlace
  <2>6. AnswersFit'
    BY <1>1, <1>2 DEF AnswersFit
  <2>7. ModemToldRightly'
    <3>1. ASSUME NEW r \in NiRequest
          PROVE  /\ Len(told'[r]) <= 1
                 /\ told'[r] # <<>> => \A k \in NiKind : rawRequest[k] # r
      <4>1. CASE r = t.raw
        <5>1. told'[r] = one
          BY <2>3, <4>1
        <5>2. Len(told'[r]) <= 1
          <6>1. Len(one) <= 1
            BY <2>2
          <6> QED  BY <5>1, <6>1
        <5> QED  BY <1>3, <4>1, <5>2
      <4>2. CASE r # t.raw
        BY <1>1, <2>3, <4>2 DEF ModemToldRightly, ToldOnce
      <4> QED  BY <4>1, <4>2
    <3>2. ASSUME ~late, NEW r \in NiRequest, told'[r] # <<>>
          PROVE  Head(told'[r]) \in {answered[r], "NO_RESPONSE"}
      <4>1. CASE r = t.raw
        BY <1>1, <2>2, <2>3, <3>2, <4>1 DEF AnswersFit
      <4>2. CASE r # t.raw
        BY <1>1, <2>3, <3>2, <4>2 DEF ModemToldRightly, ToldWhatUserSaid
      <4> QED  BY <4>1, <4>2
    <3> QED  BY <1>1, <1>2, <3>1, <3>2 DEF ModemToldRightly, ToldOnce, ToldWhatUserSaid, EmergencyOverrides
  <2> QED  BY <2>4, <2>5, <2>6, <2>7 DEF NiIInv
<1> QED  BY <1>4, <1>5

\* The modem is told of each request at most once and of none that is still with the user,
\* what the user said to it unless an answer was written too late, and two requests are
\* under way only if the emergency came second.
THEOREM ModemHearsTheUser == NiSpec => []ModemToldRightly
<1>1. NiInit => NiIInv
  BY NiStarts, NiAssumption
<1>2. NiIInv /\ [NiNext]_niVars => NiIInv'
  <2> SUFFICES ASSUME NiIInv, [NiNext]_niVars PROVE NiIInv'
    OBVIOUS
  <2>1. CASE \E k \in NiKind : RequestNiNotify(k)
    BY <2>1, NiRequestKeeps, NiAssumption
  <2>2. CASE \E k \in NiKind : NiAnswered(k) \/ NiTimeout(k)
    BY <2>2, NiThreadEndsKeeps
  <2>3. CASE NobodyToAsk
    BY <2>3, NobodyToAskKeeps
  <2>4. CASE SetResponse
    BY <2>4, SetResponseKeeps
  <2>5. CASE RemoveNiClient \/ UNCHANGED niVars
    BY <2>5 DEF RemoveNiClient, niVars, niSession, NiIInv, NiTyped, InOnePlace, AnswersFit,
                ModemToldRightly, ToldOnce, ToldWhatUserSaid, EmergencyOverrides
  <2>6. CASE \E id \in NiRequest, a \in NiUser : GnssNiResponseFor(id, a)
    BY <2>6, NiResponseKeeps
  <2>7. CASE \E t \in niTails : NiThreadTail(t)
    BY <2>7, NiTailKeeps
  <2> QED  BY <2>1, <2>2, <2>3, <2>4, <2>5, <2>6, <2>7 DEF NiNext
<1>3. NiIInv => ModemToldRightly
  BY DEF NiIInv
<1> QED  BY <1>1, <1>2, <1>3, PTL DEF NiSpec

-----------------------------------------------------------------------------
(* The lock of the receiver: the inductive invariant *)

CtrlSwitches == [op : {"enable", "disable"}, id : Nat \ {0}, lock : SUBSET LockBits]
CtrlConfigs == [op : {"config"}, id : {0}, lock : SUBSET LockBits]
CtrlNfws == [op : {"nfw"}, id : {0}, lock : SUBSET {"NFW"}]
CtrlWaits == CtrlConfigs \cup CtrlNfws
CtrlUps == [op : {"engineUp"}, id : {0}, lock : SUBSET LockBits]
CtrlMsgs == CtrlSwitches \cup CtrlWaits \cup CtrlUps

CtrlTyped ==
    /\ mEnabled \in [Controller -> BOOLEAN] /\ ctrlSession \in [Controller -> Nat]
    /\ ctrlQueue \in Seq(CtrlMsgs) /\ ctrlPending \in Seq(CtrlWaits)
    /\ afwControlId \in Nat /\ mSupportNfwControl \in BOOLEAN /\ GPS_LOCK \subseteq LockBits
    /\ locApiQueue \in Seq(SUBSET LockBits)
    /\ ctrlModemUp \in BOOLEAN /\ ctrlCalls \in Nat

\* The lock that the modem should have, and the one that it will have.
WantedLock == IF mSupportNfwControl \/ afwControlId = 0 THEN GPS_LOCK ELSE {}
LastLock(q, lock) == IF Len(q) = 0 THEN lock ELSE q[Len(q)]

Holds(q, op) == \E i \in 1..Len(q) : q[i].op = op

ModemWillAgree ==
    ctrlModemUp /\ ~Holds(ctrlQueue, "engineUp") => LastLock(locApiQueue, modemLock) = WantedLock

\* What XTRA was told, and whether GPS_LOCK has the bit of the framework.
XtraKnows ==
    /\ mGpsLock # Unknown => mGpsLock = IF afwControlId = 0 THEN {"MO"} ELSE {}
    /\ afwControlId # 0 => mGpsLock # Unknown
    /\ ~mSupportNfwControl => "MO" \in GPS_LOCK
    /\ mSupportNfwControl /\ mGpsLock # Unknown => (afwControlId = 0 <=> "MO" \in GPS_LOCK)

\* A queue q of enables and disables, for an adapter with session id and a client with
\* session last, 0 for none: each finds the receiver as the one before it leaves it.
Switches(q, i) == i = 0 \/ q[i].op \in {"enable", "disable"}
Leaves(q, id, i) == IF i = 0 THEN id ELSE IF q[i].op = "enable" THEN q[i].id ELSE 0
Finds(q, j) == IF q[j].op = "enable" THEN 0 ELSE q[j].id
NoneBetween(q, i, j) == \A k \in 1..Len(q) : i < k /\ k < j => ~Switches(q, k)

SwitchesFit(q, id, last) ==
    /\ \A i \in 0..Len(q), j \in 1..Len(q) :
          i < j /\ Switches(q, i) /\ Switches(q, j) /\ NoneBetween(q, i, j)
             => Leaves(q, id, i) = Finds(q, j)
    /\ \A i \in 0..Len(q) :
          Switches(q, i) /\ NoneBetween(q, i, Len(q) + 1) => Leaves(q, id, i) = last

Session(c) == IF mEnabled[c] THEN ctrlSession[c] ELSE 0

\* A client that is the only one.
LoneClient ==
    \A c \in Controller : Controller = {c} =>
        /\ SwitchesFit(ctrlQueue, afwControlId, Session(c))
        /\ ctrlSession[c] > 0 => mGpsLock # Unknown \/ Holds(ctrlQueue, "enable")

CtrlIInv == CtrlTyped /\ ModemWillAgree /\ XtraKnows /\ LoneClient

-----------------------------------------------------------------------------
(* Lemmas about queues *)

LEMMA LastLockAppended ==
  ASSUME NEW q \in Seq(SUBSET LockBits), NEW x \in SUBSET LockBits, NEW lock
  PROVE  LastLock(Append(q, x), lock) = x /\ Append(q, x) \in Seq(SUBSET LockBits)
<1>1. /\ Len(Append(q, x)) # 0 /\ Append(q, x)[Len(Append(q, x))] = x
      /\ Append(q, x) \in Seq(SUBSET LockBits)
  OBVIOUS
<1> QED  BY <1>1 DEF LastLock

LEMMA LastLockTailed ==
  ASSUME NEW q \in Seq(SUBSET LockBits), q # <<>>, NEW lock
  PROVE  LastLock(Tail(q), Head(q)) = LastLock(q, lock)
<1>1. /\ Len(q) \in Nat \ {0} /\ Len(Tail(q)) = Len(q) - 1 /\ Head(q) = q[1]
      /\ \A i \in 1..Len(Tail(q)) : Tail(q)[i] = q[i + 1]
  OBVIOUS
<1> QED  BY <1>1 DEF LastLock

LEMMA HoldsAppended ==
  ASSUME NEW q \in Seq(CtrlMsgs), NEW m \in CtrlMsgs, NEW op
  PROVE  /\ Append(q, m) \in Seq(CtrlMsgs)
         /\ Holds(Append(q, m), op) <=> Holds(q, op) \/ m.op = op
<1>1. /\ Append(q, m) \in Seq(CtrlMsgs) /\ Len(Append(q, m)) = Len(q) + 1 /\ Len(q) \in Nat
      /\ Append(q, m)[Len(q) + 1] = m /\ \A i \in 1..Len(q) : Append(q, m)[i] = q[i]
  OBVIOUS
<1> QED  BY <1>1 DEF Holds

LEMMA HoldsTailed ==
  ASSUME NEW q \in Seq(CtrlMsgs), q # <<>>, NEW op
  PROVE  /\ Tail(q) \in Seq(CtrlMsgs) /\ Head(q) \in CtrlMsgs /\ Head(q) = q[1]
         /\ Holds(q, op) <=> Holds(Tail(q), op) \/ Head(q).op = op
<1> DEFINE p == Tail(q)
<1>1. /\ p \in Seq(CtrlMsgs) /\ Head(q) \in CtrlMsgs /\ Head(q) = q[1]
      /\ Len(p) = Len(q) - 1 /\ Len(q) \in Nat \ {0}
      /\ \A i \in 1..Len(p) : p[i] = q[i + 1]
  OBVIOUS
<1> HIDE DEF p
<1>2. ASSUME NEW i \in 1..Len(q), q[i].op = op, i # 1 PROVE Holds(p, op)
  <2>1. i - 1 \in 1..Len(p) /\ (i - 1) + 1 = i
    BY <1>1, <1>2
  <2>2. p[i - 1].op = op
    BY <1>1, <1>2, <2>1
  <2> QED  BY <2>1, <2>2 DEF Holds
<1>3. ASSUME NEW i \in 1..Len(p), p[i].op = op PROVE Holds(q, op)
  <2>1. i + 1 \in 1..Len(q) /\ q[i + 1].op = op
    BY <1>1, <1>3
  <2> QED  BY <2>1 DEF Holds
<1>4. 1 \in 1..Len(q)
  BY <1>1
<1>5. Holds(q, op) <=> Holds(p, op) \/ q[1].op = op
  BY <1>2, <1>3, <1>4 DEF Holds
<1> QED  BY <1>1, <1>5 DEF p

LEMMA HoldsJoined ==
  ASSUME NEW q \in Seq(CtrlMsgs), NEW w \in Seq(CtrlMsgs), NEW op, ~Holds(w, op)
  PROVE  q \o w \in Seq(CtrlMsgs) /\ (Holds(q \o w, op) <=> Holds(q, op))
<1> DEFINE p == q \o w
<1>1. /\ Len(q) \in Nat /\ Len(w) \in Nat /\ Len(p) = Len(q) + Len(w) /\ p \in Seq(CtrlMsgs)
      /\ \A i \in 1..Len(q) : p[i] = q[i]
      /\ \A i \in (Len(q) + 1)..Len(p) : p[i] = w[i - Len(q)] /\ i - Len(q) \in 1..Len(w)
  OBVIOUS
<1> HIDE DEF p
<1>2. ASSUME NEW i \in 1..Len(p), p[i].op = op PROVE i \in 1..Len(q)
  <2>1. i \notin (Len(q) + 1)..Len(p)
    BY <1>1, <1>2 DEF Holds
  <2> QED  BY <1>1, <2>1
<1>3. \A i \in 1..Len(q) : i \in 1..Len(p)
  BY <1>1
<1>4. Holds(p, op) <=> Holds(q, op)
  BY <1>1, <1>2, <1>3 DEF Holds
<1> QED  BY <1>1, <1>4 DEF p

\* The message at the end finds the receiver as the client left it.
LEMMA SwitchesAppended ==
  ASSUME NEW S, NEW q \in Seq(S), NEW m \in S, NEW id, NEW last, NEW last2,
         SwitchesFit(q, id, last),
         m.op = "enable" => last = 0 /\ last2 = m.id,
         m.op = "disable" => last = m.id /\ last2 = 0,
         m.op \notin {"enable", "disable"} => last2 = last
  PROVE  SwitchesFit(Append(q, m), id, last2)
<1> DEFINE p == Append(q, m)
           n == Len(q) + 1
<1>1. /\ Len(q) \in Nat /\ Len(p) = n /\ p[n] = m
      /\ \A i \in 1..Len(q) : i \in Nat /\ i # 0 /\ i < n /\ i \in 1..Len(p) /\ p[i] = q[i]
      /\ \A i \in 0..Len(p) : i \in 0..Len(q) \/ i = n
      /\ \A i \in 1..Len(p) : i \in 1..Len(q) \/ i = n
      /\ \A i \in 0..Len(q) : i = 0 \/ i \in 1..Len(q)
      /\ n # 0 /\ n \in 1..Len(p)
      /\ \A i \in 0..Len(p) : ~(n < i)
  OBVIOUS
<1> HIDE DEF p, n
<1>2. /\ \A i \in 0..Len(q) : /\ Switches(p, i) <=> Switches(q, i)
                              /\ Leaves(p, id, i) = Leaves(q, id, i)
      /\ \A j \in 1..Len(q) : Finds(p, j) = Finds(q, j)
  BY <1>1 DEF Switches, Leaves, Finds
<1>3. /\ Switches(p, n) <=> m.op \in {"enable", "disable"}
      /\ Leaves(p, id, n) = IF m.op = "enable" THEN m.id ELSE 0
      /\ Finds(p, n) = IF m.op = "enable" THEN 0 ELSE m.id
  BY <1>1 DEF Switches, Leaves, Finds
<1>4. \A i \in 0..Len(q), j \in 0..n : NoneBetween(p, i, j) => NoneBetween(q, i, j)
  BY <1>1 DEF NoneBetween, Switches
<1>5. n = Len(q) + 1 /\ n \in 0..n /\ \A j \in 1..Len(q) : j \in 0..n
  BY <1>1 DEF n
<1>6. ASSUME NEW i \in 0..Len(p), NEW j \in 1..Len(p),
             i < j, Switches(p, i), Switches(p, j), NoneBetween(p, i, j)
      PROVE  Leaves(p, id, i) = Finds(p, j)
  <2>1. i \in 0..Len(q)
    BY <1>1, <1>6
  <2>2. CASE j \in 1..Len(q)
    <3>1. Switches(q, i) /\ Switches(q, j) /\ NoneBetween(q, i, j)
      <4>1. j \in 0..Len(q)
        BY <1>1, <2>2
      <4> QED  BY <1>2, <1>4, <1>5, <1>6, <2>1, <2>2, <4>1
    <3> QED  BY <1>2, <1>6, <2>1, <2>2, <3>1 DEF SwitchesFit
  <2>3. CASE j = n
    <3>1. Switches(q, i) /\ NoneBetween(q, i, n)
      BY <1>2, <1>4, <1>5, <1>6, <2>1, <2>3
    <3>2. Leaves(q, id, i) = last
      BY <1>5, <2>1, <3>1 DEF SwitchesFit
    <3> QED  BY <1>2, <1>3, <1>6, <2>1, <2>3, <3>2
  <2> QED  BY <1>1, <2>2, <2>3
<1>7. ASSUME NEW i \in 0..Len(p), Switches(p, i), NoneBetween(p, i, Len(p) + 1)
      PROVE  Leaves(p, id, i) = last2
  <2>1. CASE i = n
    BY <1>3, <1>7, <2>1
  <2>2. CASE i \in 0..Len(q)
    <3>1. ~Switches(p, n) /\ NoneBetween(q, i, n)
      <4>1. i < n /\ n < Len(p) + 1
        BY <1>1, <2>2
      <4>2. ~Switches(p, n)
        BY <1>1, <1>7, <4>1 DEF NoneBetween
      <4>3. \A k \in 1..Len(q) : k \in 1..Len(p) /\ k < Len(p) + 1
        BY <1>1
      <4>4. NoneBetween(q, i, n)
        <5> SUFFICES ASSUME NEW k \in 1..Len(q), i < k PROVE ~Switches(q, k)
          BY DEF NoneBetween
        <5>1. ~Switches(p, k)
          BY <1>7, <4>3 DEF NoneBetween
        <5>2. k \in 0..Len(q)
          BY <1>1
        <5> QED  BY <1>2, <5>1, <5>2
      <4> QED  BY <4>2, <4>4
    <3>2. Leaves(q, id, i) = last
      BY <1>2, <1>5, <1>7, <2>2, <3>1 DEF SwitchesFit
    <3> QED  BY <1>2, <1>3, <2>2, <3>1, <3>2
  <2> QED  BY <1>1, <2>1, <2>2
<1> QED  BY <1>6, <1>7 DEF SwitchesFit, p

\* The head finds the receiver as the adapter has it, and leaves it so for the rest.
LEMMA SwitchesTailed ==
  ASSUME NEW S, NEW q \in Seq(S), q # <<>>, NEW id, NEW last, SwitchesFit(q, id, last)
  PROVE  /\ Switches(q, 1) => id = Finds(q, 1)
         /\ SwitchesFit(Tail(q), IF Switches(q, 1) THEN Leaves(q, id, 1) ELSE id, last)
<1> DEFINE p == Tail(q)
           id2 == IF Switches(q, 1) THEN Leaves(q, id, 1) ELSE id
           back(i) == IF i = 0 /\ ~Switches(q, 1) THEN 0 ELSE i + 1
<1>1. /\ Len(q) \in Nat \ {0} /\ Len(p) = Len(q) - 1 /\ Len(p) \in Nat
      /\ \A i \in 1..Len(p) : p[i] = q[i + 1]
  OBVIOUS
<1> HIDE DEF p
<1>2. Switches(q, 1) => id = Finds(q, 1)
  <2>1. Switches(q, 0) /\ NoneBetween(q, 0, 1) /\ Leaves(q, id, 0) = id /\ 0 \in 0..Len(q) /\ 1 \in 1..Len(q)
    BY <1>1 DEF Switches, NoneBetween, Leaves
  <2> QED  BY <2>1 DEF SwitchesFit
<1>3. ASSUME NEW i \in 0..Len(p)
      PROVE  /\ back(i) \in 0..Len(q) /\ (i # 0 => back(i) = i + 1 /\ back(i) \in 1..Len(q))
             /\ Switches(p, i) => Switches(q, back(i))
             /\ Leaves(p, id2, i) = Leaves(q, id, back(i))
             /\ i # 0 => (Switches(p, i) <=> Switches(q, i + 1)) /\ Finds(p, i) = Finds(q, i + 1)
  <2>1. CASE i = 0
    BY <1>1, <2>1 DEF Switches, Leaves
  <2>2. CASE i # 0
    <3>1. i \in 1..Len(p) /\ p[i] = q[i + 1] /\ i + 1 # 0 /\ i + 1 \in 1..Len(q)
      BY <1>1, <2>2
    <3> QED  BY <2>2, <3>1 DEF Switches, Leaves, Finds
  <2> QED  BY <2>1, <2>2
<1>4. ASSUME NEW i \in 0..Len(p), NEW j \in 1..(Len(p) + 1), NoneBetween(p, i, j)
      PROVE  NoneBetween(q, back(i), j + 1)
  <2> SUFFICES ASSUME NEW k \in 1..Len(q), back(i) < k, k < j + 1 PROVE ~Switches(q, k)
    BY DEF NoneBetween
  <2>1. CASE k = 1
    BY <2>1, <1>1
  <2>2. CASE k # 1
    <3>1. k - 1 \in 1..Len(p) /\ i < k - 1 /\ k - 1 < j /\ (k - 1) + 1 = k /\ k - 1 \in 0..Len(p) /\ k - 1 # 0
      BY <1>1, <2>2
    <3>2. ~Switches(p, k - 1)
      BY <1>4, <3>1 DEF NoneBetween
    <3> QED  BY <1>3, <3>1, <3>2
  <2> QED  BY <2>1, <2>2
<1> HIDE DEF id2
<1>5. ASSUME NEW i \in 0..Len(p), NEW j \in 1..Len(p),
             i < j, Switches(p, i), Switches(p, j), NoneBetween(p, i, j)
      PROVE  Leaves(p, id2, i) = Finds(p, j)
  <2>1. j \in 0..Len(p) /\ j # 0 /\ j \in 1..(Len(p) + 1) /\ j + 1 \in 1..Len(q) /\ back(i) < j + 1
    BY <1>1, <1>5
  <2>2. back(i) \in 0..Len(q) /\ Switches(q, back(i)) /\ Switches(q, j + 1) /\ NoneBetween(q, back(i), j + 1)
    BY <1>3, <1>4, <1>5, <2>1
  <2> HIDE DEF back
  <2>3. Leaves(q, id, back(i)) = Finds(q, j + 1)
    BY <2>1, <2>2 DEF SwitchesFit
  <2> QED  BY <1>3, <2>1, <2>3
<1>6. ASSUME NEW i \in 0..Len(p), Switches(p, i), NoneBetween(p, i, Len(p) + 1)
      PROVE  Leaves(p, id2, i) = last
  <2>1. Len(p) + 1 \in 1..(Len(p) + 1) /\ (Len(p) + 1) + 1 = Len(q) + 1
    BY <1>1
  <2>2. back(i) \in 0..Len(q) /\ Switches(q, back(i)) /\ NoneBetween(q, back(i), Len(q) + 1)
    BY <1>3, <1>4, <1>6, <2>1
  <2> HIDE DEF back
  <2>3. Leaves(q, id, back(i)) = last
    BY <2>2 DEF SwitchesFit
  <2> QED  BY <1>3, <2>3
<1>7. SwitchesFit(p, id2, last)
  BY <1>5, <1>6 DEF SwitchesFit
<1> QED  BY <1>2, <1>7 DEF p, id2

\* What has waited does not switch.
LEMMA SwitchesJoined ==
  ASSUME NEW S, NEW q \in Seq(S), NEW w \in Seq(S), NEW id, NEW last, SwitchesFit(q, id, last),
         \A i \in 1..Len(w) : w[i].op \notin {"enable", "disable"}
  PROVE  SwitchesFit(q \o w, id, last)
<1> DEFINE p == q \o w
<1>1. /\ Len(q) \in Nat /\ Len(w) \in Nat /\ Len(p) = Len(q) + Len(w)
      /\ \A i \in 1..Len(q) : p[i] = q[i]
      /\ \A i \in (Len(q) + 1)..Len(p) : p[i] = w[i - Len(q)] /\ i - Len(q) \in 1..Len(w)
  OBVIOUS
<1> HIDE DEF p
<1>2. ASSUME NEW i \in 0..Len(p), Switches(p, i)
      PROVE  i \in 0..Len(q)
  <2>1. i \notin (Len(q) + 1)..Len(p)
    BY <1>1, <1>2 DEF Switches
  <2> QED  BY <1>1, <2>1
<1>3. /\ \A i \in 0..Len(q) : /\ Switches(p, i) <=> Switches(q, i)
                              /\ Leaves(p, id, i) = Leaves(q, id, i)
      /\ \A j \in 1..Len(q) : Finds(p, j) = Finds(q, j)
  <2>1. \A i \in 0..Len(q) : i = 0 \/ i \in 1..Len(q)
    BY <1>1
  <2> QED  BY <1>1, <2>1 DEF Switches, Leaves, Finds
<1>4. ASSUME NEW i \in 0..Len(q), NEW j \in Nat, NoneBetween(p, i, j)
      PROVE  NoneBetween(q, i, j)
  <2>1. \A k \in 1..Len(q) : k \in 1..Len(p) /\ k \in 0..Len(q)
    BY <1>1
  <2> QED  BY <1>3, <1>4, <2>1 DEF NoneBetween
<1>5. ASSUME NEW i \in 0..Len(p), NEW j \in 1..Len(p),
             i < j, Switches(p, i), Switches(p, j), NoneBetween(p, i, j)
      PROVE  Leaves(p, id, i) = Finds(p, j)
  <2>1. i \in 0..Len(q) /\ j \in 0..Len(q) /\ j \in 1..Len(q) /\ j \in Nat
    BY <1>1, <1>2, <1>5
  <2>2. Switches(q, i) /\ Switches(q, j) /\ NoneBetween(q, i, j)
    BY <1>3, <1>4, <1>5, <2>1
  <2>3. Leaves(q, id, i) = Finds(q, j)
    BY <1>5, <2>1, <2>2 DEF SwitchesFit
  <2> QED  BY <1>3, <2>1, <2>3
<1>6. ASSUME NEW i \in 0..Len(p), Switches(p, i), NoneBetween(p, i, Len(p) + 1)
      PROVE  Leaves(p, id, i) = last
  <2>1. i \in 0..Len(q) /\ Switches(q, i)
    BY <1>2, <1>3, <1>6
  <2>2. NoneBetween(q, i, Len(q) + 1)
    <3>1. \A k \in 1..Len(q) : k \in 1..Len(p) /\ k \in 0..Len(q) /\ k < Len(p) + 1
      BY <1>1
    <3> QED  BY <1>3, <1>6, <3>1 DEF NoneBetween
  <2> QED  BY <1>3, <2>1, <2>2 DEF SwitchesFit
<1> QED  BY <1>5, <1>6 DEF SwitchesFit, p

-----------------------------------------------------------------------------
(* The steps *)

LEMMA CtrlStarts == ASSUME GpsControlAssumption, CtrlInit PROVE CtrlIInv
<1>1. ctrlQueue \in Seq(CtrlMsgs) /\ ctrlPending \in Seq(CtrlWaits) /\ locApiQueue \in Seq(SUBSET LockBits)
  BY DEF CtrlInit
<1>2. Len(ctrlQueue) = 0
  BY DEF CtrlInit
<1>3. CtrlTyped
  BY <1>1 DEF CtrlInit, CtrlTyped, GpsControlAssumption
<1>4. ModemWillAgree
  BY DEF CtrlInit, ModemWillAgree
<1>5. XtraKnows
  BY DEF CtrlInit, XtraKnows
<1>6. LoneClient
  <2> SUFFICES ASSUME NEW c \in Controller
               PROVE  SwitchesFit(ctrlQueue, afwControlId, Session(c)) /\ ctrlSession[c] = 0
    BY DEF LoneClient
  <2>1. Session(c) = 0 /\ ctrlSession[c] = 0 /\ afwControlId = 0
    BY DEF CtrlInit, Session
  <2>2. SwitchesFit(ctrlQueue, 0, 0)
    BY <1>2 DEF SwitchesFit, Leaves
  <2> QED  BY <2>1, <2>2
<1> QED  BY <1>3, <1>4, <1>5, <1>6 DEF CtrlIInv

\* A message that is not about the receiver of a client.
LEMMA CtrlPosted ==
  ASSUME CtrlTyped, LoneClient, NEW m \in CtrlMsgs, ctrlQueue' = Append(ctrlQueue, m),
         m.op \notin {"enable", "disable"},
         UNCHANGED <<mEnabled, ctrlSession, afwControlId, mGpsLock>>
  PROVE  LoneClient'
<1> SUFFICES ASSUME NEW c \in Controller, Controller = {c}
             PROVE  /\ SwitchesFit(ctrlQueue', afwControlId', Session(c)')
                    /\ ctrlSession'[c] > 0 => mGpsLock' # Unknown \/ Holds(ctrlQueue', "enable")
  BY DEF LoneClient
<1>1. /\ SwitchesFit(ctrlQueue, afwControlId, Session(c)) /\ ctrlQueue \in Seq(CtrlMsgs)
      /\ Session(c)' = Session(c)
      /\ ctrlSession[c] > 0 => mGpsLock # Unknown \/ Holds(ctrlQueue, "enable")
  BY DEF CtrlTyped, LoneClient, Session
<1>2. Holds(ctrlQueue', "enable") <=> Holds(ctrlQueue, "enable")
  BY <1>1, HoldsAppended
<1>3. SwitchesFit(ctrlQueue', afwControlId, Session(c))
  BY <1>1, SwitchesAppended
<1> QED  BY <1>1, <1>2, <1>3

LEMMA CtrlCallsKeep ==
  ASSUME GpsControlAssumption, CtrlIInv,
         \/ \E lock \in UpdateLocks : UpdateGpsLock(lock)
         \/ \E lock \in {{}, {"NFW"}} : NfwControl(lock)
  PROVE  CtrlIInv'
<1>1. PICK m \in CtrlMsgs : Called(m) /\ m.op \in {"config", "nfw"}
  <2>1. ASSUME NEW lock \in UpdateLocks, UpdateGpsLock(lock)
        PROVE  \E m \in CtrlMsgs : Called(m) /\ m.op \in {"config", "nfw"}
    <3> DEFINE m == Ctrl("config", 0, lock)
    <3>1. m \in CtrlConfigs /\ m.op = "config" /\ Called(m)
      BY <2>1 DEF UpdateGpsLock, Ctrl, CtrlConfigs, GpsControlAssumption
    <3> HIDE DEF m
    <3> QED  BY <3>1 DEF CtrlMsgs, CtrlWaits
  <2>2. ASSUME NEW lock \in {{}, {"NFW"}}, NfwControl(lock)
        PROVE  \E m \in CtrlMsgs : Called(m) /\ m.op \in {"config", "nfw"}
    <3> DEFINE m == Ctrl("nfw", 0, lock)
    <3>0. lock \in SUBSET {"NFW"}
      BY <2>2
    <3>1. m \in CtrlNfws /\ m.op = "nfw" /\ Called(m)
      BY <2>2, <3>0 DEF NfwControl, Ctrl, CtrlNfws
    <3> HIDE DEF m
    <3> QED  BY <3>1 DEF CtrlMsgs, CtrlWaits
  <2> QED  BY <2>1, <2>2
<1>2. /\ CtrlTyped /\ ModemWillAgree /\ XtraKnows /\ LoneClient
      /\ ctrlQueue' = Append(ctrlQueue, m) /\ ctrlCalls' = ctrlCalls + 1
      /\ UNCHANGED <<mEnabled, ctrlSession, ctrlAdapter, ctrlModem, locApiQueue>>
  BY <1>1 DEF CtrlIInv, Called, UpdateGpsLock, NfwControl
<1>3. ctrlQueue' \in Seq(CtrlMsgs) /\ (Holds(ctrlQueue', "engineUp") <=> Holds(ctrlQueue, "engineUp"))
  BY <1>1, <1>2, HoldsAppended DEF CtrlTyped
<1>4. LoneClient'
  BY <1>1, <1>2, CtrlPosted DEF ctrlAdapter
<1> QED  BY <1>2, <1>3, <1>4 DEF CtrlIInv, CtrlTyped, ModemWillAgree, XtraKnows, WantedLock,
                                 ctrlAdapter, ctrlModem

LEMMA ModemUpKeeps ==
  ASSUME CtrlIInv, ModemUp
  PROVE  CtrlIInv'
<1> DEFINE m == Ctrl("engineUp", 0, {})
<1>1. m \in CtrlUps /\ m.op = "engineUp"
  BY DEF Ctrl, CtrlUps
<1>2. /\ CtrlTyped /\ ModemWillAgree /\ XtraKnows /\ LoneClient
      /\ ctrlQueue' = Append(ctrlQueue, m) /\ ctrlModemUp' = TRUE
      /\ UNCHANGED <<mEnabled, ctrlSession, ctrlCalls, ctrlAdapter, locApiQueue>>
  BY DEF CtrlIInv, ModemUp, ctrlClientVars
<1> HIDE DEF m
<1>3. m \in CtrlMsgs
  BY <1>1 DEF CtrlMsgs
<1>4. ctrlQueue' \in Seq(CtrlMsgs) /\ Holds(ctrlQueue', "engineUp")
  BY <1>1, <1>2, <1>3, HoldsAppended DEF CtrlTyped
<1>5. LoneClient'
  BY <1>1, <1>2, <1>3, CtrlPosted DEF ctrlAdapter
<1> QED  BY <1>2, <1>4, <1>5 DEF CtrlIInv, CtrlTyped, ModemWillAgree, XtraKnows, ctrlAdapter

LEMMA SwitchCallsKeep ==
  ASSUME CtrlIInv, NEW c \in Controller, LocAPIEnable(c) \/ LocAPIDisable(c)
  PROVE  CtrlIInv'
<1>1. CtrlTyped /\ ModemWillAgree /\ XtraKnows /\ LoneClient
  BY DEF CtrlIInv
<1>2. PICK m \in CtrlSwitches :
        /\ ctrlQueue' = Append(ctrlQueue, m) /\ ctrlCalls' = ctrlCalls + 1
        /\ UNCHANGED <<ctrlAdapter, ctrlModem, locApiQueue>>
        /\ mEnabled' \in [Controller -> BOOLEAN] /\ ctrlSession' \in [Controller -> Nat]
        /\ m.op = "enable" => Session(c) = 0 /\ Session(c)' = m.id
        /\ m.op = "disable" => /\ Session(c) = m.id /\ Session(c)' = 0
                              /\ ctrlSession[c] > 0
  <2>1. CASE LocAPIEnable(c)
    <3> DEFINE m == Ctrl("enable", ctrlCalls + 1, {})
    <3>1. m \in CtrlSwitches /\ m.op = "enable" /\ m.id = ctrlCalls + 1
      BY <1>1 DEF Ctrl, CtrlSwitches, CtrlTyped
    <3>2. /\ ~mEnabled[c] /\ Called(m)
          /\ mEnabled' = [mEnabled EXCEPT ![c] = TRUE]
          /\ ctrlSession' = [ctrlSession EXCEPT ![c] = ctrlCalls + 1]
      BY <2>1 DEF LocAPIEnable
    <3> HIDE DEF m
    <3>3. mEnabled'[c] = TRUE /\ ctrlSession'[c] = ctrlCalls + 1
      BY <1>1, <3>2 DEF CtrlTyped
    <3>4. mEnabled' \in [Controller -> BOOLEAN] /\ ctrlSession' \in [Controller -> Nat]
      BY <1>1, <3>2 DEF CtrlTyped
    <3> QED  BY <3>1, <3>2, <3>3, <3>4 DEF Called, Session
  <2>2. CASE LocAPIDisable(c)
    <3> DEFINE m == Ctrl("disable", ctrlSession[c], {})
    <3>1. m \in CtrlSwitches /\ m.op = "disable" /\ m.id = ctrlSession[c]
      BY <1>1, <2>2 DEF Ctrl, CtrlSwitches, CtrlTyped, LocAPIDisable
    <3>2. /\ mEnabled[c] /\ ctrlSession[c] > 0 /\ Called(m)
          /\ mEnabled' = [mEnabled EXCEPT ![c] = FALSE]
          /\ ctrlSession' = ctrlSession
      BY <2>2 DEF LocAPIDisable
    <3> HIDE DEF m
    <3>3. mEnabled'[c] = FALSE /\ ctrlSession'[c] = ctrlSession[c]
      BY <1>1, <3>2 DEF CtrlTyped
    <3>4. mEnabled' \in [Controller -> BOOLEAN] /\ ctrlSession' \in [Controller -> Nat]
      BY <1>1, <3>2 DEF CtrlTyped
    <3> QED  BY <3>1, <3>2, <3>3, <3>4 DEF Called, Session
  <2> QED  BY <2>1, <2>2
<1>3. m \in CtrlMsgs /\ m.op \in {"enable", "disable"}
  BY <1>2 DEF CtrlMsgs, CtrlSwitches
<1>4. /\ ctrlQueue' \in Seq(CtrlMsgs)
      /\ Holds(ctrlQueue', "engineUp") <=> Holds(ctrlQueue, "engineUp")
      /\ Holds(ctrlQueue', "enable") <=> Holds(ctrlQueue, "enable") \/ m.op = "enable"
  BY <1>1, <1>2, <1>3, HoldsAppended DEF CtrlTyped
<1>5. LoneClient'
  <2> SUFFICES ASSUME NEW d \in Controller, Controller = {d}
               PROVE  /\ SwitchesFit(ctrlQueue', afwControlId', Session(d)')
                      /\ ctrlSession'[d] > 0 => mGpsLock' # Unknown \/ Holds(ctrlQueue', "enable")
    BY DEF LoneClient
  <2>1. d = c /\ Controller = {c}
    OBVIOUS
  <2>2. /\ SwitchesFit(ctrlQueue, afwControlId, Session(c)) /\ ctrlQueue \in Seq(CtrlMsgs)
        /\ ctrlSession[c] > 0 => mGpsLock # Unknown \/ Holds(ctrlQueue, "enable")
    BY <1>1, <2>1 DEF CtrlTyped, LoneClient
  <2>3. SwitchesFit(ctrlQueue', afwControlId, Session(c)')
    BY <1>2, <1>3, <2>2, SwitchesAppended
  <2>4. afwControlId' = afwControlId /\ mGpsLock' = mGpsLock
    BY <1>2 DEF ctrlAdapter
  <2> QED  BY <1>2, <1>3, <1>4, <2>1, <2>2, <2>3, <2>4
<1>6. CtrlTyped'
  BY <1>1, <1>2, <1>4 DEF CtrlTyped, ctrlAdapter, ctrlModem
<1>7. ModemWillAgree' /\ XtraKnows'
  BY <1>1, <1>2, <1>4 DEF ModemWillAgree, XtraKnows, WantedLock, ctrlAdapter, ctrlModem
<1> QED  BY <1>5, <1>6, <1>7 DEF CtrlIInv

\* The head is taken: the lone client's enable and disable find what they expect.
LEMMA CtrlTaken ==
  ASSUME CtrlTyped, LoneClient, ctrlQueue # <<>>, UNCHANGED <<mEnabled, ctrlSession>>,
         NEW w \in Seq(CtrlWaits), ctrlQueue' = Tail(ctrlQueue) \o w,
         Head(ctrlQueue).op = "enable" /\ afwControlId = 0 => afwControlId' = Head(ctrlQueue).id,
         Head(ctrlQueue).op = "disable" /\ afwControlId = Head(ctrlQueue).id => afwControlId' = 0,
         Head(ctrlQueue).op \notin {"enable", "disable"} => afwControlId' = afwControlId,
         mGpsLock # Unknown \/ Head(ctrlQueue).op = "enable" => mGpsLock' # Unknown
  PROVE  /\ LoneClient' /\ ctrlQueue' \in Seq(CtrlMsgs)
         /\ Holds(ctrlQueue, "engineUp") =>
               Holds(ctrlQueue', "engineUp") \/ Head(ctrlQueue).op = "engineUp"
<1> DEFINE p == Tail(ctrlQueue)
           h == Head(ctrlQueue)
<1>1. /\ ctrlQueue \in Seq(CtrlMsgs) /\ p \in Seq(CtrlMsgs) /\ h = ctrlQueue[1]
      /\ Holds(ctrlQueue, "enable") <=> Holds(p, "enable") \/ h.op = "enable"
      /\ Holds(ctrlQueue, "engineUp") <=> Holds(p, "engineUp") \/ h.op = "engineUp"
  BY HoldsTailed DEF CtrlTyped
<1>2. /\ w \in Seq(CtrlMsgs)
      /\ \A i \in 1..Len(w) : w[i].op \in {"config", "nfw"}
  <2>1. CtrlWaits \subseteq CtrlMsgs /\ \A m \in CtrlWaits : m.op \in {"config", "nfw"}
    BY DEF CtrlMsgs, CtrlWaits, CtrlConfigs, CtrlNfws
  <2>2. w \in Seq(CtrlMsgs) /\ \A i \in 1..Len(w) : w[i] \in CtrlWaits
    BY <2>1
  <2> QED  BY <2>1, <2>2
<1> HIDE DEF p, h
<1>3. ~Holds(w, "enable") /\ ~Holds(w, "engineUp")
  BY <1>2 DEF Holds
<1>4. ctrlQueue' = p \o w
  BY DEF p
<1>5. /\ ctrlQueue' \in Seq(CtrlMsgs)
      /\ Holds(ctrlQueue', "enable") <=> Holds(p, "enable")
      /\ Holds(ctrlQueue', "engineUp") <=> Holds(p, "engineUp")
  <2>1. /\ p \o w \in Seq(CtrlMsgs)
        /\ Holds(p \o w, "enable") <=> Holds(p, "enable")
    BY <1>1, <1>2, <1>3, HoldsJoined
  <2>2. Holds(p \o w, "engineUp") <=> Holds(p, "engineUp")
    BY <1>1, <1>2, <1>3, HoldsJoined
  <2> QED  BY <1>4, <2>1, <2>2
<1>6. LoneClient'
  <2> SUFFICES ASSUME NEW c \in Controller, Controller = {c}
               PROVE  /\ SwitchesFit(ctrlQueue', afwControlId', Session(c)')
                      /\ ctrlSession'[c] > 0 => mGpsLock' # Unknown \/ Holds(ctrlQueue', "enable")
    BY DEF LoneClient
  <2>1. /\ SwitchesFit(ctrlQueue, afwControlId, Session(c)) /\ Session(c)' = Session(c)
        /\ ctrlSession[c] > 0 => mGpsLock # Unknown \/ Holds(ctrlQueue, "enable")
    BY DEF LoneClient, Session
  <2>2. /\ Switches(ctrlQueue, 1) => afwControlId = Finds(ctrlQueue, 1)
        /\ SwitchesFit(p, IF Switches(ctrlQueue, 1) THEN Leaves(ctrlQueue, afwControlId, 1)
                          ELSE afwControlId, Session(c))
    BY <1>1, <2>1, SwitchesTailed DEF p
  <2>3. afwControlId' = IF Switches(ctrlQueue, 1) THEN Leaves(ctrlQueue, afwControlId, 1)
                        ELSE afwControlId
    BY <1>1, <2>2 DEF Switches, Leaves, Finds, h
  <2>4. SwitchesFit(p, afwControlId', Session(c))
    BY <2>2, <2>3
  <2>5. SwitchesFit(ctrlQueue', afwControlId', Session(c))
    BY <1>1, <1>2, <1>4, <2>4, SwitchesJoined
  <2> QED  BY <1>1, <1>5, <2>1, <2>5 DEF h
<1> QED  BY <1>1, <1>5, <1>6 DEF h

\* The lock that is sent last is the one that will hold.
LEMMA LockSent ==
  ASSUME CtrlTyped, NEW lock \in SUBSET LockBits, SetLock(lock), lock = WantedLock'
  PROVE  ModemWillAgree' /\ locApiQueue' \in Seq(SUBSET LockBits)
<1>1. LastLock(locApiQueue', modemLock') = lock /\ locApiQueue' \in Seq(SUBSET LockBits)
  BY LastLockAppended DEF CtrlTyped, SetLock
<1> QED  BY <1>1 DEF ModemWillAgree

LEMMA EnableGnssKeeps ==
  ASSUME CtrlIInv, EnableGnss
  PROVE  CtrlIInv'
<1> DEFINE h == Head(ctrlQueue)
<1>1. CtrlTyped /\ ModemWillAgree /\ XtraKnows /\ LoneClient
  BY DEF CtrlIInv
<1>2. /\ ctrlQueue # <<>> /\ ctrlQueue' = Tail(ctrlQueue) /\ h.op = "enable"
      /\ UNCHANGED <<mEnabled, ctrlSession, ctrlCalls, mSupportNfwControl, ctrlKnown, ctrlPending,
                     modemLock, ctrlModemUp>>
  BY DEF EnableGnss, CtrlIs, Taken, ctrlClientVars, ctrlModem
<1>3. Tail(ctrlQueue) \in Seq(CtrlMsgs) /\ h \in CtrlMsgs
  BY <1>1, <1>2, HoldsTailed DEF CtrlTyped
<1>4. h.id \in Nat \ {0}
  BY <1>2, <1>3 DEF CtrlMsgs, CtrlSwitches, CtrlWaits, CtrlConfigs, CtrlNfws, CtrlUps
<1>5. ctrlQueue' = Tail(ctrlQueue) \o <<>> /\ <<>> \in Seq(CtrlWaits)
  BY <1>2, <1>3
<1> HIDE DEF h
<1>6. CASE afwControlId > 0
  <2>1. UNCHANGED <<afwControlId, GPS_LOCK, locApiQueue, mGpsLock>>
    BY <1>6 DEF EnableGnss
  <2>2. afwControlId # 0 /\ mGpsLock # Unknown
    BY <1>1, <1>6 DEF XtraKnows, CtrlTyped
  <2>3. /\ LoneClient' /\ ctrlQueue' \in Seq(CtrlMsgs)
        /\ Holds(ctrlQueue, "engineUp") => Holds(ctrlQueue', "engineUp")
    BY <1>1, <1>2, <1>5, <2>1, <2>2, CtrlTaken DEF h
  <2> QED  BY <1>1, <1>2, <2>1, <2>3 DEF CtrlIInv, CtrlTyped, ModemWillAgree, XtraKnows, WantedLock
<1>7. CASE ~(afwControlId > 0)
  <2> DEFINE lock == IF mSupportNfwControl THEN GPS_LOCK' ELSE {}
  <2>1. /\ afwControlId' = h.id
        /\ GPS_LOCK' = IF mSupportNfwControl THEN GPS_LOCK \ {"MO"} ELSE GPS_LOCK
        /\ SetLock(lock) /\ mGpsLock' = lock \ {"NFW"}
    BY <1>7 DEF EnableGnss, h
  <2>2. afwControlId = 0 /\ afwControlId' # 0 /\ afwControlId' \in Nat
    BY <1>1, <1>4, <1>7, <2>1 DEF CtrlTyped
  <2>3. /\ GPS_LOCK' \subseteq LockBits /\ lock \in SUBSET LockBits /\ lock = WantedLock'
    BY <1>1, <1>2, <2>1, <2>2 DEF CtrlTyped, WantedLock
  <2>4. mGpsLock' = {}
    BY <2>1, <2>3 DEF LockBits
  <2>5. XtraKnows'
    BY <1>1, <1>2, <2>1, <2>2, <2>4 DEF XtraKnows, Unknown
  <2>6. ModemWillAgree' /\ locApiQueue' \in Seq(SUBSET LockBits)
    BY <1>1, <2>1, <2>3, LockSent
  <2>7. mGpsLock' # Unknown
    BY <2>4 DEF Unknown
  <2>8. LoneClient' /\ ctrlQueue' \in Seq(CtrlMsgs)
    BY <1>1, <1>2, <1>5, <2>1, <2>7, CtrlTaken DEF h
  <2> QED  BY <1>1, <1>2, <2>2, <2>3, <2>5, <2>6, <2>8 DEF CtrlIInv, CtrlTyped
<1> QED  BY <1>6, <1>7

LEMMA DisableGnssKeeps ==
  ASSUME CtrlIInv, DisableGnss
  PROVE  CtrlIInv'
<1> DEFINE h == Head(ctrlQueue)
<1>1. CtrlTyped /\ ModemWillAgree /\ XtraKnows /\ LoneClient
  BY DEF CtrlIInv
<1>2. /\ ctrlQueue # <<>> /\ ctrlQueue' = Tail(ctrlQueue) /\ h.op = "disable"
      /\ UNCHANGED <<mEnabled, ctrlSession, ctrlCalls, mSupportNfwControl, ctrlKnown, ctrlPending,
                     modemLock, ctrlModemUp>>
  BY DEF DisableGnss, CtrlIs, Taken, ctrlClientVars, ctrlModem
<1>3. Tail(ctrlQueue) \in Seq(CtrlMsgs) /\ h \in CtrlMsgs
  BY <1>1, <1>2, HoldsTailed DEF CtrlTyped
<1>4. h.id \in Nat \ {0}
  BY <1>2, <1>3 DEF CtrlMsgs, CtrlSwitches, CtrlWaits, CtrlConfigs, CtrlNfws, CtrlUps
<1>5. ctrlQueue' = Tail(ctrlQueue) \o <<>> /\ <<>> \in Seq(CtrlWaits)
  BY <1>2, <1>3
<1> HIDE DEF h
<1>6. CASE afwControlId # h.id
  <2>1. UNCHANGED <<afwControlId, GPS_LOCK, locApiQueue, mGpsLock>>
    BY <1>6 DEF DisableGnss, h
  <2>3. /\ LoneClient' /\ ctrlQueue' \in Seq(CtrlMsgs)
        /\ Holds(ctrlQueue, "engineUp") => Holds(ctrlQueue', "engineUp")
    BY <1>1, <1>2, <1>5, <1>6, <2>1, CtrlTaken DEF h
  <2> QED  BY <1>1, <1>2, <2>1, <2>3 DEF CtrlIInv, CtrlTyped, ModemWillAgree, XtraKnows, WantedLock
<1>7. CASE afwControlId = h.id
  <2>1. /\ afwControlId' = 0 /\ afwControlId # 0
        /\ GPS_LOCK' = IF mSupportNfwControl THEN GPS_LOCK \cup {"MO"} ELSE GPS_LOCK
        /\ SetLock(GPS_LOCK') /\ mGpsLock' = GPS_LOCK' \ {"NFW"}
    BY <1>4, <1>7 DEF DisableGnss, h
  <2>3. GPS_LOCK' \subseteq LockBits /\ GPS_LOCK' = WantedLock' /\ "MO" \in GPS_LOCK'
    BY <1>1, <2>1 DEF CtrlTyped, WantedLock, XtraKnows, LockBits
  <2>4. mGpsLock' = {"MO"}
    BY <2>1, <2>3 DEF LockBits
  <2>5. XtraKnows'
    BY <1>2, <2>1, <2>3, <2>4 DEF XtraKnows
  <2>6. ModemWillAgree' /\ locApiQueue' \in Seq(SUBSET LockBits)
    BY <1>1, <2>1, <2>3, LockSent
  <2>7. mGpsLock' # Unknown
    BY <2>4 DEF Unknown
  <2>8. LoneClient' /\ ctrlQueue' \in Seq(CtrlMsgs)
    BY <1>1, <1>2, <1>5, <2>1, <2>7, CtrlTaken DEF h
  <2> QED  BY <1>1, <1>2, <2>1, <2>3, <2>5, <2>6, <2>8 DEF CtrlIInv, CtrlTyped
<1> QED  BY <1>6, <1>7

LEMMA ConfigurationKeeps ==
  ASSUME CtrlIInv, Defer \/ UpdateConfig \/ ControlNfw
  PROVE  CtrlIInv'
<1> DEFINE h == Head(ctrlQueue)
<1>1. CtrlTyped /\ ModemWillAgree /\ XtraKnows /\ LoneClient
  BY DEF CtrlIInv
<1>2. /\ ctrlQueue # <<>> /\ ctrlQueue' = Tail(ctrlQueue) /\ h.op \in {"config", "nfw"}
      /\ UNCHANGED <<mEnabled, ctrlSession, ctrlCalls, afwControlId, ctrlKnown, mGpsLock,
                     modemLock, ctrlModemUp>>
  BY DEF Defer, UpdateConfig, ControlNfw, CtrlIs, Taken, ctrlClientVars, ctrlModem
<1>3. Tail(ctrlQueue) \in Seq(CtrlMsgs) /\ h \in CtrlMsgs
  BY <1>1, <1>2, HoldsTailed DEF CtrlTyped
<1>4. /\ h \in CtrlWaits /\ h.lock \subseteq LockBits
      /\ h.op = "nfw" => h.lock \subseteq {"NFW"}
  BY <1>2, <1>3 DEF CtrlMsgs, CtrlSwitches, CtrlWaits, CtrlConfigs, CtrlNfws, CtrlUps, LockBits
<1>5. ctrlQueue' = Tail(ctrlQueue) \o <<>> /\ <<>> \in Seq(CtrlWaits)
  BY <1>2, <1>3
<1> HIDE DEF h
<1>6. /\ LoneClient' /\ ctrlQueue' \in Seq(CtrlMsgs)
      /\ Holds(ctrlQueue, "engineUp") => Holds(ctrlQueue', "engineUp")
  BY <1>1, <1>2, <1>5, CtrlTaken DEF h
<1>7. CASE Defer
  <2>1. /\ ctrlPending' = Append(ctrlPending, h)
        /\ UNCHANGED <<mSupportNfwControl, GPS_LOCK, locApiQueue>>
    BY <1>7 DEF Defer, h
  <2>2. ctrlPending' \in Seq(CtrlWaits)
    BY <1>1, <1>4, <2>1 DEF CtrlTyped
  <2> QED  BY <1>1, <1>2, <1>6, <2>1, <2>2 DEF CtrlIInv, CtrlTyped, ModemWillAgree, XtraKnows, WantedLock
<1>8. CASE UpdateConfig
  <2>1. /\ GPS_LOCK' = h.lock \cup {"MO"} /\ mSupportNfwControl' = FALSE /\ ctrlPending' = ctrlPending
        /\ afwControlId = 0 => SetLock(GPS_LOCK')
        /\ afwControlId # 0 /\ mSupportNfwControl => SetLock({})
        /\ afwControlId # 0 /\ ~mSupportNfwControl => locApiQueue' = locApiQueue
    BY <1>8 DEF UpdateConfig, h
  <2>2. GPS_LOCK' \subseteq LockBits /\ "MO" \in GPS_LOCK'
    BY <1>4, <2>1 DEF LockBits
  <2>3. XtraKnows'
    BY <1>1, <1>2, <2>1, <2>2 DEF XtraKnows
  <2>4. ModemWillAgree' /\ locApiQueue' \in Seq(SUBSET LockBits)
    <3>1. CASE afwControlId = 0
      BY <1>1, <1>2, <2>1, <2>2, <3>1, LockSent DEF WantedLock
    <3>2. CASE afwControlId # 0 /\ mSupportNfwControl
      <4>1. {} \in SUBSET LockBits /\ {} = WantedLock'
        BY <1>2, <2>1, <3>2 DEF WantedLock
      <4> QED  BY <1>1, <2>1, <3>2, <4>1, LockSent
    <3>3. CASE afwControlId # 0 /\ ~mSupportNfwControl
      BY <1>1, <1>2, <1>6, <2>1, <3>3 DEF CtrlTyped, ModemWillAgree, WantedLock
    <3> QED  BY <3>1, <3>2, <3>3
  <2> QED  BY <1>1, <1>2, <1>6, <2>1, <2>2, <2>3, <2>4 DEF CtrlIInv, CtrlTyped
<1>9. CASE ControlNfw
  <2>1. /\ mSupportNfwControl' = mSupportNfwControl /\ ctrlPending' = ctrlPending /\ h.op = "nfw"
        /\ mSupportNfwControl => /\ GPS_LOCK' = (GPS_LOCK \cap {"MO"}) \cup h.lock
                                /\ SetLock(GPS_LOCK')
        /\ ~mSupportNfwControl => UNCHANGED <<GPS_LOCK, locApiQueue>>
    BY <1>9 DEF ControlNfw, CtrlIs, h
  <2>2. GPS_LOCK' \subseteq LockBits /\ ("MO" \in GPS_LOCK' <=> "MO" \in GPS_LOCK)
    BY <1>1, <1>4, <2>1 DEF LockBits, CtrlTyped
  <2>3. XtraKnows'
    BY <1>1, <1>2, <2>1, <2>2 DEF XtraKnows
  <2>4. ModemWillAgree' /\ locApiQueue' \in Seq(SUBSET LockBits)
    <3>1. CASE mSupportNfwControl
      BY <1>1, <2>1, <2>2, <3>1, LockSent DEF WantedLock
    <3>2. CASE ~mSupportNfwControl
      BY <1>1, <1>2, <1>6, <2>1, <3>2 DEF CtrlTyped, ModemWillAgree, WantedLock
    <3> QED  BY <3>1, <3>2
  <2> QED  BY <1>1, <1>2, <1>6, <2>1, <2>2, <2>3, <2>4 DEF CtrlIInv, CtrlTyped
<1> QED  BY <1>7, <1>8, <1>9

LEMMA HandleEngineUpKeeps ==
  ASSUME CtrlIInv, HandleEngineUp
  PROVE  CtrlIInv'
<1>1. CtrlTyped /\ ModemWillAgree /\ XtraKnows /\ LoneClient
  BY DEF CtrlIInv
<1>2. /\ ctrlQueue # <<>> /\ ctrlQueue' = Tail(ctrlQueue) \o ctrlPending
      /\ Head(ctrlQueue).op = "engineUp" /\ ctrlPending' = <<>> /\ SetLock(WantedLock)
      /\ UNCHANGED <<mEnabled, ctrlSession, ctrlCalls, afwControlId, mSupportNfwControl, GPS_LOCK,
                     mGpsLock, modemLock, ctrlModemUp>>
  BY DEF HandleEngineUp, CtrlIs, ctrlClientVars, ctrlModem, WantedLock
<1>3. LoneClient' /\ ctrlQueue' \in Seq(CtrlMsgs)
  BY <1>1, <1>2, CtrlTaken DEF CtrlTyped
<1>4. WantedLock \in SUBSET LockBits /\ WantedLock' = WantedLock
  BY <1>1, <1>2 DEF CtrlTyped, WantedLock
<1>5. ModemWillAgree' /\ locApiQueue' \in Seq(SUBSET LockBits)
  BY <1>1, <1>2, <1>4, LockSent
<1>6. ctrlPending' \in Seq(CtrlWaits)
  BY <1>2
<1> QED  BY <1>1, <1>2, <1>3, <1>5, <1>6 DEF CtrlIInv, CtrlTyped, XtraKnows

LEMMA ModemLockKeeps ==
  ASSUME CtrlIInv, SetGpsLockSync \/ ModemDown
  PROVE  CtrlIInv'
<1>1. CtrlTyped /\ ModemWillAgree /\ XtraKnows /\ LoneClient
  BY DEF CtrlIInv
<1>2. UNCHANGED <<ctrlClientVars, ctrlAdapter, ctrlQueue>>
  BY DEF SetGpsLockSync, ModemDown
<1>3. LoneClient' /\ XtraKnows'
  BY <1>1, <1>2 DEF LoneClient, XtraKnows, Session, ctrlClientVars, ctrlAdapter
<1>4. CASE SetGpsLockSync
  <2>1. /\ locApiQueue # <<>> /\ locApiQueue' = Tail(locApiQueue) /\ ctrlModemUp' = ctrlModemUp
        /\ ctrlModemUp => modemLock' = Head(locApiQueue)
    BY <1>4 DEF SetGpsLockSync
  <2>2. locApiQueue' \in Seq(SUBSET LockBits)
    BY <1>1, <2>1 DEF CtrlTyped
  <2>3. ctrlModemUp => LastLock(locApiQueue', modemLock') = LastLock(locApiQueue, modemLock)
    BY <1>1, <2>1, LastLockTailed DEF CtrlTyped
  <2> QED  BY <1>1, <1>2, <1>3, <2>1, <2>2, <2>3
           DEF CtrlIInv, CtrlTyped, ModemWillAgree, WantedLock, ctrlClientVars, ctrlAdapter
<1>5. CASE ModemDown
  BY <1>1, <1>2, <1>3, <1>5 DEF ModemDown, CtrlIInv, CtrlTyped, ModemWillAgree, ctrlClientVars, ctrlAdapter
<1> QED  BY <1>4, <1>5

LEMMA CtrlAgrees == CtrlIInv => LockAgreed
<1> SUFFICES ASSUME CtrlIInv, CtrlSettled PROVE LockAgreed
  BY DEF LockAgreed, ModemLockRight, XtraAgrees, UserSwitchWorks
<1>1. CtrlTyped /\ ModemWillAgree /\ XtraKnows /\ LoneClient
  BY DEF CtrlIInv
<1>2. Len(ctrlQueue) = 0 /\ Len(locApiQueue) = 0 /\ ctrlModemUp
  BY DEF CtrlSettled
<1>3. ~Holds(ctrlQueue, "engineUp") /\ ~Holds(ctrlQueue, "enable")
  BY <1>2 DEF Holds
<1>4. modemLock = WantedLock
  BY <1>1, <1>2, <1>3 DEF ModemWillAgree, LastLock
<1>5. mGpsLock # Unknown => mGpsLock = modemLock \ {"NFW"}
  BY <1>1, <1>4 DEF XtraKnows, WantedLock, CtrlTyped, LockBits
<1>6. ASSUME NEW c \in Controller, Controller = {c}, ctrlSession[c] > 0
      PROVE  mEnabled[c] <=> "MO" \notin modemLock
  <2>1. SwitchesFit(ctrlQueue, afwControlId, Session(c)) /\ mGpsLock # Unknown
    BY <1>1, <1>3, <1>6 DEF LoneClient
  <2>2. afwControlId = Session(c)
    <3>1. /\ 0 \in 0..Len(ctrlQueue) /\ Switches(ctrlQueue, 0) /\ NoneBetween(ctrlQueue, 0, Len(ctrlQueue) + 1)
          /\ Leaves(ctrlQueue, afwControlId, 0) = afwControlId
      BY <1>2 DEF Switches, NoneBetween, Leaves
    <3> QED  BY <2>1, <3>1 DEF SwitchesFit
  <2>3. mEnabled[c] <=> afwControlId # 0
    BY <1>6, <2>2 DEF Session
  <2>4. afwControlId # 0 <=> "MO" \notin modemLock
    BY <1>1, <1>4, <2>1 DEF XtraKnows, WantedLock
  <2> QED  BY <2>3, <2>4
<1> QED  BY <1>4, <1>5, <1>6 DEF LockAgreed, ModemLockRight, XtraAgrees, UserSwitchWorks, WantedLock

\* Once all is worked off, the modem has the lock that the clients, the configuration and
\* the behaviour of the version ask for, XTRA knows whether it is locked, and a lone client
\* that has enabled the receiver can use it, in whatever order calls and restarts came.
THEOREM LockFollowsUser == CtrlSpec => []LockAgreed
<1>1. CtrlInit => CtrlIInv
  BY CtrlStarts, GpsControlAssumption
<1>2. CtrlIInv /\ [CtrlNext]_ctrlVars => CtrlIInv'
  <2> SUFFICES ASSUME CtrlIInv, [CtrlNext]_ctrlVars PROVE CtrlIInv'
    OBVIOUS
  <2>1. CASE CtrlNext
    BY <2>1, GpsControlAssumption, CtrlCallsKeep, ModemUpKeeps, SwitchCallsKeep, EnableGnssKeeps,
       DisableGnssKeeps, ConfigurationKeeps, HandleEngineUpKeeps, ModemLockKeeps DEF CtrlNext
  <2>2. CASE UNCHANGED ctrlVars
    BY <2>2 DEF ctrlVars, ctrlClientVars, ctrlAdapter, ctrlModem, CtrlIInv, CtrlTyped,
                ModemWillAgree, XtraKnows, WantedLock, LoneClient, Session
  <2> QED  BY <2>1, <2>2
<1> QED  BY <1>1, <1>2, CtrlAgrees, PTL DEF CtrlSpec

-----------------------------------------------------------------------------
(* What the modem reports: the inductive invariant *)

Sentences == {"general", "debug"}
LocMsgs == [op : {"open", "openFirst", "ssr", "nmea"}, types : SUBSET Sentences]

MaskTyped ==
    /\ device \in DeviceKind /\ mLocAdapters \subseteq MaskAdapter
    /\ callbacks \in [MaskClient -> SUBSET MaskCallback]
    /\ mEvtMask \in [MaskAdapter -> SUBSET EventBit]
    /\ mNmeaMask \subseteq Sentences
    /\ engineUps \in Nat /\ locMsgs \in Seq(LocMsgs)

DebugDevice == "ENGINE_DEBUG_DATA" \in device
Sent(q, ops) == \E i \in 1..Len(q) : q[i].op \in ops
Opening == {"open", "openFirst", "ssr"}
ComingUp == {"openFirst", "ssr"}

\* GnssAdapter has still to be told that the engine is up.
UpUnderWay == engineUps > 0 \/ Sent(locMsgs, ComingUp)

MaskWillAgree ==
    /\ locOpen \/ Sent(locMsgs, ComingUp)
    /\ locOpen /\ ~Sent(locMsgs, Opening) => locMask = AllMasks

\* The masks have what clients and services need, as far as it is known.
BitsFit ==
    /\ With("tracking", callbacks) => "POSITION" \in mEvtMask["gnss"]
    /\ With("measurements", callbacks) =>
          /\ "MEASUREMENT" \in mEvtMask["gnss"]
          /\ "power" \in registered /\ ~powerLate => "POLYNOMIAL" \in mEvtMask["gnss"]
    /\ With("nHzMeasurements", callbacks) \/ nHzWanted =>
          nHzCut \/ "NHZ" \in mEvtMask["gnss"]
    /\ nHzWanted => "engHub" \in device
    /\ DebugDevice /\ (With("nmea", callbacks) \/ With("data", callbacks)) =>
          "DEBUG_DATA" \in mEvtMask["gnss"]
    /\ ~DebugDevice /\ With("data", callbacks) => "NMEA" \in mEvtMask["gnss"]
    /\ ~DebugDevice /\ With("nmea", callbacks) /\ mNmeaMask # {} => "NMEA" \in mEvtMask["gnss"]
    /\ "agps" \in registered => "SERVER_REQUEST" \in mEvtMask["gnss"]
    /\ "odcpi" \in registered => "WIFI" \in mEvtMask["gnss"]
    /\ "gnss" \in mLocAdapters
    /\ fenceClients => "BREACH" \in mEvtMask["geofence"] /\ "geofence" \in mLocAdapters

\* A modem that makes these types will make the demand ones when it has got the queue.
Sets(q, i) == i = 0 \/ q[i].op = "nmea"
Made(q, types, i) == IF i = 0 THEN types ELSE q[i].types
WillMake(q, types, demand) ==
    \A i \in 0..Len(q) :
        Sets(q, i) /\ (\A k \in 1..Len(q) : i < k => ~Sets(q, k)) => demand \subseteq Made(q, types, i)

TypesFit ==
    ~UpUnderWay /\ ~DebugDevice =>
        /\ mNmeaMask = ConfTypes
        /\ WillMake(locMsgs, nmeaTypes, ConfTypes)
        /\ With("data", callbacks) => dataCut \/ WillMake(locMsgs, nmeaTypes, {"debug"})

MaskIInv == MaskTyped /\ MaskWillAgree /\ BitsFit /\ TypesFit

-----------------------------------------------------------------------------
(* Lemmas about the messages for LocApiBase *)

LEMMA SentAppended ==
  ASSUME NEW q \in Seq(LocMsgs), NEW m \in LocMsgs, NEW ops
  PROVE  /\ Append(q, m) \in Seq(LocMsgs)
         /\ Sent(Append(q, m), ops) <=> Sent(q, ops) \/ m.op \in ops
<1>1. /\ Append(q, m) \in Seq(LocMsgs) /\ Len(Append(q, m)) = Len(q) + 1 /\ Len(q) \in Nat
      /\ Append(q, m)[Len(q) + 1] = m /\ \A i \in 1..Len(q) : Append(q, m)[i] = q[i]
  OBVIOUS
<1> QED  BY <1>1 DEF Sent

LEMMA SentTailed ==
  ASSUME NEW q \in Seq(LocMsgs), q # <<>>, NEW ops
  PROVE  /\ Tail(q) \in Seq(LocMsgs) /\ Head(q) \in LocMsgs
         /\ Sent(q, ops) <=> Sent(Tail(q), ops) \/ Head(q).op \in ops
<1> DEFINE p == Tail(q)
<1>1. /\ p \in Seq(LocMsgs) /\ Head(q) \in LocMsgs /\ Head(q) = q[1]
      /\ Len(p) = Len(q) - 1 /\ Len(q) \in Nat \ {0}
      /\ \A i \in 1..Len(p) : p[i] = q[i + 1]
  OBVIOUS
<1> HIDE DEF p
<1>2. ASSUME NEW i \in 1..Len(q), q[i].op \in ops, i # 1 PROVE Sent(p, ops)
  <2>1. i - 1 \in 1..Len(p) /\ (i - 1) + 1 = i
    BY <1>1, <1>2
  <2>2. p[i - 1].op \in ops
    BY <1>1, <1>2, <2>1
  <2> QED  BY <2>1, <2>2 DEF Sent
<1>3. ASSUME NEW i \in 1..Len(p), p[i].op \in ops PROVE Sent(q, ops)
  <2>1. i + 1 \in 1..Len(q) /\ q[i + 1].op \in ops
    BY <1>1, <1>3
  <2> QED  BY <2>1 DEF Sent
<1>4. 1 \in 1..Len(q)
  BY <1>1
<1>5. Sent(q, ops) <=> Sent(p, ops) \/ q[1].op \in ops
  BY <1>2, <1>3, <1>4 DEF Sent
<1> QED  BY <1>1, <1>5 DEF p

LEMMA WillMakeAppended ==
  ASSUME NEW q \in Seq(LocMsgs), NEW m \in LocMsgs, NEW types, NEW demand,
         m.op = "nmea" => demand \subseteq m.types,
         m.op # "nmea" => WillMake(q, types, demand)
  PROVE  WillMake(Append(q, m), types, demand)
<1> DEFINE p == Append(q, m)
           n == Len(q) + 1
<1>1. /\ Len(q) \in Nat /\ Len(p) = n /\ p[n] = m
      /\ \A i \in 1..Len(q) : p[i] = q[i] /\ i \in 1..Len(p)
      /\ \A i \in 0..Len(q) : (i = 0 \/ i \in 1..Len(q)) /\ i < n
      /\ \A i \in 0..Len(p) : i \in 0..Len(q) \/ i = n
      /\ n # 0 /\ n \in 1..Len(p)
  OBVIOUS
<1> HIDE DEF p, n
<1> SUFFICES ASSUME NEW i \in 0..Len(p), Sets(p, i), \A k \in 1..Len(p) : i < k => ~Sets(p, k)
             PROVE  demand \subseteq Made(p, types, i)
  BY DEF WillMake, p
<1>2. CASE i = n
  BY <1>1, <1>2 DEF Sets, Made
<1>3. CASE i \in 0..Len(q)
  <2>1. ~Sets(p, n)
    BY <1>1, <1>3
  <2>2. WillMake(q, types, demand)
    BY <1>1, <2>1 DEF Sets
  <2>3. Sets(q, i) /\ Made(p, types, i) = Made(q, types, i)
    BY <1>1, <1>3 DEF Sets, Made
  <2>4. ASSUME NEW k \in 1..Len(q), i < k PROVE ~Sets(q, k)
    <3>1. ~Sets(p, k)
      BY <1>1, <2>4
    <3> QED  BY <1>1, <3>1 DEF Sets
  <2>5. demand \subseteq Made(q, types, i)
    BY <1>3, <2>2, <2>3, <2>4 DEF WillMake
  <2> QED  BY <2>3, <2>5
<1> QED  BY <1>1, <1>2, <1>3

LEMMA WillMakeTailed ==
  ASSUME NEW q \in Seq(LocMsgs), q # <<>>, NEW types, NEW demand, WillMake(q, types, demand)
  PROVE  WillMake(Tail(q), IF Head(q).op = "nmea" THEN Head(q).types ELSE types, demand)
<1> DEFINE p == Tail(q)
           types2 == IF q[1].op = "nmea" THEN q[1].types ELSE types
           back(i) == IF i = 0 /\ q[1].op # "nmea" THEN 0 ELSE i + 1
<1>1. /\ Len(q) \in Nat \ {0} /\ Len(p) = Len(q) - 1 /\ Head(q) = q[1]
      /\ \A i \in 1..Len(p) : p[i] = q[i + 1]
  OBVIOUS
<1> HIDE DEF p
<1>2. ASSUME NEW i \in 0..Len(p)
      PROVE  /\ back(i) \in 0..Len(q)
             /\ Sets(p, i) => Sets(q, back(i))
             /\ Made(p, types2, i) = Made(q, types, back(i))
  <2>1. CASE i = 0
    BY <1>1, <2>1 DEF Sets, Made
  <2>2. CASE i # 0
    <3>1. i \in 1..Len(p) /\ p[i] = q[i + 1] /\ i + 1 # 0 /\ i + 1 \in 1..Len(q)
      BY <1>1, <2>2
    <3> QED  BY <2>2, <3>1 DEF Sets, Made
  <2> QED  BY <2>1, <2>2
<1>3. ASSUME NEW i \in 0..Len(p), \A k \in 1..Len(p) : i < k => ~Sets(p, k),
             NEW k \in 1..Len(q), back(i) < k
      PROVE  ~Sets(q, k)
  <2>1. CASE k = 1
    BY <1>1, <1>3, <2>1 DEF Sets
  <2>2. CASE k # 1
    <3>1. k - 1 \in 1..Len(p) /\ i < k - 1 /\ (k - 1) + 1 = k
      BY <1>1, <1>3, <2>2
    <3>2. ~Sets(p, k - 1) /\ p[k - 1] = q[k]
      BY <1>1, <1>3, <3>1
    <3>3. k # 0
      BY <1>1
    <3> QED  BY <3>2, <3>3 DEF Sets
  <2> QED  BY <2>1, <2>2
<1> HIDE DEF types2, back
<1>4. ASSUME NEW i \in 0..Len(p), Sets(p, i), \A k \in 1..Len(p) : i < k => ~Sets(p, k)
      PROVE  demand \subseteq Made(p, types2, i)
  <2>1. back(i) \in 0..Len(q) /\ Sets(q, back(i)) /\ \A k \in 1..Len(q) : back(i) < k => ~Sets(q, k)
    BY <1>2, <1>3, <1>4
  <2>2. demand \subseteq Made(q, types, back(i))
    BY <2>1 DEF WillMake
  <2> QED  BY <1>2, <2>2
<1>5. WillMake(p, types2, demand)
  BY <1>4 DEF WillMake
<1> QED  BY <1>1, <1>5 DEF p, types2

-----------------------------------------------------------------------------
(* The steps *)

LEMMA MaskStarts == ASSUME EventMaskAssumption, MaskInit PROVE MaskIInv
<1> DEFINE m == LocMsg("openFirst", {})
<1>1. m \in LocMsgs /\ m.op = "openFirst" /\ locMsgs = <<m>>
  BY DEF MaskInit, LocMsg, LocMsgs
<1> HIDE DEF m
<1>2. locMsgs \in Seq(LocMsgs) /\ Sent(locMsgs, ComingUp)
  <2>1. locMsgs \in Seq(LocMsgs) /\ Len(locMsgs) = 1 /\ locMsgs[1] = m
    BY <1>1
  <2> QED  BY <1>1, <2>1 DEF Sent, ComingUp
<1>3. MaskTyped
  BY <1>2 DEF MaskInit, MaskTyped, EventMaskAssumption, MaskAdapter
<1>4. \A cb : ~With(cb, callbacks)
  BY DEF MaskInit, With
<1>5. BitsFit
  BY <1>4 DEF MaskInit, BitsFit
<1> QED  BY <1>2, <1>3, <1>5 DEF MaskInit, MaskIInv, MaskWillAgree, TypesFit, UpUnderWay

\* The mask of an adapter changes, and LocApiBase is sent an open message.
LEMMA MaskChangeAgrees ==
  ASSUME MaskTyped, MaskWillAgree, UNCHANGED <<locOpen, locMask>>,
         NEW q \in Seq(LocMsgs), NEW m \in LocMsgs, locMsgs' = Append(q, m), m.op = "open",
         Sent(locMsgs, ComingUp) => Sent(q, ComingUp)
  PROVE  MaskWillAgree' /\ (UpUnderWay /\ engineUps' = engineUps => UpUnderWay')
<1>1. Sent(locMsgs', ComingUp) <=> Sent(q, ComingUp) \/ m.op \in ComingUp
  BY SentAppended
<1>2. Sent(locMsgs', Opening) <=> Sent(q, Opening) \/ m.op \in Opening
  BY SentAppended
<1> QED  BY <1>1, <1>2 DEF MaskWillAgree, UpUnderWay, Opening

LEMMA OpenMsg == LocMsg("open", {}) \in LocMsgs /\ LocMsg("open", {}).op = "open"
  BY DEF LocMsg, LocMsgs

LEMMA NmeaMsg ==
  ASSUME NEW types \in SUBSET Sentences
  PROVE  /\ LocMsg("nmea", types) \in LocMsgs
         /\ LocMsg("nmea", types).op = "nmea" /\ LocMsg("nmea", types).types = types
  BY DEF LocMsg, LocMsgs

\* Steps of the adapters that leave the sentences and their clients alone.
LEMMA OthersKeepTypes ==
  ASSUME MaskTyped, TypesFit, NEW m \in LocMsgs, m.op # "nmea",
         locMsgs' = locMsgs \/ locMsgs' = Append(locMsgs, m),
         UNCHANGED <<device, callbacks, mNmeaMask, engineUps, nmeaTypes, dataCut>>
  PROVE  TypesFit' /\ locMsgs' \in Seq(LocMsgs)
<1>1. locMsgs \in Seq(LocMsgs)
  BY DEF MaskTyped
<1>2. locMsgs' \in Seq(LocMsgs) /\ (Sent(locMsgs, ComingUp) => Sent(locMsgs', ComingUp))
  BY <1>1, SentAppended
<1>3. \A demand : WillMake(locMsgs, nmeaTypes, demand) => WillMake(locMsgs', nmeaTypes, demand)
  BY <1>1, WillMakeAppended
<1>4. ConfTypes' = ConfTypes
  BY DEF ConfTypes
<1> QED  BY <1>2, <1>3, <1>4 DEF TypesFit, UpUnderWay, DebugDevice

LEMMA MaskDirect ==
  ASSUME MaskTyped, MaskWillAgree, NEW m \in LocMsgs, m.op = "open",
         locMsgs' = Append(locMsgs, m), UNCHANGED <<locOpen, locMask>>
  PROVE  MaskWillAgree'
<1>1. locMsgs \in Seq(LocMsgs)
  BY DEF MaskTyped
<1> QED  BY <1>1, MaskChangeAgrees

\* The mask of one adapter.
LEMMA MaskSet ==
  ASSUME MaskTyped, NEW a \in MaskAdapter, NEW mask \in SUBSET EventBit, UpdateEvtMask(a, mask, <<>>)
  PROVE  /\ mEvtMask' \in [MaskAdapter -> SUBSET EventBit] /\ mEvtMask'[a] = mask
         /\ \A b \in MaskAdapter : b # a => mEvtMask'[b] = mEvtMask[b]
         /\ locMsgs' = Append(locMsgs, LocMsg("open", {}))
<1>1. mEvtMask' = [mEvtMask EXCEPT ![a] = mask] /\ locMsgs' = locMsgs \o <<>> \o <<LocMsg("open", {})>>
  BY DEF UpdateEvtMask
<1>2. locMsgs' = Append(locMsgs, LocMsg("open", {}))
  <2> DEFINE m == LocMsg("open", {})
  <2>1. m \in LocMsgs
    BY OpenMsg
  <2> HIDE DEF m
  <2>2. locMsgs \o <<>> \o <<m>> = Append(locMsgs, m)
    BY <2>1 DEF MaskTyped
  <2> QED  BY <1>1, <2>2 DEF m
<1> QED  BY <1>1, <1>2 DEF MaskTyped

LEMMA SaveClientKeeps ==
  ASSUME EventMaskAssumption, MaskIInv, NEW c \in MaskClient, NEW cbs \in MaskCallbacks,
         SaveClient(c, cbs)
  PROVE  MaskIInv'
<1> DEFINE bits == MaskOfClients(callbacks')
           m == LocMsg("open", {})
           n == LocMsg("nmea", mNmeaMask \cup {"debug"})
           nmea == With("data", callbacks') /\ ~DebugDevice
           q == IF nmea THEN Append(locMsgs, n) ELSE locMsgs
<1>1. MaskTyped /\ MaskWillAgree /\ BitsFit /\ TypesFit
  BY DEF MaskIInv
<1>2. /\ callbacks' = [callbacks EXCEPT ![c] = cbs]
      /\ mEvtMask' = [mEvtMask EXCEPT !["gnss"] = bits]
      /\ locMsgs' = locMsgs \o NmeaMsgs(callbacks') \o <<m>>
      /\ powerLate' = FALSE
      /\ nHzCut' = (nHzCut /\ "NHZ" \notin bits)
      /\ dataCut' = (dataCut /\ NmeaMsgs(callbacks') = <<>>)
      /\ UNCHANGED <<device, mLocAdapters, fenceClients, mNmeaMask, registered, nHzWanted,
                     locOpen, locMask, nmeaTypes, engineUps>>
  BY DEF SaveClient, MaskCall, UpdateEvtMask, maskModem
<1>3. callbacks' \in [MaskClient -> SUBSET MaskCallback]
  BY <1>1, <1>2 DEF MaskTyped, EventMaskAssumption
<1>4. m \in LocMsgs /\ m.op = "open" /\ n \in LocMsgs /\ n.op = "nmea" /\ n.types = mNmeaMask \cup {"debug"}
  <2>1. mNmeaMask \cup {"debug"} \in SUBSET Sentences
    BY <1>1 DEF MaskTyped, Sentences
  <2> QED  BY <2>1, OpenMsg, NmeaMsg
<1>5. /\ NmeaMsgs(callbacks') = IF nmea THEN <<n>> ELSE <<>>
      /\ nmea => <<n>> # <<>>
  BY DEF NmeaMsgs, DebugDevice
<1> HIDE DEF m, n
<1>6. locMsgs' = Append(q, m) /\ q \in Seq(LocMsgs) /\ locMsgs \in Seq(LocMsgs)
  <2>1. locMsgs \in Seq(LocMsgs)
    BY <1>1 DEF MaskTyped
  <2>2. locMsgs \o <<n>> \o <<m>> = Append(Append(locMsgs, n), m) /\ Append(locMsgs, n) \in Seq(LocMsgs)
    BY <1>4, <2>1
  <2>3. locMsgs \o <<>> \o <<m>> = Append(locMsgs, m)
    BY <1>4, <2>1
  <2> QED  BY <1>2, <1>5, <2>1, <2>2, <2>3
<1>7. bits \in SUBSET EventBit
  BY <1>1 DEF MaskOfClients, ClientBits, HubBits, ServiceBits, EventBit
<1>8. mEvtMask'["gnss"] = bits /\ mEvtMask'["geofence"] = mEvtMask["geofence"]
      /\ mEvtMask' \in [MaskAdapter -> SUBSET EventBit]
  BY <1>1, <1>2, <1>7 DEF MaskTyped, MaskAdapter
<1>9. BitsFit'
  <2>1. /\ With("tracking", callbacks') => "POSITION" \in bits
        /\ With("measurements", callbacks') =>
              "MEASUREMENT" \in bits /\ ("power" \in registered => "POLYNOMIAL" \in bits)
        /\ With("nHzMeasurements", callbacks') => "NHZ" \in bits
        /\ ~DebugDevice /\ With("data", callbacks') => "NMEA" \in bits
        /\ ~DebugDevice /\ With("nmea", callbacks') /\ mNmeaMask # {} => "NMEA" \in bits
    BY DEF MaskOfClients, ClientBits, DebugDevice
  <2>2. DebugDevice /\ (With("nmea", callbacks') \/ With("data", callbacks')) => "DEBUG_DATA" \in bits
    <3>1. With("nmea", callbacks') \/ With("data", callbacks') => \E d \in MaskClient : callbacks'[d] # {}
      BY DEF With
    <3> QED  BY <3>1 DEF MaskOfClients, ClientBits, DebugDevice
  <2>3. /\ "agps" \in registered => "SERVER_REQUEST" \in bits
        /\ "odcpi" \in registered => "WIFI" \in bits
        /\ "engHub" \in device /\ "NHZ" \in mEvtMask["gnss"] => "NHZ" \in bits
    BY DEF MaskOfClients, HubBits, ServiceBits
  <2>4. nHzWanted => nHzCut' \/ "NHZ" \in bits
    BY <1>1, <1>2, <2>3 DEF BitsFit
  <2> HIDE DEF bits
  <2> QED  BY <1>1, <1>2, <1>8, <2>1, <2>2, <2>3, <2>4 DEF BitsFit, DebugDevice
<1> HIDE DEF bits
<1>10. Sent(locMsgs, ComingUp) => Sent(q, ComingUp)
  BY <1>4, <1>6, SentAppended
<1>11. MaskWillAgree' /\ (UpUnderWay => UpUnderWay') /\ locMsgs' \in Seq(LocMsgs)
  <2>1. locMsgs' \in Seq(LocMsgs)
    BY <1>4, <1>6
  <2>2. m \in LocMsgs /\ m.op = "open" /\ q \in Seq(LocMsgs) /\ locMsgs' = Append(q, m)
    BY <1>4, <1>6
  <2>3. UNCHANGED <<locOpen, locMask>> /\ engineUps' = engineUps
    BY <1>2
  <2> HIDE DEF q
  <2>4. MaskWillAgree' /\ (UpUnderWay /\ engineUps' = engineUps => UpUnderWay')
    BY <1>1, <1>10, <2>2, <2>3, MaskChangeAgrees
  <2> QED  BY <2>1, <2>3, <2>4
<1>12. TypesFit'
  <2> SUFFICES ASSUME ~UpUnderWay, ~DebugDevice
               PROVE  /\ mNmeaMask' = ConfTypes'
                      /\ WillMake(locMsgs', nmeaTypes', ConfTypes')
                      /\ With("data", callbacks') => dataCut' \/ WillMake(locMsgs', nmeaTypes', {"debug"})
    BY <1>2, <1>11 DEF TypesFit, DebugDevice
  <2>1. mNmeaMask = ConfTypes /\ WillMake(locMsgs, nmeaTypes, ConfTypes) /\ ConfTypes' = ConfTypes
    BY <1>1, <1>2 DEF TypesFit, ConfTypes
  <2>2. WillMake(q, nmeaTypes, ConfTypes)
    BY <1>4, <1>6, <2>1, WillMakeAppended
  <2>3. With("data", callbacks') => WillMake(q, nmeaTypes, {"debug"})
    BY <1>4, <1>6, WillMakeAppended
  <2>4. \A demand : WillMake(q, nmeaTypes, demand) => WillMake(locMsgs', nmeaTypes, demand)
    BY <1>4, <1>6, WillMakeAppended
  <2> QED  BY <1>2, <2>1, <2>2, <2>3, <2>4
<1>13. MaskTyped'
  BY <1>1, <1>2, <1>3, <1>8, <1>11 DEF MaskTyped
<1> QED  BY <1>9, <1>11, <1>12, <1>13 DEF MaskIInv

\* Steps that change one mask, and send the open message.
LEMMA OneMaskKeeps ==
  ASSUME MaskIInv, NEW a \in MaskAdapter, NEW mask \in SUBSET EventBit, UpdateEvtMask(a, mask, <<>>),
         UNCHANGED <<device, mLocAdapters, callbacks, mNmeaMask, maskModem, engineUps, dataCut>>
  PROVE  MaskTyped' /\ MaskWillAgree' /\ TypesFit'
<1>1. MaskTyped /\ MaskWillAgree /\ TypesFit
  BY DEF MaskIInv
<1>2. /\ mEvtMask' \in [MaskAdapter -> SUBSET EventBit]
      /\ locMsgs' = Append(locMsgs, LocMsg("open", {}))
  BY <1>1, MaskSet
<1>3. MaskWillAgree'
  BY <1>1, <1>2, OpenMsg, MaskDirect DEF maskModem
<1>4. TypesFit' /\ locMsgs' \in Seq(LocMsgs)
  BY <1>1, <1>2, OpenMsg, OthersKeepTypes DEF maskModem
<1> QED  BY <1>1, <1>2, <1>3, <1>4 DEF MaskTyped

LEMMA RegisterKeeps ==
  ASSUME MaskIInv, Register("agps", "SERVER_REQUEST") \/ Register("odcpi", "WIFI")
  PROVE  MaskIInv'
<1>1. MaskTyped /\ BitsFit
  BY DEF MaskIInv
<1>2. PICK bit \in {"SERVER_REQUEST", "WIFI"} :
        /\ registered' = registered \cup (IF bit = "WIFI" THEN {"odcpi"} ELSE {"agps"})
        /\ EnableBit(bit)
        /\ UNCHANGED <<device, mLocAdapters, callbacks, fenceClients, mNmeaMask, maskHistory,
                       maskModem, engineUps>>
  BY DEF Register, MaskCall
<1> DEFINE bits == mEvtMask["gnss"] \cup {bit}
<1>3. "gnss" \in MaskAdapter /\ "geofence" \in MaskAdapter /\ bits \in SUBSET EventBit
      /\ UpdateEvtMask("gnss", bits, <<>>)
  BY <1>1, <1>2 DEF MaskTyped, MaskAdapter, EventBit, EnableBit
<1>4. mEvtMask'["gnss"] = bits /\ mEvtMask'["geofence"] = mEvtMask["geofence"]
  BY <1>1, <1>3, MaskSet
<1>5. MaskTyped' /\ MaskWillAgree' /\ TypesFit'
  BY <1>2, <1>3, OneMaskKeeps DEF maskHistory
<1>6. BitsFit'
  BY <1>1, <1>2, <1>4 DEF BitsFit, maskHistory, DebugDevice
<1> QED  BY <1>5, <1>6 DEF MaskIInv

LEMMA SaveFenceClientKeeps ==
  ASSUME MaskIInv, NEW present \in BOOLEAN, SaveFenceClient(present)
  PROVE  MaskIInv'
<1>1. MaskTyped /\ BitsFit
  BY DEF MaskIInv
<1> DEFINE bits == IF present THEN {"BREACH"} ELSE {}
<1>2. /\ "geofence" \in mLocAdapters /\ fenceClients' = present
      /\ UpdateEvtMask("geofence", bits, <<>>)
      /\ UNCHANGED <<device, mLocAdapters, callbacks, mNmeaMask, registered, maskHistory,
                     maskModem, engineUps>>
  BY DEF SaveFenceClient, MaskCall
<1>3. "gnss" \in MaskAdapter /\ "geofence" \in MaskAdapter /\ bits \in SUBSET EventBit
  BY DEF MaskAdapter, EventBit
<1>4. mEvtMask'["geofence"] = bits /\ mEvtMask'["gnss"] = mEvtMask["gnss"]
  BY <1>1, <1>2, <1>3, MaskSet
<1>5. MaskTyped' /\ MaskWillAgree' /\ TypesFit'
  BY <1>2, <1>3, OneMaskKeeps DEF maskHistory
<1>6. BitsFit'
  BY <1>1, <1>2, <1>4 DEF BitsFit, maskHistory, DebugDevice
<1> QED  BY <1>5, <1>6 DEF MaskIInv

LEMMA NHzKeeps ==
  ASSUME MaskIInv, NEW needed \in BOOLEAN, UpdateNHzRequirement(needed)
  PROVE  MaskIInv'
<1>1. MaskTyped /\ MaskWillAgree /\ BitsFit /\ TypesFit
  BY DEF MaskIInv
<1> DEFINE on == "NHZ" \in mEvtMask["gnss"]
<1>2. /\ "engHub" \in device /\ nHzWanted' = needed
      /\ UNCHANGED <<device, mLocAdapters, callbacks, fenceClients, mNmeaMask, registered,
                     powerLate, dataCut, maskModem, engineUps>>
  BY DEF UpdateNHzRequirement, MaskCall
<1>3. "gnss" \in MaskAdapter /\ "geofence" \in MaskAdapter
  BY DEF MaskAdapter
<1>4. CASE needed /\ ~on
  <2> DEFINE bits == mEvtMask["gnss"] \cup {"NHZ"}
  <2>1. UpdateEvtMask("gnss", bits, <<>>) /\ bits \in SUBSET EventBit
    BY <1>1, <1>4, <1>3 DEF UpdateNHzRequirement, EnableBit, MaskTyped, EventBit
  <2>2. mEvtMask'["gnss"] = bits /\ mEvtMask'["geofence"] = mEvtMask["geofence"]
    BY <1>1, <1>3, <2>1, MaskSet
  <2>3. MaskTyped' /\ MaskWillAgree' /\ TypesFit'
    BY <1>2, <1>3, <2>1, OneMaskKeeps
  <2>4. BitsFit'
    BY <1>1, <1>2, <2>2 DEF BitsFit, DebugDevice
  <2> QED  BY <2>3, <2>4 DEF MaskIInv
<1>5. CASE on
  <2> DEFINE bits == mEvtMask["gnss"] \ {"NHZ"}
  <2>1. UpdateEvtMask("gnss", bits, <<>>) /\ bits \in SUBSET EventBit /\ nHzCut'
    BY <1>1, <1>5, <1>3 DEF UpdateNHzRequirement, MaskTyped
  <2>2. mEvtMask'["gnss"] = bits /\ mEvtMask'["geofence"] = mEvtMask["geofence"]
    BY <1>1, <1>3, <2>1, MaskSet
  <2>3. MaskTyped' /\ MaskWillAgree' /\ TypesFit'
    BY <1>2, <1>3, <2>1, OneMaskKeeps
  <2>4. BitsFit'
    BY <1>1, <1>2, <2>1, <2>2 DEF BitsFit, DebugDevice
  <2> QED  BY <2>3, <2>4 DEF MaskIInv
<1>6. CASE ~needed /\ ~on
  <2>1. UNCHANGED <<mEvtMask, locMsgs>> /\ (nHzCut => nHzCut')
    BY <1>6 DEF UpdateNHzRequirement
  <2> QED  BY <1>1, <1>2, <1>6, <2>1 DEF MaskIInv, MaskTyped, MaskWillAgree, AllMasks, BitsFit, TypesFit,
                  UpUnderWay, DebugDevice, ConfTypes, maskModem
<1> QED  BY <1>4, <1>5, <1>6

LEMMA AdaptersKeep ==
  ASSUME MaskIInv, PowerIndicationInit \/ AddAdapter("geofence")
  PROVE  MaskIInv'
<1>1. MaskTyped /\ MaskWillAgree /\ BitsFit /\ TypesFit
  BY DEF MaskIInv
<1>2. CASE PowerIndicationInit
  <2>1. /\ registered' = registered \cup {"power"} /\ powerLate' = With("measurements", callbacks)
        /\ UNCHANGED <<device, mLocAdapters, callbacks, fenceClients, mEvtMask, mNmeaMask, locMsgs,
                       nHzWanted, nHzCut, dataCut, maskModem, engineUps>>
    BY <1>2 DEF PowerIndicationInit, MaskCall
  <2>2. BitsFit'
    BY <1>1, <2>1 DEF BitsFit, DebugDevice
  <2> QED  BY <1>1, <2>1, <2>2 DEF MaskIInv, MaskTyped, MaskWillAgree, AllMasks, TypesFit,
                  UpUnderWay, DebugDevice, ConfTypes, maskModem
<1>3. CASE AddAdapter("geofence")
  <2>1. /\ mLocAdapters' = mLocAdapters \cup {"geofence"} /\ locMsgs' = Append(locMsgs, LocMsg("open", {}))
        /\ UNCHANGED <<device, callbacks, fenceClients, mEvtMask, mNmeaMask, registered, maskHistory,
                       maskModem, engineUps>>
    BY <1>3 DEF AddAdapter, MaskCall
  <2>2. BitsFit'
    BY <1>1, <2>1 DEF BitsFit, DebugDevice, maskHistory
  <2>3. MaskWillAgree'
    BY <1>1, <2>1, OpenMsg, MaskDirect DEF maskModem
  <2>4. TypesFit' /\ locMsgs' \in Seq(LocMsgs)
    BY <1>1, <2>1, OpenMsg, OthersKeepTypes DEF maskModem, maskHistory
  <2>5. MaskTyped'
    BY <1>1, <2>1, <2>4 DEF MaskTyped, MaskAdapter
  <2> QED  BY <2>2, <2>3, <2>4, <2>5 DEF MaskIInv
<1> QED  BY <1>2, <1>3

LEMMA MaskEngineUpKeeps == ASSUME MaskIInv, MaskEngineUp PROVE MaskIInv'
<1> DEFINE bit == IF DebugDevice THEN {"DEBUG_DATA"}
                  ELSE IF ConfTypes \notin {{}, mNmeaMask} /\ With("nmea", callbacks) THEN {"NMEA"}
                  ELSE {}
           m == LocMsg("open", {})
           n == LocMsg("nmea", mNmeaMask')
           q == IF bit = {} THEN locMsgs ELSE Append(locMsgs, m)
<1>1. MaskTyped /\ MaskWillAgree /\ BitsFit /\ TypesFit
  BY DEF MaskIInv
<1>2. /\ mNmeaMask' = IF DebugDevice THEN mNmeaMask ELSE ConfTypes
      /\ mEvtMask' = [mEvtMask EXCEPT !["gnss"] = @ \cup bit]
      /\ locMsgs' = locMsgs \o (IF bit = {} THEN <<>> ELSE <<m>>)
                    \o (IF mNmeaMask' = {} THEN <<>> ELSE <<n>>)
      /\ dataCut' = TRUE
      /\ engineUps > 0 /\ engineUps' = engineUps - 1
      /\ UNCHANGED <<device, mLocAdapters, callbacks, fenceClients, registered, locOpen, locMask,
                     nmeaTypes, nHzWanted, powerLate, nHzCut>>
  BY DEF MaskEngineUp, SetConfigNmea, DebugDevice, maskModem
<1>3. mNmeaMask' \in SUBSET Sentences /\ bit \in SUBSET EventBit /\ engineUps' \in Nat
  BY <1>1, <1>2 DEF MaskTyped, ConfTypes, Sentences, EventBit
<1>4. m \in LocMsgs /\ m.op = "open" /\ n \in LocMsgs /\ n.op = "nmea" /\ n.types = mNmeaMask'
  BY <1>3, OpenMsg, NmeaMsg
<1>5. /\ mEvtMask' \in [MaskAdapter -> SUBSET EventBit]
      /\ mEvtMask'["gnss"] = mEvtMask["gnss"] \cup bit
      /\ mEvtMask'["geofence"] = mEvtMask["geofence"]
      /\ bit = {} => mEvtMask' = mEvtMask
  <2>1. mEvtMask \in [MaskAdapter -> SUBSET EventBit] /\ "gnss" \in MaskAdapter /\ "geofence" \in MaskAdapter
    BY <1>1 DEF MaskTyped, MaskAdapter
  <2> HIDE DEF bit
  <2> QED  BY <1>2, <1>3, <2>1
<1>6. BitsFit'
  <2>1. ~DebugDevice /\ With("nmea", callbacks) /\ mNmeaMask' # {} => "NMEA" \in mEvtMask'["gnss"]
    BY <1>1, <1>2, <1>5 DEF BitsFit
  <2> HIDE DEF bit
  <2>2. mEvtMask["gnss"] \subseteq mEvtMask'["gnss"]
    BY <1>5
  <2> QED  BY <1>1, <1>2, <1>5, <2>1, <2>2 DEF BitsFit, DebugDevice
<1> HIDE DEF m, n, bit
<1>7. locMsgs \in Seq(LocMsgs) /\ q \in Seq(LocMsgs) /\ locMsgs' \in Seq(LocMsgs)
      /\ locMsgs' = IF mNmeaMask' = {} THEN q ELSE Append(q, n)
  <2>1. locMsgs \in Seq(LocMsgs)
    BY <1>1 DEF MaskTyped
  <2>2. q \in Seq(LocMsgs) /\ locMsgs \o (IF bit = {} THEN <<>> ELSE <<m>>) = q
    BY <1>4, <2>1
  <2> HIDE DEF q
  <2>3. q \o <<>> = q /\ q \o <<n>> = Append(q, n) /\ Append(q, n) \in Seq(LocMsgs)
    BY <1>4, <2>2
  <2> QED  BY <1>2, <2>1, <2>2, <2>3
<1>8. ASSUME NEW ops
      PROVE  /\ Sent(locMsgs', ops) => Sent(locMsgs, ops) \/ Sent(q, ops) \/ "nmea" \in ops
             /\ Sent(locMsgs, ops) => Sent(locMsgs', ops)
             /\ bit # {} /\ "open" \in ops => Sent(locMsgs', ops)
  <2>1. /\ Sent(Append(locMsgs, m), ops) <=> Sent(locMsgs, ops) \/ m.op \in ops
        /\ Sent(Append(q, n), ops) <=> Sent(q, ops) \/ n.op \in ops
    BY <1>4, <1>7, SentAppended
  <2> QED  BY <1>4, <1>7, <2>1
<1>9. MaskWillAgree'
  <2>1. bit = {} => AllMasks' = AllMasks
    BY <1>2, <1>5 DEF AllMasks
  <2>2. bit # {} => Sent(locMsgs', Opening)
    BY <1>8 DEF Opening
  <2>3. (Sent(locMsgs, ComingUp) => Sent(locMsgs', ComingUp)) /\ (Sent(locMsgs, Opening) => Sent(locMsgs', Opening))
    BY <1>8
  <2> QED  BY <1>1, <1>2, <2>1, <2>2, <2>3 DEF MaskWillAgree
<1>10. TypesFit'
  <2>1. ConfTypes' = ConfTypes /\ DebugDevice' = DebugDevice
    BY <1>2 DEF ConfTypes, DebugDevice
  <2>2. ASSUME ~DebugDevice PROVE WillMake(locMsgs', nmeaTypes, ConfTypes)
    <3>1. CASE ConfTypes = {}
      BY <3>1 DEF WillMake
    <3>2. CASE ConfTypes # {}
      <4>1. mNmeaMask' # {} /\ n.types = ConfTypes
        BY <1>2, <1>4, <2>2, <3>2
      <4> QED  BY <1>4, <1>7, <4>1, WillMakeAppended
    <3> QED  BY <3>1, <3>2
  <2> QED  BY <1>2, <2>1, <2>2 DEF TypesFit
<1>11. MaskTyped'
  BY <1>1, <1>2, <1>3, <1>5, <1>7 DEF MaskTyped
<1> QED  BY <1>6, <1>9, <1>10, <1>11 DEF MaskIInv

LEMMA LocApiKeeps == ASSUME MaskIInv, ProcLocOpen \/ ProcSetNmea PROVE MaskIInv'
<1> DEFINE h == Head(locMsgs)
           q == Tail(locMsgs)
<1>1. MaskTyped /\ MaskWillAgree /\ BitsFit /\ TypesFit
  BY DEF MaskIInv
<1>2. /\ locMsgs # <<>> /\ locMsgs' = q
      /\ UNCHANGED <<device, maskAdapters, maskHistory>>
      /\ \/ /\ h.op \in Opening /\ locOpen' = TRUE /\ locMask' = AllMasks
            /\ engineUps' = engineUps + (IF h.op = "open" THEN 0 ELSE 1) /\ nmeaTypes' = nmeaTypes
         \/ /\ h.op = "nmea" /\ nmeaTypes' = (IF locOpen THEN h.types ELSE nmeaTypes)
            /\ UNCHANGED <<locOpen, locMask, engineUps>>
  BY DEF ProcLocOpen, ProcSetNmea, LocHead, Opening
<1>3. /\ locMsgs \in Seq(LocMsgs) /\ q \in Seq(LocMsgs) /\ h \in LocMsgs
      /\ Sent(locMsgs, ComingUp) <=> Sent(q, ComingUp) \/ h.op \in ComingUp
      /\ Sent(locMsgs, Opening) <=> Sent(q, Opening) \/ h.op \in Opening
  <2>1. locMsgs \in Seq(LocMsgs)
    BY <1>1 DEF MaskTyped
  <2> QED  BY <1>2, <2>1, SentTailed
<1>4. \A demand : WillMake(locMsgs, nmeaTypes, demand) =>
                     WillMake(q, IF h.op = "nmea" THEN h.types ELSE nmeaTypes, demand)
  BY <1>2, <1>3, WillMakeTailed
<1> HIDE DEF q, h
<1>5. AllMasks' = AllMasks /\ ConfTypes' = ConfTypes
  BY <1>2 DEF AllMasks, ConfTypes, maskAdapters
<1>6. MaskWillAgree'
  BY <1>1, <1>2, <1>3, <1>5 DEF MaskWillAgree, Opening, ComingUp
<1>7. engineUps' \in Nat /\ (UpUnderWay => UpUnderWay')
  BY <1>1, <1>2, <1>3 DEF MaskTyped, UpUnderWay, Opening, ComingUp
<1>8. TypesFit'
  <2> SUFFICES ASSUME ~UpUnderWay', ~DebugDevice
               PROVE  \A demand : WillMake(locMsgs, nmeaTypes, demand) => WillMake(locMsgs', nmeaTypes', demand)
    BY <1>1, <1>2, <1>5, <1>7 DEF TypesFit, DebugDevice, maskAdapters, maskHistory
  <2>1. nmeaTypes' = IF h.op = "nmea" THEN h.types ELSE nmeaTypes
    BY <1>1, <1>2, <1>3 DEF MaskWillAgree, UpUnderWay, Opening, ComingUp
  <2> QED  BY <1>2, <1>4, <2>1
<1>9. MaskTyped'
  BY <1>1, <1>2, <1>3, <1>7 DEF MaskTyped, maskAdapters
<1>10. BitsFit'
  BY <1>1, <1>2 DEF BitsFit, DebugDevice, maskAdapters, maskHistory
<1> QED  BY <1>6, <1>8, <1>9, <1>10 DEF MaskIInv

LEMMA MaskRestartKeeps == ASSUME MaskIInv, MaskModemRestarts PROVE MaskIInv'
<1> DEFINE m == LocMsg("ssr", {})
<1>1. MaskTyped /\ BitsFit
  BY DEF MaskIInv
<1>2. /\ locMsgs' = Append(locMsgs, m) /\ locOpen' = FALSE
      /\ UNCHANGED <<device, maskAdapters, maskHistory, engineUps>>
  BY DEF MaskModemRestarts
<1>3. m \in LocMsgs /\ m.op = "ssr"
  BY DEF LocMsg, LocMsgs
<1> HIDE DEF m
<1>4. locMsgs' \in Seq(LocMsgs) /\ Sent(locMsgs', ComingUp)
  <2>1. locMsgs \in Seq(LocMsgs) /\ m.op \in ComingUp
    BY <1>1, <1>3 DEF MaskTyped, ComingUp
  <2> QED  BY <1>2, <1>3, <2>1, SentAppended
<1>5. MaskTyped' /\ MaskWillAgree' /\ TypesFit'
  BY <1>1, <1>2, <1>4 DEF MaskTyped, MaskWillAgree, TypesFit, UpUnderWay, maskAdapters
<1>6. BitsFit'
  BY <1>1, <1>2 DEF BitsFit, DebugDevice, maskAdapters, maskHistory
<1> QED  BY <1>5, <1>6 DEF MaskIInv

LEMMA MaskStutters == ASSUME MaskIInv, UNCHANGED maskVars PROVE MaskIInv'
<1>1. UNCHANGED <<device, maskAdapters, maskModem, maskHistory, locMsgs, engineUps>>
  BY DEF maskVars
<1>2. UNCHANGED <<mLocAdapters, callbacks, fenceClients, mEvtMask, mNmeaMask, registered, locOpen,
                  locMask, nmeaTypes, nHzWanted, powerLate, nHzCut, dataCut>>
  BY <1>1 DEF maskAdapters, maskModem, maskHistory
<1>3. AllMasks' = AllMasks /\ ConfTypes' = ConfTypes
  BY <1>1, <1>2 DEF AllMasks, ConfTypes
<1> QED  BY <1>1, <1>2, <1>3 DEF MaskIInv, MaskTyped, MaskWillAgree, BitsFit, TypesFit, DebugDevice, UpUnderWay

LEMMA MaskInvReports == ASSUME MaskIInv PROVE ModemReports
<1>1. MaskTyped /\ MaskWillAgree /\ BitsFit /\ TypesFit
  BY DEF MaskIInv
<1> SUFFICES ASSUME AtRest PROVE ModemReports
  BY DEF ModemReports, EventsReported, SentencesMade
<1>2. \A ops : ~Sent(locMsgs, ops)
  BY DEF AtRest, Sent
<1>3. locMask = AllMasks /\ ~UpUnderWay
  BY <1>1, <1>2 DEF AtRest, MaskWillAgree, UpUnderWay
<1>4. mEvtMask["gnss"] \subseteq locMask /\ ("geofence" \in mLocAdapters => mEvtMask["geofence"] \subseteq locMask)
  BY <1>1, <1>3 DEF BitsFit, AllMasks
<1>5. ASSUME NEW c \in MaskClient, NEW cb \in callbacks[c] PROVE NeededBits(cb) \subseteq mEvtMask["gnss"]
  <2>1. With(cb, callbacks) /\ cb \in MaskCallback
    BY <1>1, <1>5 DEF With, MaskTyped
  <2>2. CASE cb = "tracking"
    BY <1>1, <2>1, <2>2 DEF BitsFit, NeededBits
  <2>3. CASE cb = "measurements"
    BY <1>1, <2>1, <2>3 DEF BitsFit, NeededBits
  <2>4. CASE cb = "nHzMeasurements"
    BY <1>1, <2>1, <2>4 DEF BitsFit, NeededBits
  <2>5. CASE cb = "nmea" \/ cb = "data"
    <3>1. NeededBits(cb) = IF DebugDevice THEN {"DEBUG_DATA"}
                           ELSE IF cb = "data" \/ ConfTypes # {} THEN {"NMEA"} ELSE {}
      BY <2>5 DEF NeededBits, DebugDevice
    <3>2. ~DebugDevice => mNmeaMask = ConfTypes
      BY <1>1, <1>3 DEF TypesFit
    <3> QED  BY <1>1, <2>1, <2>5, <3>1, <3>2 DEF BitsFit
  <2> QED  BY <2>1, <2>2, <2>3, <2>4, <2>5 DEF MaskCallback
<1>6. ServiceBits \subseteq mEvtMask["gnss"]
  BY <1>1 DEF BitsFit, ServiceBits
<1>7. EventsReported
  BY <1>1, <1>3, <1>4, <1>5, <1>6 DEF EventsReported, BitsFit
<1>8. SentencesMade
  <2>1. \A demand : WillMake(locMsgs, nmeaTypes, demand) => demand \subseteq nmeaTypes
    BY DEF AtRest, WillMake, Sets, Made
  <2>2. ~DebugDevice => /\ WillMake(locMsgs, nmeaTypes, ConfTypes)
                        /\ With("data", callbacks) => dataCut \/ WillMake(locMsgs, nmeaTypes, {"debug"})
    BY <1>1, <1>3 DEF TypesFit
  <2> QED  BY <2>1, <2>2 DEF SentencesMade, DebugDevice
<1> QED  BY <1>7, <1>8 DEF ModemReports

\* When nothing is under way the modem reports what every client's callbacks, every service and
\* every geofence needs, and makes the sentences of gps.conf: the masks change in the adapters'
\* thread and reach the modem through LocApiBase's, which loses both when the modem restarts
\* (LocAdapterBase.cpp, LocApiBase.cpp, GnssAdapter.cpp).  What the code loses is excepted, where
\* nHzCut, powerLate and dataCut record that it has.
THEOREM ModemIsOpened == MaskSpec => []ModemReports
<1>1. MaskInit => MaskIInv
  BY EventMaskAssumption, MaskStarts
<1>2. MaskIInv /\ [MaskNext]_maskVars => MaskIInv'
  <2> SUFFICES ASSUME MaskIInv, [MaskNext]_maskVars PROVE MaskIInv'
    OBVIOUS
  <2>1. ASSUME NEW c \in MaskClient, NEW cbs \in MaskCallbacks, SaveClient(c, cbs) PROVE MaskIInv'
    <3>1. cbs \in SUBSET MaskCallback
      BY EventMaskAssumption DEF EventMaskAssumption
    <3> QED  BY <2>1, EventMaskAssumption, SaveClientKeeps
  <2>2. CASE Register("agps", "SERVER_REQUEST") \/ Register("odcpi", "WIFI")
    BY <2>2, RegisterKeeps
  <2>3. CASE PowerIndicationInit \/ AddAdapter("geofence")
    BY <2>3, AdaptersKeep
  <2>4. ASSUME NEW needed \in BOOLEAN, UpdateNHzRequirement(needed) PROVE MaskIInv'
    BY <2>4, NHzKeeps
  <2>5. ASSUME NEW present \in BOOLEAN, SaveFenceClient(present) PROVE MaskIInv'
    BY <2>5, SaveFenceClientKeeps
  <2>6. CASE MaskEngineUp
    BY <2>6, MaskEngineUpKeeps
  <2>7. CASE ProcLocOpen \/ ProcSetNmea
    BY <2>7, LocApiKeeps
  <2>8. CASE MaskModemRestarts
    BY <2>8, MaskRestartKeeps
  <2>9. CASE UNCHANGED maskVars
    BY <2>9, MaskStutters
  <2> QED  BY <2>1, <2>2, <2>3, <2>4, <2>5, <2>6, <2>7, <2>8, <2>9 DEF MaskNext
<1>3. MaskIInv => ModemReports
  BY MaskInvReports
<1> QED  BY <1>1, <1>2, <1>3, PTL DEF MaskSpec
=============================================================================
