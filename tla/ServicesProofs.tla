---------------------------- MODULE ServicesProofs ----------------------------
(***************************************************************************)
(* Proofs about four services.  OsObserver: every observer of the          *)
(* framework's data items has the latest values and the framework sends    *)
(* what is wanted, for any observers and items.  Notifications go through  *)
(* both maps, so the invariant needs that each map is the inverse of the   *)
(* other.  Rkp: an answer OK of the remote key provisioning service is     *)
(* whole and no worker is left when a request has been answered, whatever  *)
(* the vendor's library does, wherever worker or service die.              *)
(* LocationApi: a deleted object is known to no adapter, and adapters work *)
(* with the callbacks that were set last.  Registrations travel in the     *)
(* adapters' queue, so the invariant says what the last one for each       *)
(* adapter and client will leave there, and that the removal an object     *)
(* waits for is the last one.                                              *)
(* HalGnss: the IGnss objects serve the framework that is there and        *)
(* release what a dead one had; the invariant says, for each object, what  *)
(* holds in the middle of a call, in five themes - shapes, what may run,   *)
(* slots, configuration and capabilities.                                  *)
(***************************************************************************)
EXTENDS OsObserver, Rkp, LocationApi, HalGnss, SequenceTheorems, TLAPS

-----------------------------------------------------------------------------
(* OsObserver *)

\* Every observer has the latest value of its items.
LatestSent ==
    \A c \in DataItemObserver : \A i \in mClientToDataItems[c] :
        mDataItemCache[i] # 0 => notified[c][i] = mDataItemCache[i]

\* The framework has not been asked for anything before it gave its object.
AskedThroughObject == ~mSubscriptionObj => frameworkItems = {}

OsIInv == OsTypeOK /\ MapsAgree /\ LatestSent /\ FrameworkFollows /\ AskedThroughObject

LEMMA OsInitInv == OsInit => OsIInv
<1> SUFFICES ASSUME OsInit
             PROVE  OsIInv
  OBVIOUS
<1>1. OsTypeOK
  <2>1. 0 \in 0..MaxItemValue
    BY OsObserverAssumption
  <2>2. notified \in [DataItemObserver -> [DataItemId -> 0..MaxItemValue]]
    BY <2>1 DEF OsInit
  <2> QED  BY <2>1, <2>2 DEF OsInit, OsTypeOK
<1>2. MapsAgree /\ LatestSent /\ FrameworkFollows /\ AskedThroughObject
  BY DEF OsInit, MapsAgree, LatestSent, FrameworkFollows, AskedThroughObject
<1> QED  BY <1>1, <1>2 DEF OsIInv

\* The framework's object comes.
LEMMA SetSubsObjInv == OsIInv /\ SetSubsObj => OsIInv'
  BY DEF SetSubsObj, OsIInv, OsTypeOK, MapsAgree, LatestSent, FrameworkFollows, AskedThroughObject, ItemKeys

\* A subscription.
LEMMA HandleSubscribeReqInv ==
  ASSUME OsIInv, NEW c \in DataItemObserver, NEW items \in SUBSET DataItemId,
         NEW toRequestData \in BOOLEAN, HandleSubscribeReq(c, items, toRequestData)
  PROVE  OsIInv'
<1> USE DEF OsIInv, HandleSubscribeReq
<1>1. OsTypeOK'
  <2>1. mDataItemToClients' \in [DataItemId -> SUBSET DataItemObserver]
    BY DEF OsTypeOK
  <2>2. mClientToDataItems' \in [DataItemObserver -> SUBSET DataItemId]
    BY DEF OsTypeOK
  <2>3. notified' \in [DataItemObserver -> [DataItemId -> 0..MaxItemValue]]
    BY DEF OsTypeOK
  <2>4. frameworkItems' \subseteq DataItemId
    BY DEF OsTypeOK
  <2> QED  BY <2>1, <2>2, <2>3, <2>4 DEF OsTypeOK
<1>2. MapsAgree'
  BY DEF OsTypeOK, MapsAgree
<1>3. LatestSent'
  BY DEF OsTypeOK, LatestSent
<1>4. FrameworkFollows'
  BY OsObserverAssumption DEF OsTypeOK, FrameworkFollows, ItemKeys
<1>5. AskedThroughObject'
  BY DEF AskedThroughObject
<1> QED  BY <1>1, <1>2, <1>3, <1>4, <1>5

\* The end of subscriptions.
LEMMA GiveUpInv ==
  ASSUME OsIInv, NEW c \in DataItemObserver, NEW items \in SUBSET DataItemId, GiveUp(c, items)
  PROVE  OsIInv'
<1> USE DEF OsIInv, GiveUp
<1>1. OsTypeOK'
  <2>1. mDataItemToClients' \in [DataItemId -> SUBSET DataItemObserver]
    BY DEF OsTypeOK
  <2>2. mClientToDataItems' \in [DataItemObserver -> SUBSET DataItemId]
    BY DEF OsTypeOK
  <2> QED  BY <2>1, <2>2 DEF OsTypeOK
<1>2. MapsAgree'
  BY DEF OsTypeOK, MapsAgree
<1>3. LatestSent'
  BY DEF OsTypeOK, LatestSent
<1>4. FrameworkFollows'
  BY DEF OsTypeOK, MapsAgree, FrameworkFollows, ItemKeys
<1>5. AskedThroughObject'
  BY DEF AskedThroughObject
<1> QED  BY <1>1, <1>2, <1>3, <1>4, <1>5

\* A notification.
LEMMA HandleNotifyInv ==
  ASSUME OsIInv, NEW items \in SUBSET DataItemId, NEW v \in ItemValue, HandleNotify(items, v)
  PROVE  OsIInv'
<1> USE DEF OsIInv, HandleNotify
<1>1. v \in 0..MaxItemValue
  BY OsObserverAssumption DEF ItemValue
<1>2. OsTypeOK'
  BY <1>1 DEF OsTypeOK
<1>3. LatestSent'
  BY DEF OsTypeOK, MapsAgree, LatestSent
<1>4. MapsAgree' /\ FrameworkFollows' /\ AskedThroughObject'
  BY DEF MapsAgree, FrameworkFollows, ItemKeys, AskedThroughObject
<1> QED  BY <1>2, <1>3, <1>4

LEMMA OsStepInv == OsIInv /\ [OsNext]_osVars => OsIInv'
<1> SUFFICES ASSUME OsIInv, [OsNext]_osVars
             PROVE  OsIInv'
  OBVIOUS
<1>1. CASE SetSubsObj
  BY <1>1, SetSubsObjInv
<1>2. CASE \E c \in DataItemObserver, items \in SUBSET DataItemId, toRequestData \in BOOLEAN :
              HandleSubscribeReq(c, items, toRequestData)
  BY <1>2, HandleSubscribeReqInv
<1>3. CASE \E c \in DataItemObserver, items \in SUBSET DataItemId : HandleUnsubscribeReq(c, items)
  BY <1>3, GiveUpInv DEF HandleUnsubscribeReq
<1>4. CASE \E c \in DataItemObserver : HandleUnsubscribeAllReq(c)
  <2> PICK c \in DataItemObserver : HandleUnsubscribeAllReq(c)
    BY <1>4
  <2>1. mClientToDataItems[c] \in SUBSET DataItemId
    BY DEF OsIInv, OsTypeOK
  <2> QED  BY <2>1, GiveUpInv DEF HandleUnsubscribeAllReq
<1>5. CASE \E items \in SUBSET DataItemId, v \in ItemValue : HandleNotify(items, v)
  BY <1>5, HandleNotifyInv
<1>6. CASE UNCHANGED osVars
  BY <1>6 DEF osVars, OsIInv, OsTypeOK, MapsAgree, LatestSent, FrameworkFollows, AskedThroughObject, ItemKeys
<1> QED  BY <1>1, <1>2, <1>3, <1>4, <1>5, <1>6 DEF OsNext

\* Whoever has an item has its latest value, and the framework is subscribed to what is
\* wanted and to nothing else (SystemStatusOsObserver).
THEOREM ObserversAreServed == OsSpec => []ObserversServed
<1>1. OsIInv => ObserversServed
  BY DEF OsIInv, LatestSent, ObserversServed
<1> QED  BY <1>1, OsInitInv, OsStepInv, PTL DEF OsSpec

-----------------------------------------------------------------------------
(* Rkp *)

\* What the worker may have sent so far, by where it is.
WorkerTruthful ==
    /\ worker \in {"exec", "guarded", "serve", "read", "vendor"} => fromWorker.sent = "none"
    /\ worker = "reply" /\ fromWorker.sent # "none" => fromWorker.status = "OK"
    /\ fromWorker.sent # "none" /\ fromWorker.status = "OK" => accepted

\* What the service has received, by where it is.
ServiceKnows ==
    /\ rkpPc \in {"sendHeader", "sendPayload", "recvHeader"} => rkpHeader = "none"
    /\ rkpPc = "recvPayload" => rkpHeader = "OK"
    /\ rkpPc \in {"recvPayload", "close", "wait"} /\ rkpHeader = "OK" =>
          fromWorker.sent # "none" /\ fromWorker.status = "OK"
    /\ rkpPc \in {"close", "wait"} /\ rkpHeader = "OK" /\ complete => fromWorker.sent = "all"

RkpIInv ==
    /\ rkpPc \in {"idle", "sendHeader", "sendPayload", "recvHeader", "recvPayload", "close", "wait", "dead"}
    /\ fromWorker \in [status : {"none", "OK", "INVALID_REQUEST", "UNAVAILABLE", "TRANSPORT", "REJECTED"},
                       sent : {"none", "header", "all"}]
    /\ WorkerTruthful
    /\ ServiceKnows
    /\ WorkerReaped
    /\ OkIsWhole

LEMMA RkpInitInv == RkpInit => RkpIInv
  BY DEF RkpInit, RkpIInv, WorkerTruthful, ServiceKnows, WorkerReaped, OkIsWhole, NothingSent, NoAnswer

\* The steps of the service.
LEMMA ServiceStepInv ==
  ASSUME RkpIInv, Request \/ ServiceStep \/ ServiceTimeout \/ ServiceDies
  PROVE  RkpIInv'
<1> USE DEF RkpIInv, WorkerTruthful, ServiceKnows, WorkerReaped, OkIsWhole,
            rkpService, rkpSockets, rkpWorker, WorkerRuns, WorkerEnds
<1>1. CASE Request
  BY <1>1 DEF Request, NothingSent, NoAnswer
<1>2. CASE Send
  BY <1>2 DEF Send
<1>3. CASE RecvHeader
  BY <1>3 DEF RecvHeader
<1>4. CASE RecvPayload
  BY <1>4 DEF RecvPayload
<1>5. CASE CloseAndKill
  BY <1>5 DEF CloseAndKill
<1>6. CASE WaitAndAnswer
  <2>1. /\ rkpPc = "wait" /\ rkpPc' = "idle" /\ worker' = "none"
        /\ UNCHANGED <<rkpRequest, complete, rkpHeader, fromWorker, accepted>>
    BY <1>6 DEF WaitAndAnswer
  <2>2. rkpAnswer'.status = "OK" => complete /\ rkpHeader = "OK" /\ rkpAnswer'.of = rkpRequest
    BY <1>6 DEF WaitAndAnswer
  <2> QED  BY <2>1, <2>2
<1>7. CASE ServiceTimeout
  BY <1>7 DEF ServiceTimeout
<1>8. CASE ServiceDies
  BY <1>8 DEF ServiceDies
<1> QED  BY <1>1, <1>2, <1>3, <1>4, <1>5, <1>6, <1>7, <1>8 DEF ServiceStep

\* The steps of the worker.
LEMMA WorkerStepInv ==
  ASSUME RkpIInv,
         \/ SetDeathSignal \/ LookForParent \/ Serve \/ WorkerReads \/ WorkerExits \/ Alarm
         \/ \E o \in VendorOutcomes : Vendor(o)
         \/ \E s \in {"OK", "UNAVAILABLE", "TRANSPORT", "REJECTED"} : WorkerReplies(s)
  PROVE  RkpIInv'
<1> USE DEF RkpIInv, WorkerTruthful, ServiceKnows, WorkerReaped, OkIsWhole,
            rkpService, rkpSockets, rkpWorker
<1>1. CASE SetDeathSignal \/ LookForParent \/ Serve
  BY <1>1 DEF SetDeathSignal, LookForParent, Serve
<1>2. CASE WorkerReads
  BY <1>2 DEF WorkerReads
<1>3. CASE WorkerExits \/ Alarm
  BY <1>3 DEF WorkerExits, Alarm, WorkerRuns
<1>4. CASE \E o \in VendorOutcomes : Vendor(o)
  BY <1>4 DEF Vendor
<1>5. CASE \E s \in {"OK", "UNAVAILABLE", "TRANSPORT", "REJECTED"} : WorkerReplies(s)
  BY <1>5 DEF WorkerReplies
<1> QED  BY <1>1, <1>2, <1>3, <1>4, <1>5

LEMMA RkpStepInv == RkpIInv /\ [RkpNext]_rkpVars => RkpIInv'
<1> SUFFICES ASSUME RkpIInv, [RkpNext]_rkpVars
             PROVE  RkpIInv'
  OBVIOUS
<1>1. CASE UNCHANGED rkpVars
  BY <1>1 DEF rkpVars, rkpService, rkpSockets, rkpWorker, RkpIInv, WorkerTruthful, ServiceKnows,
              WorkerReaped, OkIsWhole
<1> QED  BY <1>1, ServiceStepInv, WorkerStepInv DEF RkpNext

\* A request leaves no process and no zombie behind, and an answer OK carries the whole
\* payload that the library made for this very request (duck_rkp.cpp, runWorker).
THEOREM RequestsAreClean == RkpSpec => []RequestsEndClean
<1>1. RkpIInv => RequestsEndClean
  BY DEF RkpIInv, RequestsEndClean
<1> QED  BY <1>1, RkpInitInv, RkpStepInv, PTL DEF RkpSpec
-----------------------------------------------------------------------------
(* LocationApi *)

Registrations == {"addClient", "removeClient"}
Deferrable == {"requestCapabilities", "startSession"}

\* What the messages of the adapters hold.
Message == [op : Registrations \cup Deferrable, adapter : Adapter, client : Client,
            arg : Callbacks \cup {{}, {"complete"}}]

QueueType ==
    /\ queue \in Seq(Message)
    /\ mPendingMsgs \in [Adapter -> Seq(Message)]

\* An add carries callbacks, and a removal does not; the adapter of a message exists.
MessageOK(m, loaded) ==
    /\ m.op = "addClient" => m.arg \in Callbacks
    /\ m.op \in Registrations \/ m.op = "requestCapabilities" => m.adapter \in loaded

\* Only requests that can be put aside are put aside.
QueueOK ==
    /\ \A i \in 1..Len(queue) : MessageOK(queue[i], interfaces)
    /\ \A a \in Adapter : \A i \in 1..Len(mPendingMsgs[a]) :
           MessageOK(mPendingMsgs[a][i], interfaces) /\ mPendingMsgs[a][i].op \in Deferrable

\* The registrations of client c at adapter a in the messages q.
Regs(q, a, c) == {i \in 1..Len(q) : q[i].op \in Registrations /\ q[i].adapter = a /\ q[i].client = c}

\* The registration that is handled last.
LastReg(q, a, c, i) == i \in Regs(q, a, c) /\ \A j \in Regs(q, a, c) : j <= i

\* The removals of destroy.
Completes(m) == m.op = "removeClient" /\ m.arg = {"complete"}

\* Adapter a knows nothing of c, and will not.
Forgotten(a, c) == mClientData[a][c] = None /\ Regs(queue, a, c) = {}

\* An adapter that is not loaded knows nobody; what a client wants is loaded where it exists.
Unloaded == \A c \in Client, a \in Adapter : a \notin interfaces => Forgotten(a, c)
EntriesLoaded == \A c \in Client : clientData[c] # None => clientData[c] \cap libraries \subseteq interfaces

\* How the object of c, its entry in gData and the messages about it agree.
Life(c) ==
    /\ clientData[c] # None <=> object[c] = "live"
    /\ object[c] = "closing" <=> waitAdapterMask[c] # {}
    /\ object[c] \in {"unborn", "deleted"} => \A a \in Adapter : Forgotten(a, c)
    /\ object[c] = "live" => \A a \in Adapter : \A i \in Regs(queue, a, c) : ~Completes(queue[i])
    /\ object[c] = "closing" =>
           \A a \in Adapter :
               IF a \notin waitAdapterMask[c] THEN Forgotten(a, c)
               ELSE \E i \in 1..Len(queue) :
                       /\ LastReg(queue, a, c, i) /\ Completes(queue[i])
                       /\ \A j \in Regs(queue, a, c) : Completes(queue[j]) => j = i
    /\ object[c] = "leaked" =>
           \A a \in Adapter :
               Forgotten(a, c) \/ \E i \in 1..Len(queue) : LastReg(queue, a, c, i) /\ Completes(queue[i])

\* The entries of adapter a that fit the callbacks c set last.
Wanted(a, c) == IF a \in clientData[c] THEN {clientData[c]}
                ELSE IF a = "gnss" THEN Callbacks \cup {None} ELSE {None}

\* The entry that a registration leaves.
Leaves(m) == IF m.op = "addClient" THEN m.arg ELSE None

\* What adapter a will know of c when the queue is empty.
Settles(a, c) ==
    \/ Regs(queue, a, c) = {} /\ mClientData[a][c] \in Wanted(a, c)
    \/ \E i \in 1..Len(queue) : LastReg(queue, a, c, i) /\ Leaves(queue[i]) \in Wanted(a, c)

AllSettle == \A c \in Client : clientData[c] # None => \A a \in interfaces : Settles(a, c)

Asks(m, a, c) == m.op = "requestCapabilities" /\ m.adapter = a /\ m.client = c

\* c is told, or asks behind its own registration, or has asked an adapter that does not
\* know yet; or no adapter takes it.
WillBeTold(c) ==
    \/ c \in capabilitiesTold
    \/ \E a \in Adapter :
           \/ \E i \in 1..Len(queue) : /\ Asks(queue[i], a, c)
                                       /\ \/ mClientData[a][c] # None
                                          \/ \E j \in Regs(queue, a, c) : j < i
           \/ /\ a \notin known /\ mClientData[a][c] # None
              /\ \E i \in 1..Len(mPendingMsgs[a]) : Asks(mPendingMsgs[a][i], a, c)
    \/ \A a \in Adapter : Forgotten(a, c)

\* Before any change of callbacks, everybody will be told, and only adds are under way.
ToldInTime ==
    updates = 0 =>
        \A c \in Client : clientData[c] # None =>
            /\ WillBeTold(c)
            /\ \A a \in Adapter : \A i \in Regs(queue, a, c) : queue[i].op = "addClient"

\* The invariant, but for the types.
ApiParts == /\ QueueType /\ QueueOK /\ Unloaded /\ EntriesLoaded
            /\ (\A c \in Client : Life(c)) /\ AllSettle /\ ToldInTime

ApiIInv == ApiTypeOK /\ ApiParts

-----------------------------------------------------------------------------
(* Sequences of messages *)

\* Where the elements of a concatenation are.
LEMMA Concatenated ==
    ASSUME NEW q \in Seq(Message), NEW m \in Seq(Message)
    PROVE  /\ q \o m \in Seq(Message)
           /\ Len(q) \in Nat /\ Len(m) \in Nat /\ Len(q \o m) = Len(q) + Len(m)
           /\ \A i \in 1..Len(q) : i \in 1..Len(q \o m) /\ (q \o m)[i] = q[i]
           /\ \A i \in 1..Len(m) : Len(q) + i \in 1..Len(q \o m) /\ (q \o m)[Len(q) + i] = m[i]
           /\ \A i \in 1..Len(q \o m) : i \in 1..Len(q) \/ \E j \in 1..Len(m) : i = Len(q) + j
<1>1. q \o m \in Seq(Message) /\ Len(q \o m) = Len(q) + Len(m) /\ Len(q) \in Nat /\ Len(m) \in Nat
  BY ConcatProperties, LenProperties
<1>2. \A i \in 1..Len(q \o m) : (q \o m)[i] = IF i <= Len(q) THEN q[i] ELSE m[i - Len(q)]
  BY ConcatProperties
<1>3. ASSUME NEW i \in 1..Len(q \o m), i \notin 1..Len(q)
      PROVE  \E j \in 1..Len(m) : i = Len(q) + j
  <2>1. i - Len(q) \in 1..Len(m) /\ i = Len(q) + (i - Len(q))
    BY <1>1, <1>3
  <2> QED  BY <2>1
<1>4. \A i \in 1..Len(q) : i \in 1..Len(q \o m) /\ (q \o m)[i] = q[i]
  BY <1>1, <1>2
<1>5. \A i \in 1..Len(m) : Len(q) + i \in 1..Len(q \o m) /\ (q \o m)[Len(q) + i] = m[i]
  <2> TAKE i \in 1..Len(m)
  <2>1. Len(q) + i \in 1..Len(q \o m) /\ ~(Len(q) + i <= Len(q)) /\ (Len(q) + i) - Len(q) = i
    BY <1>1
  <2> QED  BY <2>1, <1>2
<1> QED  BY <1>1, <1>3, <1>4, <1>5

\* Messages without registrations of c at a leave the registrations of c at a alone.
LEMMA NothingRegistered ==
    ASSUME NEW q \in Seq(Message), NEW m \in Seq(Message), NEW a, NEW c, Regs(m, a, c) = {}
    PROVE  Regs(q \o m, a, c) = Regs(q, a, c)
<1>1. ASSUME NEW i \in Regs(q \o m, a, c)
      PROVE  i \in Regs(q, a, c)
  <2>1. ASSUME NEW j \in 1..Len(m), i = Len(q) + j
        PROVE  FALSE
    <3>1. j \in Regs(m, a, c)
      BY <1>1, <2>1, Concatenated DEF Regs
    <3> QED  BY <3>1
  <2>2. i \in 1..Len(q)
    BY <1>1, <2>1, Concatenated DEF Regs
  <2> QED  BY <1>1, <2>2, Concatenated DEF Regs
<1>2. \A i \in Regs(q, a, c) : i \in Regs(q \o m, a, c)
  BY Concatenated DEF Regs
<1> QED  BY <1>1, <1>2

\* One registration in the messages that are appended is the only new one, and the last.
LEMMA OneRegistered ==
    ASSUME NEW q \in Seq(Message), NEW m \in Seq(Message), NEW a, NEW c,
           NEW k \in 1..Len(m), Regs(m, a, c) = {k}
    PROVE  Regs(q \o m, a, c) = Regs(q, a, c) \cup {Len(q) + k}
<1>1. ASSUME NEW i \in Regs(q \o m, a, c), i \notin 1..Len(q)
      PROVE  i = Len(q) + k
  <2>1. PICK j \in 1..Len(m) : i = Len(q) + j
    BY <1>1, Concatenated DEF Regs
  <2>2. j \in Regs(m, a, c)
    BY <1>1, <2>1, Concatenated DEF Regs
  <2> QED  BY <2>1, <2>2
<1>2. k \in Regs(m, a, c)
  OBVIOUS
<1>3. Len(q) + k \in Regs(q \o m, a, c)
  <2>1. Len(q) + k \in 1..Len(q \o m) /\ (q \o m)[Len(q) + k] = m[k]
    BY Concatenated
  <2> QED  BY <1>2, <2>1 DEF Regs
<1>4. \A i \in Regs(q, a, c) : i \in Regs(q \o m, a, c)
  BY Concatenated DEF Regs
<1>5. ASSUME NEW i \in Regs(q \o m, a, c), i \in 1..Len(q)
      PROVE  i \in Regs(q, a, c)
  BY <1>5, Concatenated DEF Regs
<1> QED  BY <1>1, <1>3, <1>4, <1>5

LEMMA LastRegistered ==
    ASSUME NEW q \in Seq(Message), NEW m \in Seq(Message), NEW a, NEW c,
           NEW k \in 1..Len(m), Regs(m, a, c) = {k}
    PROVE  LastReg(q \o m, a, c, Len(q) + k)
<1>1. Regs(q \o m, a, c) = Regs(q, a, c) \cup {Len(q) + k}
  BY OneRegistered
<1>2. \A i \in Regs(q, a, c) : i <= Len(q) + k
  BY Concatenated DEF Regs
<1>3. Len(q) + k <= Len(q) + k
  BY Concatenated
<1> QED  BY <1>1, <1>2, <1>3 DEF LastReg

LEMMA Appended ==
    ASSUME NEW q \in Seq(Message), NEW m \in Message
    PROVE  /\ Append(q, m) \in Seq(Message)
           /\ Len(q) \in Nat /\ Len(Append(q, m)) = Len(q) + 1 /\ Append(q, m)[Len(q) + 1] = m
           /\ Len(q) + 1 \in 1..Len(Append(q, m))
           /\ \A i \in 1..Len(q) : i \in 1..Len(Append(q, m)) /\ Append(q, m)[i] = q[i]
           /\ \A i \in 1..Len(Append(q, m)) : i \in 1..Len(q) \/ i = Len(q) + 1
<1>1. /\ Append(q, m) \in Seq(Message)
      /\ Len(q) \in Nat /\ Len(Append(q, m)) = Len(q) + 1 /\ Append(q, m)[Len(q) + 1] = m
      /\ \A i \in 1..Len(q) : Append(q, m)[i] = q[i]
  BY AppendProperties, LenProperties
<1> QED  BY <1>1

\* What is left of a queue when its first message is taken.
LEMMA Taken ==
    ASSUME NEW q \in Seq(Message), q # <<>>
    PROVE  /\ Head(q) = q[1] /\ q[1] \in Message /\ 1 \in 1..Len(q)
           /\ Tail(q) \in Seq(Message) /\ Len(q) \in Nat /\ Len(Tail(q)) = Len(q) - 1
           /\ \A i \in 1..Len(Tail(q)) : i + 1 \in 1..Len(q) /\ Tail(q)[i] = q[i + 1]
           /\ \A i \in 1..Len(q) : i # 1 => i - 1 \in 1..Len(Tail(q)) /\ Tail(q)[i - 1] = q[i]
<1>1. Len(q) \in Nat /\ Len(q) # 0
  BY EmptySeq, LenProperties
<1>2. /\ Head(q) = q[1] /\ q[1] \in Message
      /\ Tail(q) \in Seq(Message) /\ Len(Tail(q)) = Len(q) - 1
      /\ \A i \in 1..Len(Tail(q)) : Tail(q)[i] = q[i + 1]
  BY <1>1, HeadTailProperties, ElementOfSeq
<1> QED  BY <1>1, <1>2

LEMMA RegsTaken ==
    ASSUME NEW q \in Seq(Message), q # <<>>, NEW a, NEW c
    PROVE  /\ \A i \in Regs(Tail(q), a, c) : i + 1 \in Regs(q, a, c)
           /\ \A i \in Regs(q, a, c) : i # 1 => i - 1 \in Regs(Tail(q), a, c)
           /\ \A i : LastReg(q, a, c, i) /\ i # 1 => LastReg(Tail(q), a, c, i - 1)
<1>1. \A i \in Regs(Tail(q), a, c) : i + 1 \in Regs(q, a, c)
  BY Taken DEF Regs
<1>2. \A i \in Regs(q, a, c) : i # 1 => i - 1 \in Regs(Tail(q), a, c)
  BY Taken DEF Regs
<1>3. ASSUME NEW i, LastReg(q, a, c, i), i # 1
      PROVE  LastReg(Tail(q), a, c, i - 1)
  <2>1. i - 1 \in Regs(Tail(q), a, c) /\ i \in Int
    BY <1>2, <1>3 DEF LastReg, Regs
  <2>2. ASSUME NEW j \in Regs(Tail(q), a, c)
        PROVE  j <= i - 1
    <3>1. j + 1 <= i /\ j \in Int
      BY <1>1, <1>3 DEF LastReg, Regs
    <3> QED  BY <2>1, <3>1
  <2> QED  BY <2>1, <2>2 DEF LastReg
<1> QED  BY <1>1, <1>2, <1>3

-----------------------------------------------------------------------------
(* The messages that are sent *)

\* Each adapter of S is at one place of InOrder(S), and nothing else is.
LEMMA OrderProperties ==
    ASSUME NEW S \in SUBSET Adapter
    PROVE  /\ InOrder(S) \in Seq(S) /\ Len(InOrder(S)) \in Nat
           /\ \A i \in 1..Len(InOrder(S)) : InOrder(S)[i] \in S
           /\ \A a \in S : \E k \in 1..Len(InOrder(S)) : InOrder(S)[k] = a
           /\ \A i, j \in 1..Len(InOrder(S)) : InOrder(S)[i] = InOrder(S)[j] => i = j
           /\ S # {} => Head(InOrder(S)) \in S
<1>1. CASE "gnss" \in S
  <2>1. CASE "batching" \in S
    <3>1. CASE "geofence" \in S
      BY <1>1, <2>1, <3>1 DEF InOrder, Just, Adapter
    <3>2. CASE "geofence" \notin S
      BY <1>1, <2>1, <3>2 DEF InOrder, Just, Adapter
    <3> QED  BY <3>1, <3>2
  <2>2. CASE "batching" \notin S
    <3>1. CASE "geofence" \in S
      BY <1>1, <2>2, <3>1 DEF InOrder, Just, Adapter
    <3>2. CASE "geofence" \notin S
      BY <1>1, <2>2, <3>2 DEF InOrder, Just, Adapter
    <3> QED  BY <3>1, <3>2
  <2> QED  BY <2>1, <2>2
<1>2. CASE "gnss" \notin S
  <2>1. CASE "batching" \in S
    <3>1. CASE "geofence" \in S
      BY <1>2, <2>1, <3>1 DEF InOrder, Just, Adapter
    <3>2. CASE "geofence" \notin S
      BY <1>2, <2>1, <3>2 DEF InOrder, Just, Adapter
    <3> QED  BY <3>1, <3>2
  <2>2. CASE "batching" \notin S
    <3>1. CASE "geofence" \in S
      BY <1>2, <2>2, <3>1 DEF InOrder, Just, Adapter
    <3>2. CASE "geofence" \notin S
      <4>1. InOrder(S) = <<>> /\ S = {}
        BY <1>2, <2>2, <3>2 DEF InOrder, Just, Adapter
      <4> QED  BY <4>1
    <3> QED  BY <3>1, <3>2
  <2> QED  BY <2>1, <2>2
<1> QED  BY <1>1, <1>2
\* Messages to the adapters of S about c: one registration for each, and no other.
Sent(m, c, S) ==
    /\ m \in Seq(Message)
    /\ \A a \in S : \E k \in 1..Len(m) : Regs(m, a, c) = {k}
    /\ \A a \in Adapter, d \in Client : d # c \/ a \notin S => Regs(m, a, d) = {}

LEMMA OnePerAdapter ==
    ASSUME NEW S \in SUBSET Adapter, NEW c \in Client, NEW m \in Seq(Message),
           Len(m) = Len(InOrder(S)),
           \A i \in 1..Len(m) : /\ m[i].op \in Registrations
                                /\ m[i].adapter = InOrder(S)[i] /\ m[i].client = c
    PROVE  Sent(m, c, S)
<1>1. ASSUME NEW a \in S
      PROVE  \E k \in 1..Len(m) : Regs(m, a, c) = {k}
  <2>1. PICK k \in 1..Len(m) : InOrder(S)[k] = a
    BY OrderProperties
  <2>2. \A i \in 1..Len(m) : InOrder(S)[i] = a => i = k
    BY <2>1, OrderProperties
  <2>3. Regs(m, a, c) = {k}
    BY <2>1, <2>2 DEF Regs
  <2> QED  BY <2>3
<1>2. ASSUME NEW a \in Adapter, NEW d \in Client, d # c \/ a \notin S
      PROVE  Regs(m, a, d) = {}
  BY <1>2, OrderProperties DEF Regs
<1> QED  BY <1>1, <1>2 DEF Sent

\* The removals of destroy.
LEMMA RemovalsSent ==
    ASSUME NEW S \in SUBSET Adapter, NEW c \in Client, NEW m,
           m = [i \in 1..Len(InOrder(S)) |-> Msg("removeClient", InOrder(S)[i], c, {"complete"})]
    PROVE  Sent(m, c, S) /\ \A i \in 1..Len(m) : m[i].adapter \in S /\ m[i].client = c /\ Completes(m[i])
<1>1. Len(InOrder(S)) \in Nat /\ \A i \in 1..Len(InOrder(S)) : InOrder(S)[i] \in S
  BY OrderProperties
<1>2. \A i \in 1..Len(InOrder(S)) : Msg("removeClient", InOrder(S)[i], c, {"complete"}) \in Message
  BY <1>1 DEF Msg, Message, Registrations
<1>3. m \in Seq(Message) /\ Len(m) = Len(InOrder(S))
  BY <1>1, <1>2
<1>4. \A i \in 1..Len(m) : m[i] = Msg("removeClient", InOrder(S)[i], c, {"complete"})
  BY <1>1, <1>3
<1>5. \A i \in 1..Len(m) : /\ m[i].op = "removeClient" /\ m[i].adapter = InOrder(S)[i]
                           /\ m[i].client = c /\ m[i].arg = {"complete"}
  BY <1>4 DEF Msg
<1>6. Sent(m, c, S)
  BY <1>3, <1>5, OnePerAdapter DEF Registrations
<1> QED  BY <1>1, <1>3, <1>5, <1>6 DEF Completes

\* The messages of updateCallbacks.
LEMMA UpdatesSent ==
    ASSUME NEW S \in SUBSET Adapter, NEW c \in Client, NEW cbs \in Callbacks, NEW m,
           m = [i \in 1..Len(InOrder(S)) |->
                   IF InOrder(S)[i] \in cbs THEN Msg("addClient", InOrder(S)[i], c, cbs)
                   ELSE Msg("removeClient", InOrder(S)[i], c, {})]
    PROVE  /\ Sent(m, c, S)
           /\ \A i \in 1..Len(m) :
                 /\ m[i].op \in Registrations
                 /\ m[i].adapter \in S /\ m[i].client = c /\ ~Completes(m[i])
                 /\ m[i].op = "addClient" => m[i].arg = cbs
                 /\ m[i].op = "addClient" <=> m[i].adapter \in cbs
<1>1. Len(InOrder(S)) \in Nat /\ \A i \in 1..Len(InOrder(S)) : InOrder(S)[i] \in S
  BY OrderProperties
<1> DEFINE M(i) == IF InOrder(S)[i] \in cbs THEN Msg("addClient", InOrder(S)[i], c, cbs)
                   ELSE Msg("removeClient", InOrder(S)[i], c, {})
<1>2. \A i \in 1..Len(InOrder(S)) : M(i) \in Message
  BY <1>1 DEF Msg, Message, Registrations
<1>3. m \in Seq(Message) /\ Len(m) = Len(InOrder(S))
  BY <1>1, <1>2
<1>4. \A i \in 1..Len(m) : m[i] = M(i)
  BY <1>1, <1>3
<1>5. \A i \in 1..Len(m) : /\ m[i].op \in Registrations /\ m[i].adapter = InOrder(S)[i]
                           /\ m[i].client = c /\ ~Completes(m[i])
                           /\ m[i].op = "addClient" => m[i].arg = cbs
                           /\ m[i].op = "addClient" <=> m[i].adapter \in cbs
  <2> TAKE i \in 1..Len(m)
  <2>1. CASE InOrder(S)[i] \in cbs
    <3>1. m[i] = Msg("addClient", InOrder(S)[i], c, cbs)
      BY <1>4, <2>1
    <3>2. /\ m[i].op = "addClient" /\ m[i].adapter = InOrder(S)[i]
          /\ m[i].client = c /\ m[i].arg = cbs
      BY <3>1 DEF Msg
    <3> QED  BY <2>1, <3>2 DEF Registrations, Completes
  <2>2. CASE InOrder(S)[i] \notin cbs
    <3>1. m[i] = Msg("removeClient", InOrder(S)[i], c, {})
      BY <1>4, <2>2
    <3>2. /\ m[i].op = "removeClient" /\ m[i].adapter = InOrder(S)[i]
          /\ m[i].client = c /\ m[i].arg = {}
      BY <3>1 DEF Msg
    <3> QED  BY <2>2, <3>2 DEF Registrations, Completes
  <2> QED  BY <2>1, <2>2
<1>6. Sent(m, c, S)
  BY <1>3, <1>5, OnePerAdapter
<1> QED  BY <1>1, <1>3, <1>5, <1>6

\* The adds of createInstance after the first one.
LEMMA OnlyAddsSent ==
    ASSUME NEW S \in SUBSET Adapter, NEW c \in Client, NEW cbs \in Callbacks, NEW m,
           m = [i \in 1..Len(InOrder(S)) |-> Msg("addClient", InOrder(S)[i], c, cbs)]
    PROVE  /\ Sent(m, c, S)
           /\ \A i \in 1..Len(m) : /\ m[i].op = "addClient" /\ m[i].adapter \in S
                                    /\ m[i].client = c /\ m[i].arg = cbs
<1>1. Len(InOrder(S)) \in Nat /\ \A i \in 1..Len(InOrder(S)) : InOrder(S)[i] \in S
  BY OrderProperties
<1>2. \A i \in 1..Len(InOrder(S)) : Msg("addClient", InOrder(S)[i], c, cbs) \in Message
  BY <1>1 DEF Msg, Message, Registrations
<1>3. m \in Seq(Message) /\ Len(m) = Len(InOrder(S))
  BY <1>1, <1>2
<1>4. \A i \in 1..Len(m) : m[i] = Msg("addClient", InOrder(S)[i], c, cbs)
  BY <1>1, <1>3
<1>5. \A i \in 1..Len(m) : /\ m[i].op = "addClient" /\ m[i].adapter = InOrder(S)[i]
                           /\ m[i].client = c /\ m[i].arg = cbs
  BY <1>4 DEF Msg
<1>6. Sent(m, c, S)
  BY <1>3, <1>5, OnePerAdapter DEF Registrations
<1> QED  BY <1>1, <1>3, <1>5, <1>6

\* The messages of createInstance.
LEMMA AddsSent ==
    ASSUME ApiTypeOK, NEW c \in Client, NEW cbs \in Callbacks
    PROVE  /\ Adders(cbs) \in SUBSET Adapter
           /\ Sent(AddMsgs(c, cbs), c, Adders(cbs))
           /\ \A i \in 1..Len(AddMsgs(c, cbs)) :
                 LET m == AddMsgs(c, cbs)[i]
                 IN  /\ m.op \in {"addClient", "requestCapabilities"}
                     /\ m.adapter \in Adders(cbs) /\ m.client = c /\ m.arg = cbs
           /\ Adders(cbs) # {} =>
                 \E a \in Adders(cbs) : /\ 2 \in 1..Len(AddMsgs(c, cbs))
                                        /\ Asks(AddMsgs(c, cbs)[2], a, c)
                                        /\ 1 \in Regs(AddMsgs(c, cbs), a, c)
<1>1. Adders(cbs) \in SUBSET Adapter
  BY LocationApiAssumption DEF Adders, ApiTypeOK, Adapter
<1>2. CASE Adders(cbs) = {}
  <2>1. AddMsgs(c, cbs) = <<>>
    BY <1>2 DEF AddMsgs
  <2>2. Sent(<<>>, c, {})
    BY DEF Sent, Regs
  <2> QED  BY <1>1, <1>2, <2>1, <2>2
<1>3. CASE Adders(cbs) # {}
  <2> DEFINE A == Adders(cbs)
             f == Head(InOrder(A))
             R == A \ {f}
             h == <<Msg("addClient", f, c, cbs), Msg("requestCapabilities", f, c, cbs)>>
             t == [i \in 1..Len(InOrder(R)) |-> Msg("addClient", InOrder(R)[i], c, cbs)]
             m == h \o t
  <2>1. AddMsgs(c, cbs) = m
    BY <1>3 DEF AddMsgs, Each
  <2>2. f \in A /\ f \in Adapter /\ R \in SUBSET Adapter
    BY <1>1, <1>3, OrderProperties
  <2>4. \A a \in Adapter : Msg("addClient", a, c, cbs) \in Message
                           /\ Msg("requestCapabilities", a, c, cbs) \in Message
    BY DEF Msg, Message, Registrations, Deferrable
  <2>7. /\ Sent(t, c, R)
        /\ \A i \in 1..Len(t) : /\ t[i].op = "addClient" /\ t[i].adapter \in R
                                 /\ t[i].client = c /\ t[i].arg = cbs
    <3>1. t = [i \in 1..Len(InOrder(R)) |-> Msg("addClient", InOrder(R)[i], c, cbs)]
      OBVIOUS
    <3> HIDE DEF t, R
    <3> QED  BY <2>2, <3>1, OnlyAddsSent
  <2>5. t \in Seq(Message)
    BY <2>7 DEF Sent
  <2>8. h \in Seq(Message) /\ Len(h) = 2 /\ h[1] = Msg("addClient", f, c, cbs)
        /\ h[2] = Msg("requestCapabilities", f, c, cbs)
    BY <2>2, <2>4
  <2>9. /\ h[1].op = "addClient" /\ h[1].adapter = f /\ h[1].client = c /\ h[1].arg = cbs
        /\ h[2].op = "requestCapabilities" /\ h[2].adapter = f /\ h[2].client = c /\ h[2].arg = cbs
    BY <2>8 DEF Msg
  <2>10. Regs(h, f, c) = {1} /\ \A a \in Adapter, d \in Client : d # c \/ a # f => Regs(h, a, d) = {}
    <3>1. \A i \in 1..Len(h) : i = 1 \/ i = 2
      BY <2>8
    <3> HIDE DEF h, f
    <3> QED  BY <2>8, <2>9, <3>1 DEF Regs, Registrations
  <2> HIDE DEF h, t, f
  <2>11. m \in Seq(Message)
    BY <2>5, <2>8, Concatenated
  <2>12. \A i \in 1..Len(m) : /\ m[i].op \in {"addClient", "requestCapabilities"}
                              /\ m[i].adapter \in A /\ m[i].client = c /\ m[i].arg = cbs
    <3>1. \A i \in 1..Len(h) : /\ h[i].op \in {"addClient", "requestCapabilities"}
                               /\ h[i].adapter \in A /\ h[i].client = c /\ h[i].arg = cbs
      <4>1. \A i \in 1..Len(h) : i = 1 \/ i = 2
        BY <2>8
      <4> QED  BY <4>1, <2>2, <2>9
    <3>2. \A i \in 1..Len(t) : /\ t[i].op \in {"addClient", "requestCapabilities"}
                               /\ t[i].adapter \in A /\ t[i].client = c /\ t[i].arg = cbs
      BY <2>7
    <3> HIDE DEF A
    <3> TAKE i \in 1..Len(m)
    <3>3. CASE i \in 1..Len(h)
      <4>1. m[i] = h[i]
        BY <3>3, <2>5, <2>8, Concatenated
      <4> QED  BY <3>1, <3>3, <4>1
    <3>4. CASE i \notin 1..Len(h)
      <4>1. PICK j \in 1..Len(t) : i = Len(h) + j
        BY <3>4, <2>5, <2>8, Concatenated
      <4>2. m[i] = t[j]
        BY <4>1, <2>5, <2>8, Concatenated
      <4> QED  BY <3>2, <4>2
    <3> QED  BY <3>3, <3>4
  <2>13. \A a \in A : \E k \in 1..Len(m) : Regs(m, a, c) = {k}
    <3> TAKE a \in A
    <3>1. CASE a = f
      <4>1. Regs(t, f, c) = {}
        BY <2>2, <2>7 DEF Sent
      <4>2. Regs(m, f, c) = {1}
        BY <4>1, <2>5, <2>8, <2>10, NothingRegistered
      <4>3. 1 \in 1..Len(m)
        BY <4>2 DEF Regs
      <4> QED  BY <3>1, <4>2, <4>3
    <3>2. CASE a # f
      <4>1. PICK k \in 1..Len(t) : Regs(t, a, c) = {k}
        BY <3>2, <2>7 DEF Sent
      <4>2. Regs(h, a, c) = {} /\ a \in Adapter
        BY <3>2, <1>1, <2>10
      <4>3. Regs(m, a, c) = Regs(h, a, c) \cup {Len(h) + k} /\ Len(h) + k \in 1..Len(m)
        <5> HIDE DEF A, R, m
        <5>1. Regs(h \o t, a, c) = Regs(h, a, c) \cup {Len(h) + k}
          <6>1. h \in Seq(Message) /\ k \in 1..Len(t)
            BY <2>8
          <6> QED  BY <6>1, <4>1, <2>5, OneRegistered
        <5>2. Len(h) + k \in 1..Len(h \o t)
          BY <4>1, <2>5, <2>8, Concatenated
        <5> QED  BY <5>1, <5>2 DEF m
      <4> QED  BY <4>2, <4>3
    <3> QED  BY <3>1, <3>2
  <2>14. \A a \in Adapter, d \in Client : d # c \/ a \notin A => Regs(m, a, d) = {}
    <3>1. \A a \in Adapter, d \in Client : d # c \/ a \notin A => Regs(t, a, d) = {} /\ Regs(h, a, d) = {}
      BY <2>2, <2>7, <2>10 DEF Sent
    <3> QED  BY <3>1, <2>5, <2>8, NothingRegistered
  <2>15. 2 \in 1..Len(m) /\ m[2] = h[2] /\ 1 \in Regs(m, f, c)
    <3>1. Regs(t, f, c) = {}
      BY <2>2, <2>7 DEF Sent
    <3>2. Regs(m, f, c) = {1}
      BY <3>1, <2>5, <2>8, <2>10, NothingRegistered
    <3>3. 2 \in 1..Len(h)
      BY <2>8
    <3> QED  BY <3>2, <3>3, <2>5, <2>8, Concatenated
  <2>16. Asks(m[2], f, c)
    BY <2>9, <2>15 DEF Asks
  <2> HIDE DEF m
  <2>17. Sent(m, c, A)
    BY <2>11, <2>13, <2>14 DEF Sent
  <2> QED  BY <1>1, <2>1, <2>2, <2>12, <2>15, <2>16, <2>17
<1> QED  BY <1>2, <1>3
-----------------------------------------------------------------------------
(* Types *)

\* The parts of the type invariant that are about the adapters' libraries.
LEMMA LoadProperties ==
    ASSUME ApiTypeOK, NEW cbs \in Callbacks
    PROVE  /\ interfaces \subseteq Load(cbs) /\ Load(cbs) \subseteq libraries
           /\ cbs \cap libraries \subseteq Load(cbs) /\ Load(cbs) \subseteq Adapter
           /\ Load(cbs) \subseteq interfaces \cup cbs
           /\ Adders(cbs) \subseteq libraries
           /\ Load(cbs) \cap cbs \subseteq Adders(cbs)
           /\ Adders(cbs) \subseteq cbs \cup {"gnss"}
           /\ cbs \cap (Load(cbs) \cup Adders(cbs)) \subseteq Adders(cbs)
<1>1. cbs \subseteq Adapter /\ libraries \subseteq Adapter /\ interfaces \subseteq libraries
  BY LocationApiAssumption DEF ApiTypeOK
<1>2. /\ interfaces \subseteq Load(cbs) /\ Load(cbs) \subseteq libraries
      /\ cbs \cap libraries \subseteq Load(cbs) /\ Load(cbs) \subseteq Adapter
      /\ Load(cbs) \subseteq interfaces \cup cbs
  BY <1>1 DEF Load
<1>3. Adders(cbs) \subseteq libraries /\ Adders(cbs) \subseteq cbs \cup {"gnss"}
  BY <1>1 DEF Load, Adders
<1>4. Load(cbs) \cap cbs \subseteq Adders(cbs)
  BY DEF Adders
<1>5. cbs \cap (Load(cbs) \cup Adders(cbs)) \subseteq Adders(cbs)
  BY <1>4
<1> QED  BY <1>2, <1>3, <1>4, <1>5

LEMMA KnownProperties ==
    ASSUME ApiTypeOK, NEW loaded, interfaces \subseteq loaded
    PROVE  /\ KnownAfter(loaded) \subseteq loaded
           /\ KnownAfter(loaded) \subseteq known \cup (loaded \ interfaces)
BY DEF KnownAfter, ApiTypeOK

LEMMA ApiTypeStep == ApiTypeOK /\ QueueType /\ QueueOK /\ [ApiNext]_apiVars => ApiTypeOK'
<1> SUFFICES ASSUME ApiTypeOK, QueueType, QueueOK, [ApiNext]_apiVars
             PROVE  ApiTypeOK'
  OBVIOUS
<1>1. ASSUME NEW c \in Client, NEW cbs \in Callbacks, CreateInstance(c, cbs)
      PROVE  ApiTypeOK'
  <2>1. interfaces \subseteq interfaces' /\ interfaces' \subseteq libraries
    BY <1>1, LoadProperties DEF CreateInstance
  <2>2. known' \subseteq interfaces'
    BY <1>1, <2>1, KnownProperties DEF CreateInstance
  <2> QED  BY <1>1, <2>1, <2>2 DEF CreateInstance, ApiTypeOK
<1>2. ASSUME NEW c \in Client, NEW cbs \in Callbacks, UpdateCallbacks(c, cbs)
      PROVE  ApiTypeOK'
  <2>1. interfaces \subseteq interfaces' /\ interfaces' \subseteq libraries
    BY <1>2, LoadProperties DEF UpdateCallbacks
  <2>2. known' \subseteq interfaces'
    BY <1>2, <2>1, KnownProperties DEF UpdateCallbacks
  <2>3. updates' \in 0..MaxUpdates
    BY <1>2, LocationApiAssumption DEF UpdateCallbacks, ApiTypeOK
  <2> QED  BY <1>2, <2>1, <2>2, <2>3 DEF UpdateCallbacks, ApiTypeOK
<1>3. ASSUME NEW c \in Client, NEW cb \in BOOLEAN, Destroy(c, cb)
      PROVE  ApiTypeOK'
  <2>1. interfaces \in SUBSET Adapter
    BY LocationApiAssumption DEF ApiTypeOK
  <2>2. waitAdapterMask' \in [Client -> SUBSET Adapter]
    BY <1>3, <2>1 DEF Destroy, ApiTypeOK
  <2>3. /\ clientData' \in [Client -> Callbacks \cup {None}]
        /\ object' \in [Client -> {"unborn", "live", "closing", "leaked", "deleted"}]
        /\ completed' \subseteq Client
    BY <1>3 DEF Destroy, InvokeDestroyCb, ApiTypeOK
  <2> QED  BY <1>3, <2>2, <2>3 DEF Destroy, adapters, ApiTypeOK
<1>4. ASSUME NEW c \in Client, NEW a \in Adapter, RequestSession(c, a)
      PROVE  ApiTypeOK'
  <2>1. requests' \in 0..MaxRequests
    BY <1>4, LocationApiAssumption DEF RequestSession, ApiTypeOK
  <2> QED  BY <1>4, <2>1 DEF RequestSession, gData, adapters, ApiTypeOK
<1>5. ASSUME NEW a \in Adapter, EngineUp(a)
      PROVE  ApiTypeOK'
  BY <1>5 DEF EngineUp, gData, ApiTypeOK
<1>6. CASE ProcAddClient
  <2>1. Head(queue) = queue[1] /\ queue[1] \in Message /\ 1 \in 1..Len(queue) /\ queue[1].op = "addClient"
    BY <1>6, Taken DEF ProcAddClient, HeadIs, QueueType
  <2>2. queue[1].arg \in Callbacks
    BY <2>1 DEF QueueOK, MessageOK
  <2>3. mClientData' \in [Adapter -> [Client -> Callbacks \cup {None}]]
    BY <1>6, <2>1, <2>2 DEF ProcAddClient, Message, ApiTypeOK
  <2> QED  BY <1>6, <2>3 DEF ProcAddClient, gData, ApiTypeOK
<1>7. CASE ProcRemoveClient
  <2>1. Head(queue) = queue[1] /\ queue[1] \in Message
    BY <1>7, Taken DEF ProcRemoveClient, HeadIs, QueueType
  <2>2. mClientData' \in [Adapter -> [Client -> Callbacks \cup {None}]]
    BY <1>7, <2>1 DEF ProcRemoveClient, Message, ApiTypeOK
  <2>3. /\ waitAdapterMask' \in [Client -> SUBSET Adapter]
        /\ object' \in [Client -> {"unborn", "live", "closing", "leaked", "deleted"}]
        /\ completed' \subseteq Client
    <3>1. queue[1].client \in Client /\ waitAdapterMask[queue[1].client] \in SUBSET Adapter
      BY <2>1 DEF Message, ApiTypeOK
    <3> QED  BY <1>7, <2>1, <3>1 DEF ProcRemoveClient, OnRemoveClientCompleteCb, InvokeDestroyCb, ApiTypeOK
  <2> QED  BY <1>7, <2>2, <2>3 DEF ProcRemoveClient, ApiTypeOK
<1>8. CASE ProcDeferrable
  <2>1. Head(queue) = queue[1] /\ queue[1] \in Message
    BY <1>8, Taken DEF ProcDeferrable, QueueType
  <2>2. capabilitiesTold' \subseteq Client
    BY <1>8, <2>1 DEF ProcDeferrable, Message, ApiTypeOK
  <2> QED  BY <1>8, <2>2 DEF ProcDeferrable, gData, ApiTypeOK
<1>9. CASE UNCHANGED apiVars
  BY <1>9 DEF apiVars, gData, adapters, ApiTypeOK
<1> QED
  BY <1>1, <1>2, <1>3, <1>4, <1>5, <1>6, <1>7, <1>8, <1>9 DEF ApiNext, ClientCalls, Proc

-----------------------------------------------------------------------------
(* Steps that append messages *)

\* Clients that the new messages do not register, and of which nothing else changes, keep
\* all they have.
LEMMA OthersKept ==
    ASSUME QueueType, NEW m \in Seq(Message), queue' = queue \o m, UNCHANGED mClientData,
           NEW d \in Client, \A a \in Adapter : Regs(m, a, d) = {},
           object'[d] = object[d], waitAdapterMask'[d] = waitAdapterMask[d],
           clientData'[d] = clientData[d]
    PROVE  /\ \A a \in Adapter : Forgotten(a, d) => Forgotten(a, d)'
           /\ Life(d) => Life(d)'
           /\ \A a \in Adapter : Settles(a, d) => Settles(a, d)'
           /\ (\A a \in Adapter : \A i \in Regs(queue, a, d) : queue[i].op = "addClient")
                 => (\A a \in Adapter : \A i \in Regs(queue', a, d) : queue'[i].op = "addClient")
<1>1. \A a \in Adapter : Regs(queue', a, d) = Regs(queue, a, d)
  BY NothingRegistered DEF QueueType
<1>2. \A i \in 1..Len(queue) : i \in 1..Len(queue') /\ queue'[i] = queue[i]
  BY Concatenated DEF QueueType
<1>3. \A a \in Adapter : \A i \in Regs(queue, a, d) : i \in 1..Len(queue)
  BY DEF Regs
<1>4. \A a \in Adapter : Forgotten(a, d) => Forgotten(a, d)'
  BY <1>1 DEF Forgotten
<1>5. \A a \in Adapter, i \in 1..Len(queue) : LastReg(queue, a, d, i) => LastReg(queue', a, d, i)
  BY <1>1 DEF LastReg
<1>6. ASSUME Life(d)
      PROVE  Life(d)'
  <2>1. ASSUME object[d] = "live", NEW a \in Adapter, NEW i \in Regs(queue', a, d)
        PROVE  ~Completes(queue'[i])
    BY <1>1, <1>2, <1>3, <1>6, <2>1 DEF Life
  <2>2. ASSUME object[d] = "closing", NEW a \in Adapter, a \in waitAdapterMask[d]
        PROVE  \E i \in 1..Len(queue') :
                  /\ LastReg(queue', a, d, i) /\ Completes(queue'[i])
                  /\ \A j \in Regs(queue', a, d) : Completes(queue'[j]) => j = i
    <3>1. PICK i \in 1..Len(queue) :
                  /\ LastReg(queue, a, d, i) /\ Completes(queue[i])
                  /\ \A j \in Regs(queue, a, d) : Completes(queue[j]) => j = i
      BY <1>6, <2>2 DEF Life
    <3>2. i \in 1..Len(queue') /\ LastReg(queue', a, d, i) /\ Completes(queue'[i])
      BY <1>2, <1>5, <3>1
    <3>3. \A j \in Regs(queue', a, d) : Completes(queue'[j]) => j = i
      BY <1>1, <1>2, <1>3, <3>1
    <3> QED  BY <3>2, <3>3
  <2>3. ASSUME object[d] = "leaked", NEW a \in Adapter, ~Forgotten(a, d)
        PROVE  \E i \in 1..Len(queue') : LastReg(queue', a, d, i) /\ Completes(queue'[i])
    <3>1. PICK i \in 1..Len(queue) : LastReg(queue, a, d, i) /\ Completes(queue[i])
      BY <1>6, <2>3 DEF Life
    <3> QED  BY <1>2, <1>5, <3>1
  <2>4. /\ clientData'[d] # None <=> object'[d] = "live"
        /\ object'[d] = "closing" <=> waitAdapterMask'[d] # {}
        /\ object'[d] \in {"unborn", "deleted"} => \A a \in Adapter : Forgotten(a, d)'
        /\ object'[d] = "closing" => \A a \in Adapter : a \notin waitAdapterMask'[d] => Forgotten(a, d)'
    BY <1>4, <1>6 DEF Life
  <2> QED  BY <1>4, <2>1, <2>2, <2>3, <2>4 DEF Life
<1>7. ASSUME NEW a \in Adapter, Settles(a, d)
      PROVE  Settles(a, d)'
  <2>1. Wanted(a, d)' = Wanted(a, d)
    BY DEF Wanted
  <2> QED  BY <1>1, <1>2, <1>5, <1>7, <2>1 DEF Settles
<1>8. (\A a \in Adapter : \A i \in Regs(queue, a, d) : queue[i].op = "addClient")
         => (\A a \in Adapter : \A i \in Regs(queue', a, d) : queue'[i].op = "addClient")
  BY <1>1, <1>2, <1>3
<1> QED  BY <1>4, <1>6, <1>7, <1>8

\* What a client waits for stays on the way when messages are appended.
LEMMA WillBeToldKept ==
    ASSUME ApiTypeOK, QueueType, NEW m \in Seq(Message), queue' = queue \o m, UNCHANGED mClientData,
           NEW d \in Client, \A a \in Adapter : Regs(m, a, d) = {},
           UNCHANGED mPendingMsgs, capabilitiesTold \subseteq capabilitiesTold',
           Unloaded, \A a \in interfaces : a \notin known => a \notin known',
           WillBeTold(d)
    PROVE  WillBeTold(d)'
<1>1. \A a \in Adapter : Regs(queue', a, d) = Regs(queue, a, d)
  BY NothingRegistered DEF QueueType
<1>2. \A i \in 1..Len(queue) : i \in 1..Len(queue') /\ queue'[i] = queue[i]
  BY Concatenated DEF QueueType
<1>3. CASE d \in capabilitiesTold
  BY <1>3 DEF WillBeTold
<1>4. ASSUME NEW a \in Adapter, NEW i \in 1..Len(queue), Asks(queue[i], a, d),
             mClientData[a][d] # None \/ \E j \in Regs(queue, a, d) : j < i
      PROVE  WillBeTold(d)'
  BY <1>1, <1>2, <1>4 DEF WillBeTold
<1>5. ASSUME NEW a \in Adapter, a \notin known, mClientData[a][d] # None,
             \E i \in 1..Len(mPendingMsgs[a]) : Asks(mPendingMsgs[a][i], a, d)
      PROVE  WillBeTold(d)'
  <2>1. a \in interfaces
    BY <1>5 DEF Unloaded, Forgotten
  <2> QED  BY <1>5, <2>1 DEF WillBeTold
<1>6. CASE \A a \in Adapter : Forgotten(a, d)
  <2>1. \A a \in Adapter : Forgotten(a, d)'
    BY <1>1, <1>6 DEF Forgotten
  <2> QED  BY <2>1 DEF WillBeTold
<1> QED  BY <1>3, <1>4, <1>5, <1>6 DEF WillBeTold
\* An adapter that gets no registration of c, and from which c wants what it wanted.
LEMMA SettlesKept ==
    ASSUME QueueType, NEW m \in Seq(Message), queue' = queue \o m, UNCHANGED mClientData,
           NEW d \in Client, NEW a \in Adapter, Regs(m, a, d) = {},
           Wanted(a, d)' = Wanted(a, d), Settles(a, d)
    PROVE  Settles(a, d)'
<1>1. Regs(queue', a, d) = Regs(queue, a, d)
  BY NothingRegistered DEF QueueType
<1>2. \A i \in 1..Len(queue) : i \in 1..Len(queue') /\ queue'[i] = queue[i]
  BY Concatenated DEF QueueType
<1>3. \A i \in 1..Len(queue) : LastReg(queue, a, d, i) => LastReg(queue', a, d, i)
  BY <1>1 DEF LastReg
<1> QED  BY <1>1, <1>2, <1>3 DEF Settles

LEMMA QueueGrows ==
    ASSUME QueueType, QueueOK, NEW m \in Seq(Message), queue' = queue \o m,
           interfaces \subseteq interfaces', UNCHANGED mPendingMsgs,
           \A i \in 1..Len(m) : MessageOK(m[i], interfaces')
    PROVE  QueueType' /\ QueueOK'
<1>1. queue' \in Seq(Message)
  BY Concatenated DEF QueueType
<1>2. \A x : MessageOK(x, interfaces) => MessageOK(x, interfaces')
  BY DEF MessageOK
<1>3. ASSUME NEW i \in 1..Len(queue')
      PROVE  MessageOK(queue'[i], interfaces')
  <2>1. CASE i \in 1..Len(queue)
    <3>1. queue'[i] = queue[i] /\ MessageOK(queue[i], interfaces)
      BY <2>1, Concatenated DEF QueueType, QueueOK
    <3> QED  BY <3>1, <1>2
  <2>2. CASE i \notin 1..Len(queue)
    <3>1. PICK j \in 1..Len(m) : i = Len(queue) + j
      BY <2>2, Concatenated DEF QueueType
    <3>2. queue'[i] = m[j]
      BY <3>1, Concatenated DEF QueueType
    <3> QED  BY <3>2
  <2> QED  BY <2>1, <2>2
<1>4. \A a \in Adapter : \A i \in 1..Len(mPendingMsgs'[a]) :
           MessageOK(mPendingMsgs'[a][i], interfaces') /\ mPendingMsgs'[a][i].op \in Deferrable
  BY <1>2 DEF QueueOK
<1> QED  BY <1>1, <1>3, <1>4 DEF QueueType, QueueOK

\* Callbacks are not None.
LEMMA CallbacksAreNotNone == \A cbs \in Callbacks : cbs # None
<1>1. "none" \notin Adapter
  BY DEF Adapter
<1> QED  BY <1>1, LocationApiAssumption DEF None

LEMMA CreateInstanceInv ==
    ASSUME ApiIInv, NEW c \in Client, NEW cbs \in Callbacks, CreateInstance(c, cbs)
    PROVE  ApiParts'
<1> DEFINE A == Adders(cbs)
           m == AddMsgs(c, cbs)
<1>0. ApiTypeOK /\ QueueType /\ QueueOK /\ Unloaded /\ EntriesLoaded
      /\ (\A d \in Client : Life(d)) /\ AllSettle /\ ToldInTime
  BY DEF ApiIInv, ApiParts
<1>1. /\ A \in SUBSET Adapter /\ Sent(m, c, A) /\ m \in Seq(Message)
      /\ \A i \in 1..Len(m) : /\ m[i].op \in {"addClient", "requestCapabilities"}
                              /\ m[i].adapter \in A /\ m[i].client = c /\ m[i].arg = cbs
  BY <1>0, AddsSent DEF Sent
<1>2. A # {} => \E a \in A : 2 \in 1..Len(m) /\ Asks(m[2], a, c) /\ 1 \in Regs(m, a, c)
  BY <1>0, AddsSent
<1>3. /\ interfaces' = Load(cbs) \cup A /\ queue' = queue \o m /\ known' = KnownAfter(interfaces')
      /\ clientData' = [clientData EXCEPT ![c] = cbs] /\ object' = [object EXCEPT ![c] = "live"]
      /\ object[c] = "unborn"
      /\ UNCHANGED <<libraries, waitAdapterMask, mClientData, mPendingMsgs, capabilitiesTold, updates>>
  BY DEF CreateInstance
<1> HIDE DEF A, m
<1>4. /\ interfaces \subseteq interfaces' /\ cbs \cap libraries \subseteq interfaces'
      /\ interfaces' \subseteq libraries /\ cbs \cap interfaces' \subseteq A /\ A \subseteq interfaces'
      /\ A \subseteq cbs \cup {"gnss"} /\ interfaces' \subseteq Adapter
  BY <1>0, <1>1, <1>3, LoadProperties DEF A
<1>5. /\ \A a \in Adapter : Forgotten(a, c)
      /\ waitAdapterMask[c] = {} /\ clientData[c] = None
  BY <1>0, <1>3 DEF Life, ApiTypeOK
<1>6. /\ object'[c] = "live" /\ clientData'[c] = cbs
      /\ \A d \in Client : d # c => object'[d] = object[d] /\ clientData'[d] = clientData[d]
  BY <1>0, <1>3 DEF ApiTypeOK
<1>7. \A a \in Adapter, d \in Client : d # c \/ a \notin A => Regs(m, a, d) = {}
  BY <1>1 DEF Sent
<1>8. QueueType' /\ QueueOK'
  <2>1. \A i \in 1..Len(m) : MessageOK(m[i], interfaces')
    BY <1>1, <1>4 DEF MessageOK
  <2> QED  BY <2>1, <1>0, <1>1, <1>3, <1>4, QueueGrows
<1>9. ASSUME NEW d \in Client, d # c
      PROVE  /\ \A a \in Adapter : Forgotten(a, d) => Forgotten(a, d)'
             /\ Life(d)'
             /\ \A a \in Adapter : Settles(a, d) => Settles(a, d)'
             /\ (\A a \in Adapter : \A i \in Regs(queue, a, d) : queue[i].op = "addClient")
                   => (\A a \in Adapter : \A i \in Regs(queue', a, d) : queue'[i].op = "addClient")
             /\ WillBeTold(d) => WillBeTold(d)'
  <2>1. \A a \in Adapter : Regs(m, a, d) = {}
    BY <1>7, <1>9
  <2>2. object'[d] = object[d] /\ waitAdapterMask'[d] = waitAdapterMask[d] /\ clientData'[d] = clientData[d]
    BY <1>3, <1>6, <1>9
  <2>3. \A a \in interfaces : a \notin known => a \notin known'
    BY <1>0, <1>3, <1>4, KnownProperties
  <2>4. WillBeTold(d) => WillBeTold(d)'
    BY <2>1, <2>3, <1>0, <1>1, <1>3, WillBeToldKept
  <2> QED  BY <2>1, <2>2, <2>4, <1>0, <1>1, <1>3, OthersKept
<1>10. \A a \in Adapter : a \notin A => Forgotten(a, c)'
  <2>1. \A a \in Adapter : a \notin A => Regs(queue', a, c) = Regs(queue, a, c)
    BY <1>0, <1>1, <1>3, <1>7, NothingRegistered DEF QueueType
  <2> QED  BY <2>1, <1>3, <1>5 DEF Forgotten
<1>11. ASSUME NEW a \in Adapter, NEW i \in Regs(queue', a, c)
       PROVE  queue'[i].op = "addClient" /\ queue'[i].arg = cbs
  <2>1. i \in 1..Len(queue') /\ queue'[i].op \in Registrations
    BY DEF Regs
  <2>2. i \notin 1..Len(queue)
    <3>1. SUFFICES ASSUME i \in 1..Len(queue)
                   PROVE  FALSE
      OBVIOUS
    <3>2. queue'[i] = queue[i]
      BY <3>1, <1>0, <1>1, <1>3, Concatenated DEF QueueType
    <3>3. i \in Regs(queue, a, c)
      BY <3>1, <3>2 DEF Regs
    <3> QED  BY <3>3, <1>5 DEF Forgotten
  <2>3. PICK j \in 1..Len(m) : i = Len(queue) + j
    BY <2>1, <2>2, <1>0, <1>1, <1>3, Concatenated DEF QueueType
  <2>4. queue'[i] = m[j]
    BY <2>3, <1>0, <1>1, <1>3, Concatenated DEF QueueType
  <2> QED  BY <2>1, <2>4, <1>1 DEF Registrations
<1>12. Unloaded'
  BY <1>0, <1>4, <1>9, <1>10 DEF Unloaded
<1>13. EntriesLoaded'
  <2> SUFFICES ASSUME NEW d \in Client, clientData'[d] # None
               PROVE  clientData'[d] \cap libraries \subseteq interfaces'
    BY <1>3 DEF EntriesLoaded
  <2> QED  BY <1>0, <1>4, <1>6 DEF EntriesLoaded
<1>14. ASSUME NEW d \in Client
       PROVE  Life(d)'
  <2>1. CASE d = c
    <3>1. clientData'[c] # None /\ waitAdapterMask'[c] = {}
      BY <1>3, <1>5, <1>6, CallbacksAreNotNone
    <3> QED  BY <2>1, <3>1, <1>6, <1>11 DEF Life, Completes
  <2> QED  BY <2>1, <1>9
<1>15. ASSUME NEW d \in Client, clientData'[d] # None, NEW a \in interfaces'
       PROVE  Settles(a, d)'
  <2>0. a \in Adapter /\ a \in libraries
    BY <1>4
  <2>1. CASE d # c /\ a \in interfaces
    BY <2>0, <2>1, <1>0, <1>6, <1>9, <1>15 DEF AllSettle
  <2>2. CASE d # c /\ a \notin interfaces
    <3>1. Forgotten(a, d)'
      BY <2>0, <2>2, <1>0, <1>9 DEF Unloaded
    <3>2. a \notin clientData'[d]
      BY <2>0, <2>2, <1>0, <1>6, <1>15 DEF EntriesLoaded
    <3>3. None \in Wanted(a, d)'
      BY <3>2 DEF Wanted
    <3> QED  BY <3>1, <3>3 DEF Settles, Forgotten
  <2>3. CASE d = c /\ a \in A
    <3>1. PICK k \in 1..Len(m) : Regs(m, a, c) = {k}
      BY <2>3, <1>1 DEF Sent
    <3>2. LastReg(queue', a, c, Len(queue) + k) /\ Len(queue) + k \in 1..Len(queue')
      <4>1. queue \in Seq(Message) /\ m \in Seq(Message) /\ queue' = queue \o m
        BY <1>0, <1>1, <1>3 DEF QueueType
      <4>2. LastReg(queue', a, c, Len(queue) + k)
        BY <3>1, <4>1, LastRegistered
      <4>3. Len(queue) + k \in 1..Len(queue')
        BY <4>1, Concatenated
      <4> QED  BY <4>2, <4>3
    <3>3. queue'[Len(queue) + k].op = "addClient" /\ queue'[Len(queue) + k].arg = cbs
      BY <3>2, <2>0, <1>11 DEF LastReg
    <3>4. cbs \in Wanted(a, c)'
      BY <2>3, <1>4, <1>6 DEF Wanted
    <3> QED  BY <2>3, <3>2, <3>3, <3>4 DEF Settles, Leaves
  <2>4. CASE d = c /\ a \notin A
    <3>1. Forgotten(a, c)' /\ a \notin cbs
      BY <2>0, <2>4, <1>4, <1>10
    <3>2. None \in Wanted(a, c)'
      BY <3>1, <1>6 DEF Wanted
    <3> QED  BY <2>4, <3>1, <3>2 DEF Settles, Forgotten
  <2> QED  BY <2>1, <2>2, <2>3, <2>4
<1>16. WillBeTold(c)'
  <2>1. CASE A = {}
    BY <2>1, <1>10 DEF WillBeTold
  <2>2. CASE A # {}
    <3>1. PICK a \in A : 2 \in 1..Len(m) /\ Asks(m[2], a, c) /\ 1 \in Regs(m, a, c)
      BY <2>2, <1>2
    <3>2. 1 \in 1..Len(m) /\ a \in Adapter /\ Len(queue) \in Nat
      BY <3>1, <1>0, <1>1, Concatenated DEF Regs, QueueType
    <3>3. /\ Len(queue) + 2 \in 1..Len(queue') /\ queue'[Len(queue) + 2] = m[2]
          /\ Len(queue) + 1 \in 1..Len(queue') /\ queue'[Len(queue) + 1] = m[1]
      BY <3>1, <3>2, <1>0, <1>1, <1>3, Concatenated DEF QueueType
    <3>4. Len(queue) + 1 \in Regs(queue', a, c)
      BY <3>1, <3>3 DEF Regs
    <3>5. Asks(queue'[Len(queue) + 2], a, c) /\ Len(queue) + 1 < Len(queue) + 2
      BY <3>1, <3>2, <3>3
    <3> QED  BY <3>2, <3>3, <3>4, <3>5 DEF WillBeTold
  <2> QED  BY <2>1, <2>2
<1>17. ToldInTime'
  <2> SUFFICES ASSUME updates = 0, NEW d \in Client, clientData'[d] # None
               PROVE  /\ WillBeTold(d)'
                      /\ \A a \in Adapter : \A i \in Regs(queue', a, d) : queue'[i].op = "addClient"
    BY <1>3 DEF ToldInTime
  <2>1. CASE d = c
    BY <2>1, <1>11, <1>16
  <2>2. CASE d # c
    BY <2>2, <1>0, <1>6, <1>9 DEF ToldInTime
  <2> QED  BY <2>1, <2>2
<1> QED  BY <1>8, <1>12, <1>13, <1>14, <1>15, <1>17 DEF ApiParts, AllSettle
LEMMA UpdateCallbacksInv ==
    ASSUME ApiIInv, NEW c \in Client, NEW cbs \in Callbacks, UpdateCallbacks(c, cbs)
    PROVE  ApiParts'
<1> DEFINE S == interfaces' \cap (cbs \cup clientData[c])
           m == [i \in 1..Len(InOrder(S)) |->
                    IF InOrder(S)[i] \in cbs THEN Msg("addClient", InOrder(S)[i], c, cbs)
                    ELSE Msg("removeClient", InOrder(S)[i], c, {})]
<1>0. ApiTypeOK /\ QueueType /\ QueueOK /\ Unloaded /\ EntriesLoaded
      /\ (\A d \in Client : Life(d)) /\ AllSettle
  BY DEF ApiIInv, ApiParts
<1>1. /\ interfaces' = Load(cbs) /\ queue' = queue \o m
      /\ clientData' = [clientData EXCEPT ![c] = cbs] /\ clientData[c] # None
      /\ updates' = updates + 1
      /\ UNCHANGED <<libraries, waitAdapterMask, object, mClientData, mPendingMsgs>>
  BY DEF UpdateCallbacks, Each
<1>2. /\ interfaces \subseteq interfaces' /\ cbs \cap libraries \subseteq interfaces'
      /\ interfaces' \subseteq libraries /\ interfaces' \subseteq Adapter
      /\ interfaces' \subseteq interfaces \cup cbs
  BY <1>0, <1>1, LoadProperties
<1>3. S \in SUBSET Adapter
  BY <1>2
<1>4. /\ Sent(m, c, S)
      /\ \A i \in 1..Len(m) : /\ m[i].op \in Registrations
                              /\ m[i].adapter \in S /\ m[i].client = c /\ ~Completes(m[i])
                              /\ m[i].op = "addClient" => m[i].arg = cbs
                              /\ m[i].op = "addClient" <=> m[i].adapter \in cbs
  <2>1. m = [i \in 1..Len(InOrder(S)) |->
                IF InOrder(S)[i] \in cbs THEN Msg("addClient", InOrder(S)[i], c, cbs)
                ELSE Msg("removeClient", InOrder(S)[i], c, {})]
    OBVIOUS
  <2> HIDE DEF m, S
  <2> QED  BY <1>3, <2>1, UpdatesSent
<1> HIDE DEF m
<1>5. m \in Seq(Message) /\ queue \in Seq(Message)
      /\ \A a \in Adapter, d \in Client : d # c \/ a \notin S => Regs(m, a, d) = {}
  BY <1>0, <1>4 DEF Sent, QueueType
<1>6. /\ clientData'[c] = cbs /\ cbs # None
      /\ \A d \in Client : d # c => clientData'[d] = clientData[d]
  BY <1>0, <1>1, CallbacksAreNotNone DEF ApiTypeOK
<1>7. QueueType' /\ QueueOK'
  <2>1. \A i \in 1..Len(m) : MessageOK(m[i], interfaces')
    BY <1>4 DEF MessageOK
  <2> QED  BY <2>1, <1>0, <1>1, <1>2, <1>5, QueueGrows
<1>8. ASSUME NEW d \in Client, d # c
      PROVE  /\ \A a \in Adapter : Forgotten(a, d) => Forgotten(a, d)'
             /\ Life(d)'
             /\ \A a \in Adapter : Settles(a, d) => Settles(a, d)'
  <2>1. \A a \in Adapter : Regs(m, a, d) = {}
    BY <1>5, <1>8
  <2>2. object'[d] = object[d] /\ waitAdapterMask'[d] = waitAdapterMask[d] /\ clientData'[d] = clientData[d]
    BY <1>1, <1>6, <1>8
  <2> QED  BY <2>1, <2>2, <1>0, <1>1, <1>5, OthersKept
<1>9. \A a \in Adapter : a \notin S /\ Forgotten(a, c) => Forgotten(a, c)'
  <2>1. \A a \in Adapter : a \notin S => Regs(queue', a, c) = Regs(queue, a, c)
    BY <1>1, <1>5, NothingRegistered
  <2> QED  BY <2>1, <1>1 DEF Forgotten
<1>10. Unloaded'
  <2> SUFFICES ASSUME NEW d \in Client, NEW a \in Adapter, a \notin interfaces'
               PROVE  Forgotten(a, d)'
    BY DEF Unloaded
  <2>1. Forgotten(a, d) /\ a \notin S
    BY <1>0, <1>2 DEF Unloaded
  <2> QED  BY <2>1, <1>8, <1>9
<1>11. EntriesLoaded'
  <2> SUFFICES ASSUME NEW d \in Client, clientData'[d] # None
               PROVE  clientData'[d] \cap libraries \subseteq interfaces'
    BY <1>1 DEF EntriesLoaded
  <2> QED  BY <1>0, <1>2, <1>6 DEF EntriesLoaded
<1>12. ASSUME NEW d \in Client
       PROVE  Life(d)'
  <2>1. CASE d = c
    <3>1. object[c] = "live" /\ waitAdapterMask[c] = {}
      BY <1>0, <1>1 DEF Life
    <3>2. ASSUME NEW a \in Adapter, NEW i \in Regs(queue', a, c)
          PROVE  ~Completes(queue'[i])
      <4>1. CASE i \in 1..Len(queue)
        <5>1. queue'[i] = queue[i]
          BY <4>1, <1>1, <1>5, Concatenated
        <5>2. i \in Regs(queue, a, c)
          BY <4>1, <5>1 DEF Regs
        <5> QED  BY <5>1, <5>2, <3>1, <1>0 DEF Life
      <4>2. CASE i \notin 1..Len(queue)
        <5>1. PICK j \in 1..Len(m) : i = Len(queue) + j
          BY <4>2, <1>1, <1>5, Concatenated DEF Regs
        <5>2. queue'[i] = m[j]
          BY <5>1, <1>1, <1>5, Concatenated
        <5> QED  BY <5>2, <1>4
      <4> QED  BY <4>1, <4>2
    <3> QED  BY <2>1, <3>1, <3>2, <1>1, <1>6 DEF Life
  <2> QED  BY <2>1, <1>8
<1>13. ASSUME NEW d \in Client, clientData'[d] # None, NEW a \in interfaces'
       PROVE  Settles(a, d)'
  <2>0. a \in Adapter /\ a \in libraries
    BY <1>2
  <2>1. CASE d # c /\ a \in interfaces
    BY <2>0, <2>1, <1>0, <1>6, <1>8, <1>13 DEF AllSettle
  <2>2. CASE d # c /\ a \notin interfaces
    <3>1. Forgotten(a, d)'
      BY <2>0, <2>2, <1>0, <1>8 DEF Unloaded
    <3>2. a \notin clientData'[d]
      BY <2>0, <2>2, <1>0, <1>6, <1>13 DEF EntriesLoaded
    <3>3. None \in Wanted(a, d)'
      BY <3>2 DEF Wanted
    <3> QED  BY <3>1, <3>3 DEF Settles, Forgotten
  <2>3. CASE d = c /\ a \in S
    <3>1. PICK k \in 1..Len(m) : Regs(m, a, c) = {k}
      BY <2>3, <1>4 DEF Sent
    <3>2. /\ LastReg(queue', a, c, Len(queue) + k) /\ Len(queue) + k \in 1..Len(queue')
          /\ queue'[Len(queue) + k] = m[k]
      <4>1. queue' = queue \o m
        BY <1>1
      <4>2. LastReg(queue', a, c, Len(queue) + k)
        BY <3>1, <4>1, <1>5, LastRegistered
      <4>3. Len(queue) + k \in 1..Len(queue') /\ queue'[Len(queue) + k] = m[k]
        BY <4>1, <1>5, Concatenated
      <4> QED  BY <4>2, <4>3
    <3>3. m[k].adapter = a
      BY <3>1 DEF Regs
    <3>4. Leaves(m[k]) \in Wanted(a, c)'
      <4>1. CASE a \in cbs
        <5>1. Leaves(m[k]) = cbs
          BY <3>3, <4>1, <1>4 DEF Leaves
        <5> QED  BY <5>1, <4>1, <1>6 DEF Wanted
      <4>2. CASE a \notin cbs
        <5>1. Leaves(m[k]) = None
          BY <3>3, <4>2, <1>4 DEF Leaves
        <5> QED  BY <5>1, <4>2, <1>6 DEF Wanted
      <4> QED  BY <4>1, <4>2
    <3> QED  BY <2>3, <3>2, <3>4 DEF Settles
  <2>4. CASE d = c /\ a \notin S
    <3>1. a \notin cbs /\ a \notin clientData[c] /\ a \in interfaces
      BY <2>4, <1>2
    <3>2. Settles(a, c) /\ Wanted(a, c)' = Wanted(a, c)
      BY <3>1, <1>0, <1>1, <1>6 DEF AllSettle, Wanted
    <3> QED  BY <2>0, <2>4, <3>2, <1>0, <1>1, <1>5, SettlesKept
  <2> QED  BY <2>1, <2>2, <2>3, <2>4
<1>14. ToldInTime'
  BY <1>0, <1>1 DEF ToldInTime, ApiTypeOK
<1> QED  BY <1>7, <1>10, <1>11, <1>12, <1>13, <1>14 DEF ApiParts, AllSettle

LEMMA DestroyInv ==
    ASSUME ApiIInv, NEW c \in Client, NEW cb \in BOOLEAN, Destroy(c, cb)
    PROVE  ApiParts'
<1> DEFINE m == [i \in 1..Len(InOrder(interfaces)) |->
                    Msg("removeClient", InOrder(interfaces)[i], c, {"complete"})]
<1>0. ApiTypeOK /\ QueueType /\ QueueOK /\ Unloaded /\ EntriesLoaded
      /\ (\A d \in Client : Life(d)) /\ AllSettle /\ ToldInTime
  BY DEF ApiIInv, ApiParts
<1>1. /\ queue' = queue \o m /\ clientData[c] # None
      /\ waitAdapterMask' = [waitAdapterMask EXCEPT ![c] = IF cb THEN interfaces ELSE {}]
      /\ clientData' = [clientData EXCEPT ![c] = None]
      /\ object' = [object EXCEPT ![c] = IF interfaces = {} THEN "deleted"
                                         ELSE IF cb THEN "closing" ELSE "leaked"]
      /\ UNCHANGED <<libraries, interfaces, mClientData, known, mPendingMsgs, capabilitiesTold, updates>>
  BY DEF Destroy, Each, adapters
<1>2. interfaces \in SUBSET Adapter
  BY <1>0, LocationApiAssumption DEF ApiTypeOK
<1>3. Sent(m, c, interfaces) /\ \A i \in 1..Len(m) : m[i].adapter \in interfaces /\ m[i].client = c /\ Completes(m[i])
  <2>1. m = [i \in 1..Len(InOrder(interfaces)) |->
                Msg("removeClient", InOrder(interfaces)[i], c, {"complete"})]
    OBVIOUS
  <2> HIDE DEF m
  <2> QED  BY <1>2, <2>1, RemovalsSent
<1> HIDE DEF m
<1>4. m \in Seq(Message) /\ queue \in Seq(Message)
      /\ \A a \in Adapter, d \in Client : d # c \/ a \notin interfaces => Regs(m, a, d) = {}
  BY <1>0, <1>3 DEF Sent, QueueType
<1>5. /\ clientData'[c] = None
      /\ object'[c] = IF interfaces = {} THEN "deleted" ELSE IF cb THEN "closing" ELSE "leaked"
      /\ waitAdapterMask'[c] = IF cb THEN interfaces ELSE {}
      /\ \A d \in Client : d # c => /\ object'[d] = object[d] /\ clientData'[d] = clientData[d]
                                    /\ waitAdapterMask'[d] = waitAdapterMask[d]
  BY <1>0, <1>1 DEF ApiTypeOK
<1>6. QueueType' /\ QueueOK'
  <2>1. \A i \in 1..Len(m) : MessageOK(m[i], interfaces')
    BY <1>1, <1>3 DEF MessageOK, Completes
  <2> QED  BY <2>1, <1>0, <1>1, <1>4, QueueGrows
<1>7. ASSUME NEW d \in Client, d # c
      PROVE  /\ \A a \in Adapter : Forgotten(a, d) => Forgotten(a, d)'
             /\ Life(d)'
             /\ \A a \in Adapter : Settles(a, d) => Settles(a, d)'
             /\ (\A a \in Adapter : \A i \in Regs(queue, a, d) : queue[i].op = "addClient")
                   => (\A a \in Adapter : \A i \in Regs(queue', a, d) : queue'[i].op = "addClient")
             /\ WillBeTold(d) => WillBeTold(d)'
  <2>1. \A a \in Adapter : Regs(m, a, d) = {}
    BY <1>4, <1>7
  <2>2. object'[d] = object[d] /\ waitAdapterMask'[d] = waitAdapterMask[d] /\ clientData'[d] = clientData[d]
    BY <1>5, <1>7
  <2>3. WillBeTold(d) => WillBeTold(d)'
    BY <2>1, <1>0, <1>1, <1>4, WillBeToldKept
  <2> QED  BY <2>1, <2>2, <2>3, <1>0, <1>1, <1>4, OthersKept
<1>8. \A a \in Adapter : a \notin interfaces => Forgotten(a, c)'
  <2>1. \A a \in Adapter : a \notin interfaces => Regs(queue', a, c) = Regs(queue, a, c)
    BY <1>1, <1>4, NothingRegistered
  <2> QED  BY <2>1, <1>0, <1>1 DEF Unloaded, Forgotten
<1>9. object[c] = "live" /\ \A a \in Adapter : \A i \in Regs(queue, a, c) : ~Completes(queue[i])
  BY <1>0, <1>1 DEF Life
\* The removal of each adapter is its last message about c, and the only one that completes.
<1>10. ASSUME NEW a \in interfaces
       PROVE  \E i \in 1..Len(queue') :
                 /\ LastReg(queue', a, c, i) /\ Completes(queue'[i])
                 /\ \A j \in Regs(queue', a, c) : Completes(queue'[j]) => j = i
  <2>1. PICK k \in 1..Len(m) : Regs(m, a, c) = {k}
    BY <1>3 DEF Sent
  <2>2. /\ LastReg(queue', a, c, Len(queue) + k) /\ Len(queue) + k \in 1..Len(queue')
        /\ queue'[Len(queue) + k] = m[k]
        /\ Regs(queue', a, c) = Regs(queue, a, c) \cup {Len(queue) + k}
        /\ \A i \in Regs(queue, a, c) : queue'[i] = queue[i]
    <3>1. queue' = queue \o m
      BY <1>1
    <3>2. LastReg(queue', a, c, Len(queue) + k)
      BY <2>1, <3>1, <1>4, LastRegistered
    <3>3. Regs(queue', a, c) = Regs(queue, a, c) \cup {Len(queue) + k}
      <4>1. queue \in Seq(Message) /\ m \in Seq(Message)
        BY <1>4
      <4>2. Regs(queue \o m, a, c) = Regs(queue, a, c) \cup {Len(queue) + k}
        BY <2>1, <4>1, OneRegistered
      <4> QED  BY <3>1, <4>2
    <3>4. /\ Len(queue) + k \in 1..Len(queue') /\ queue'[Len(queue) + k] = m[k]
          /\ \A i \in Regs(queue, a, c) : queue'[i] = queue[i]
      BY <3>1, <1>4, Concatenated DEF Regs
    <3> QED  BY <3>2, <3>3, <3>4
  <2>3. \A j \in Regs(queue', a, c) : Completes(queue'[j]) => j = Len(queue) + k
    BY <2>2, <1>2, <1>9
  <2> QED  BY <2>2, <2>3, <1>3
<1>11. Unloaded'
  BY <1>0, <1>1, <1>7, <1>8 DEF Unloaded
<1>12. EntriesLoaded'
  <2> SUFFICES ASSUME NEW d \in Client, clientData'[d] # None
               PROVE  clientData'[d] \cap libraries \subseteq interfaces
    BY <1>1 DEF EntriesLoaded
  <2> QED  BY <1>0, <1>5 DEF EntriesLoaded
<1>13. ASSUME NEW d \in Client
       PROVE  Life(d)'
  <2>1. CASE d = c /\ interfaces = {}
    <3>1. /\ object'[c] = "deleted" /\ waitAdapterMask'[c] = {} /\ clientData'[c] = None
          /\ \A a \in Adapter : Forgotten(a, c)'
      BY <2>1, <1>5, <1>8
    <3> QED  BY <2>1, <3>1 DEF Life
  <2>2. CASE d = c /\ interfaces # {} /\ cb
    <3>1. /\ object'[c] = "closing" /\ waitAdapterMask'[c] = interfaces /\ clientData'[c] = None
      BY <2>2, <1>5
    <3> QED  BY <2>2, <3>1, <1>8, <1>10 DEF Life
  <2>3. CASE d = c /\ interfaces # {} /\ ~cb
    <3>1. /\ object'[c] = "leaked" /\ waitAdapterMask'[c] = {} /\ clientData'[c] = None
      BY <2>3, <1>5
    <3> QED  BY <2>3, <3>1, <1>8, <1>10 DEF Life
  <2> QED  BY <2>1, <2>2, <2>3, <1>7
<1>14. AllSettle'
  <2> SUFFICES ASSUME NEW d \in Client, clientData'[d] # None, NEW a \in interfaces
               PROVE  Settles(a, d)'
    BY <1>1 DEF AllSettle
  <2> QED  BY <1>0, <1>2, <1>5, <1>7 DEF AllSettle
<1>15. ToldInTime'
  <2> SUFFICES ASSUME updates = 0, NEW d \in Client, clientData'[d] # None
               PROVE  /\ WillBeTold(d)'
                      /\ \A a \in Adapter : \A i \in Regs(queue', a, d) : queue'[i].op = "addClient"
    BY <1>1 DEF ToldInTime
  <2> QED  BY <1>0, <1>5, <1>7 DEF ToldInTime
<1> QED  BY <1>6, <1>11, <1>12, <1>13, <1>14, <1>15 DEF ApiParts

LEMMA RequestSessionInv ==
    ASSUME ApiIInv, NEW c \in Client, NEW a \in Adapter, RequestSession(c, a)
    PROVE  ApiParts'
<1> DEFINE m == <<Msg("startSession", a, c, {})>>
<1>0. ApiTypeOK /\ QueueType /\ QueueOK /\ Unloaded /\ EntriesLoaded
      /\ (\A d \in Client : Life(d)) /\ AllSettle /\ ToldInTime
  BY DEF ApiIInv, ApiParts
<1>1. Msg("startSession", a, c, {}) \in Message
  BY DEF Msg, Message, Registrations, Deferrable
<1>2. /\ queue' = queue \o m /\ m \in Seq(Message) /\ queue \in Seq(Message)
      /\ UNCHANGED <<libraries, interfaces, clientData, waitAdapterMask, object, mClientData, known,
                     mPendingMsgs, capabilitiesTold, updates>>
  BY <1>0, <1>1 DEF RequestSession, gData, adapters, QueueType
<1>3. Len(m) = 1 /\ \A i \in 1..Len(m) : m[i].op = "startSession"
  BY DEF Msg
<1> HIDE DEF m
<1>4. \A b \in Adapter, d \in Client : Regs(m, b, d) = {}
  BY <1>3 DEF Regs, Registrations
<1>5. QueueType' /\ QueueOK'
  <2>1. \A i \in 1..Len(m) : MessageOK(m[i], interfaces')
    BY <1>3 DEF MessageOK, Registrations
  <2> QED  BY <2>1, <1>0, <1>2, QueueGrows
<1>6. ASSUME NEW d \in Client
      PROVE  /\ \A b \in Adapter : Forgotten(b, d) => Forgotten(b, d)'
             /\ Life(d)'
             /\ \A b \in Adapter : Settles(b, d) => Settles(b, d)'
             /\ (\A b \in Adapter : \A i \in Regs(queue, b, d) : queue[i].op = "addClient")
                   => (\A b \in Adapter : \A i \in Regs(queue', b, d) : queue'[i].op = "addClient")
             /\ WillBeTold(d) => WillBeTold(d)'
  <2>1. object'[d] = object[d] /\ waitAdapterMask'[d] = waitAdapterMask[d] /\ clientData'[d] = clientData[d]
    BY <1>2
  <2>2. WillBeTold(d) => WillBeTold(d)'
    BY <1>0, <1>2, <1>4, WillBeToldKept
  <2> QED  BY <2>1, <2>2, <1>0, <1>2, <1>4, OthersKept
<1>7. Unloaded' /\ EntriesLoaded' /\ (\A d \in Client : Life(d)') /\ ToldInTime'
  BY <1>0, <1>2, <1>6 DEF Unloaded, EntriesLoaded, ToldInTime
<1>8. AllSettle'
  <2>1. interfaces \subseteq Adapter
    BY <1>0, LocationApiAssumption DEF ApiTypeOK
  <2> QED  BY <2>1, <1>0, <1>2, <1>6 DEF AllSettle
<1> QED  BY <1>5, <1>7, <1>8 DEF ApiParts
LEMMA EngineUpInv ==
    ASSUME ApiIInv, NEW e \in Adapter, EngineUp(e)
    PROVE  ApiParts'
<1> DEFINE m == mPendingMsgs[e]
<1>0. ApiTypeOK /\ QueueType /\ QueueOK /\ Unloaded /\ EntriesLoaded
      /\ (\A d \in Client : Life(d)) /\ AllSettle /\ ToldInTime
  BY DEF ApiIInv, ApiParts
<1>1. /\ queue' = queue \o m /\ m \in Seq(Message) /\ queue \in Seq(Message)
      /\ e \in interfaces \ known /\ known' = known \cup {e}
      /\ capabilitiesTold' = capabilitiesTold \cup {c \in Client : mClientData[e][c] # None}
      /\ mPendingMsgs' = [mPendingMsgs EXCEPT ![e] = <<>>]
      /\ UNCHANGED <<libraries, interfaces, clientData, waitAdapterMask, object, mClientData, updates>>
  BY <1>0 DEF EngineUp, gData, QueueType
<1>2. \A i \in 1..Len(m) : MessageOK(m[i], interfaces) /\ m[i].op \in Deferrable
  BY <1>0 DEF QueueOK
<1>3. \A a \in Adapter : a # e => mPendingMsgs'[a] = mPendingMsgs[a]
  BY <1>0, <1>1 DEF QueueType
<1> HIDE DEF m
<1>4. \A b \in Adapter, d \in Client : Regs(m, b, d) = {}
  BY <1>2 DEF Regs, Registrations, Deferrable
<1>5. QueueType' /\ QueueOK'
  <2>1. queue' \in Seq(Message)
    BY <1>1, Concatenated
  <2>2. mPendingMsgs' \in [Adapter -> Seq(Message)] /\ mPendingMsgs'[e] = <<>>
    BY <1>0, <1>1 DEF QueueType
  <2>3. ASSUME NEW i \in 1..Len(queue')
        PROVE  MessageOK(queue'[i], interfaces)
    <3>1. CASE i \in 1..Len(queue)
      <4>1. queue'[i] = queue[i]
        BY <3>1, <1>1, Concatenated
      <4> QED  BY <4>1, <3>1, <1>0 DEF QueueOK
    <3>2. CASE i \notin 1..Len(queue)
      <4>1. PICK j \in 1..Len(m) : i = Len(queue) + j
        BY <3>2, <1>1, Concatenated
      <4>2. queue'[i] = m[j]
        BY <4>1, <1>1, Concatenated
      <4> QED  BY <4>2, <1>2
    <3> QED  BY <3>1, <3>2
  <2>4. \A a \in Adapter : \A i \in 1..Len(mPendingMsgs'[a]) :
           MessageOK(mPendingMsgs'[a][i], interfaces) /\ mPendingMsgs'[a][i].op \in Deferrable
    <3> TAKE a \in Adapter
    <3>1. CASE a = e
      BY <3>1, <2>2
    <3>2. CASE a # e
      BY <3>2, <1>0, <1>3 DEF QueueOK
    <3> QED  BY <3>1, <3>2
  <2> QED  BY <2>1, <2>2, <2>3, <2>4, <1>1 DEF QueueType, QueueOK
<1>6. ASSUME NEW d \in Client
      PROVE  /\ \A b \in Adapter : Forgotten(b, d) => Forgotten(b, d)'
             /\ Life(d)'
             /\ \A b \in Adapter : Settles(b, d) => Settles(b, d)'
             /\ (\A b \in Adapter : \A i \in Regs(queue, b, d) : queue[i].op = "addClient")
                   => (\A b \in Adapter : \A i \in Regs(queue', b, d) : queue'[i].op = "addClient")
  <2>1. object'[d] = object[d] /\ waitAdapterMask'[d] = waitAdapterMask[d] /\ clientData'[d] = clientData[d]
    BY <1>1
  <2> QED  BY <2>1, <1>0, <1>1, <1>4, OthersKept
<1>7. Unloaded' /\ EntriesLoaded' /\ (\A d \in Client : Life(d)')
  BY <1>0, <1>1, <1>6 DEF Unloaded, EntriesLoaded
<1>8. AllSettle'
  <2>1. interfaces \subseteq Adapter
    BY <1>0, LocationApiAssumption DEF ApiTypeOK
  <2> QED  BY <2>1, <1>0, <1>1, <1>6 DEF AllSettle
<1>9. ASSUME NEW d \in Client, WillBeTold(d)
      PROVE  WillBeTold(d)'
  <2>1. \A a \in Adapter : Regs(queue', a, d) = Regs(queue, a, d)
    BY <1>1, <1>4, NothingRegistered
  <2>2. \A i \in 1..Len(queue) : i \in 1..Len(queue') /\ queue'[i] = queue[i]
    BY <1>1, Concatenated
  <2>3. CASE d \in capabilitiesTold
    BY <2>3, <1>1 DEF WillBeTold
  <2>4. ASSUME NEW a \in Adapter, NEW i \in 1..Len(queue), Asks(queue[i], a, d),
               mClientData[a][d] # None \/ \E j \in Regs(queue, a, d) : j < i
        PROVE  WillBeTold(d)'
    BY <2>1, <2>2, <2>4, <1>1 DEF WillBeTold
  <2>5. ASSUME NEW a \in Adapter, a \notin known, mClientData[a][d] # None,
               \E i \in 1..Len(mPendingMsgs[a]) : Asks(mPendingMsgs[a][i], a, d)
        PROVE  WillBeTold(d)'
    <3>1. CASE a = e
      BY <3>1, <2>5, <1>1 DEF WillBeTold
    <3>2. CASE a # e
      <4>1. a \notin known' /\ mPendingMsgs'[a] = mPendingMsgs[a] /\ mClientData'[a][d] # None
        BY <3>2, <2>5, <1>1, <1>3
      <4> QED  BY <4>1, <2>5 DEF WillBeTold
    <3> QED  BY <3>1, <3>2
  <2>6. CASE \A a \in Adapter : Forgotten(a, d)
    BY <2>6, <1>6 DEF WillBeTold
  <2> QED  BY <1>9, <2>3, <2>4, <2>5, <2>6 DEF WillBeTold
<1>10. ToldInTime'
  <2> SUFFICES ASSUME updates = 0, NEW d \in Client, clientData[d] # None
               PROVE  /\ WillBeTold(d)'
                      /\ \A a \in Adapter : \A i \in Regs(queue', a, d) : queue'[i].op = "addClient"
    BY <1>1 DEF ToldInTime
  <2> QED  BY <1>0, <1>6, <1>9 DEF ToldInTime
<1> QED  BY <1>5, <1>7, <1>8, <1>10 DEF ApiParts

-----------------------------------------------------------------------------
(* Steps that take the first message *)

\* The first message is taken, and the adapter's entry follows it.
TakesOver ==
    /\ queue # <<>> /\ queue' = Tail(queue)
    /\ mClientData' = IF queue[1].op \in Registrations
                      THEN [mClientData EXCEPT ![queue[1].adapter][queue[1].client] = Leaves(queue[1])]
                      ELSE mClientData

LEMMA TakesEntries ==
    ASSUME ApiTypeOK, QueueType, TakesOver, NEW a \in Adapter, NEW c \in Client
    PROVE  mClientData'[a][c] = IF 1 \in Regs(queue, a, c) THEN Leaves(queue[1]) ELSE mClientData[a][c]
<1>1. queue[1] \in Message /\ 1 \in 1..Len(queue)
  BY Taken DEF TakesOver, QueueType
<1>2. 1 \in Regs(queue, a, c) <=>
         queue[1].op \in Registrations /\ queue[1].adapter = a /\ queue[1].client = c
  BY <1>1 DEF Regs
<1> QED  BY <1>1, <1>2 DEF TakesOver, Message, ApiTypeOK

\* What is known of c at a, and what will be, after the message.
LEMMA TakesKeeps ==
    ASSUME ApiTypeOK, QueueType, TakesOver, NEW a \in Adapter, NEW c \in Client
    PROVE  /\ Forgotten(a, c) => Forgotten(a, c)'
           /\ Wanted(a, c)' = Wanted(a, c) /\ Settles(a, c) => Settles(a, c)'
           /\ LastReg(queue, a, c, 1) /\ Leaves(queue[1]) = None => Forgotten(a, c)'
<1>0. queue \in Seq(Message) /\ queue # <<>> /\ queue' = Tail(queue)
  BY DEF QueueType, TakesOver
<1>1. /\ \A i \in Regs(queue', a, c) : i + 1 \in Regs(queue, a, c)
      /\ \A i \in Regs(queue, a, c) : i # 1 => i - 1 \in Regs(queue', a, c)
      /\ \A i : LastReg(queue, a, c, i) /\ i # 1 => LastReg(queue', a, c, i - 1)
  BY <1>0, RegsTaken
<1>2. \A i \in 1..Len(queue) : i # 1 => i - 1 \in 1..Len(queue') /\ queue'[i - 1] = queue[i]
  BY <1>0, Taken
<1>3. mClientData'[a][c] = IF 1 \in Regs(queue, a, c) THEN Leaves(queue[1]) ELSE mClientData[a][c]
  BY TakesEntries
<1>4. Forgotten(a, c) => Forgotten(a, c)'
  BY <1>1, <1>3 DEF Forgotten
<1>5. LastReg(queue, a, c, 1) => Regs(queue', a, c) = {} /\ mClientData'[a][c] = Leaves(queue[1])
  <2>1. ASSUME LastReg(queue, a, c, 1), NEW i \in Regs(queue', a, c)
        PROVE  FALSE
    <3>1. i + 1 <= 1 /\ i \in Nat /\ i # 0
      BY <1>1, <2>1 DEF LastReg, Regs
    <3> QED  BY <3>1
  <2> QED  BY <2>1, <1>3 DEF LastReg
<1>6. ASSUME Wanted(a, c)' = Wanted(a, c), Settles(a, c)
      PROVE  Settles(a, c)'
  <2>1. CASE Regs(queue, a, c) = {} /\ mClientData[a][c] \in Wanted(a, c)
    BY <2>1, <1>1, <1>3, <1>6 DEF Settles
  <2>2. ASSUME NEW i \in 1..Len(queue), LastReg(queue, a, c, i), Leaves(queue[i]) \in Wanted(a, c)
        PROVE  Settles(a, c)'
    <3>1. CASE i = 1
      BY <3>1, <2>2, <1>5, <1>6 DEF Settles
    <3>2. CASE i # 1
      <4>1. i - 1 \in 1..Len(queue') /\ queue'[i - 1] = queue[i] /\ LastReg(queue', a, c, i - 1)
        BY <3>2, <2>2, <1>1, <1>2
      <4>2. Leaves(queue'[i - 1]) \in Wanted(a, c)'
        BY <4>1, <2>2, <1>6
      <4> QED  BY <4>1, <4>2 DEF Settles
    <3> QED  BY <3>1, <3>2
  <2> QED  BY <1>6, <2>1, <2>2 DEF Settles
<1> QED  BY <1>4, <1>5, <1>6 DEF Forgotten

LEMMA QueueShrinks ==
    ASSUME QueueType, QueueOK, TakesOver, UNCHANGED interfaces,
           mPendingMsgs' \in [Adapter -> Seq(Message)],
           \A a \in Adapter : \A i \in 1..Len(mPendingMsgs'[a]) :
               MessageOK(mPendingMsgs'[a][i], interfaces) /\ mPendingMsgs'[a][i].op \in Deferrable
    PROVE  QueueType' /\ QueueOK'
<1>0. queue \in Seq(Message) /\ queue # <<>> /\ queue' = Tail(queue)
  BY DEF QueueType, TakesOver
<1>1. queue' \in Seq(Message) /\ \A i \in 1..Len(queue') : i + 1 \in 1..Len(queue) /\ queue'[i] = queue[i + 1]
  BY <1>0, Taken
<1>2. \A i \in 1..Len(queue') : MessageOK(queue'[i], interfaces)
  BY <1>1 DEF QueueOK
<1> QED  BY <1>1, <1>2 DEF QueueType, QueueOK

\* The life of a client of which no removal completes.
LEMMA LifeKept ==
    ASSUME ApiTypeOK, QueueType, TakesOver, NEW d \in Client, Life(d),
           clientData'[d] = clientData[d], object'[d] = object[d], waitAdapterMask'[d] = waitAdapterMask[d],
           ~(Completes(queue[1]) /\ queue[1].client = d) \/ waitAdapterMask[d] = {}
    PROVE  Life(d)'
<1>0. queue \in Seq(Message) /\ queue # <<>> /\ queue' = Tail(queue)
  BY DEF QueueType, TakesOver
<1>1. \A a \in Adapter :
         /\ \A i \in Regs(queue', a, d) : i + 1 \in Regs(queue, a, d)
         /\ \A i : LastReg(queue, a, d, i) /\ i # 1 => LastReg(queue', a, d, i - 1)
  BY <1>0, RegsTaken
<1>2. /\ \A i \in 1..Len(queue) : i # 1 => i - 1 \in 1..Len(queue') /\ queue'[i - 1] = queue[i]
      /\ \A i \in 1..Len(queue') : i + 1 \in 1..Len(queue) /\ queue'[i] = queue[i + 1]
  BY <1>0, Taken
<1>3. \A a \in Adapter : /\ Forgotten(a, d) => Forgotten(a, d)'
                         /\ LastReg(queue, a, d, 1) /\ Leaves(queue[1]) = None => Forgotten(a, d)'
  BY TakesKeeps
<1>4. \A a \in Adapter : \A i \in Regs(queue', a, d) : i \in 1..Len(queue')
  BY DEF Regs
<1>5. ASSUME object[d] = "live", NEW a \in Adapter, NEW i \in Regs(queue', a, d)
      PROVE  ~Completes(queue'[i])
  <2>1. i + 1 \in Regs(queue, a, d) /\ queue'[i] = queue[i + 1]
    BY <1>1, <1>2, <1>4
  <2> QED  BY <2>1, <1>5 DEF Life
<1>6. ASSUME object[d] = "closing", NEW a \in Adapter, a \in waitAdapterMask[d]
      PROVE  \E i \in 1..Len(queue') :
                /\ LastReg(queue', a, d, i) /\ Completes(queue'[i])
                /\ \A j \in Regs(queue', a, d) : Completes(queue'[j]) => j = i
  <2>1. PICK i \in 1..Len(queue) :
                /\ LastReg(queue, a, d, i) /\ Completes(queue[i])
                /\ \A j \in Regs(queue, a, d) : Completes(queue[j]) => j = i
    BY <1>6 DEF Life
  <2>2. i # 1
    BY <2>1, <1>6 DEF LastReg, Regs
  <2>3. i - 1 \in 1..Len(queue') /\ queue'[i - 1] = queue[i] /\ LastReg(queue', a, d, i - 1)
    BY <2>1, <2>2, <1>1, <1>2
  <2>4. ASSUME NEW j \in Regs(queue', a, d), Completes(queue'[j])
        PROVE  j = i - 1
    <3>1. j + 1 \in Regs(queue, a, d) /\ queue'[j] = queue[j + 1] /\ j \in Nat
      BY <1>1, <1>2, <1>4
    <3>2. j + 1 = i
      BY <3>1, <2>1, <2>4
    <3> QED  BY <3>1, <3>2
  <2> QED  BY <2>1, <2>3, <2>4
<1>7. ASSUME object[d] = "leaked", NEW a \in Adapter, ~Forgotten(a, d)'
      PROVE  \E i \in 1..Len(queue') : LastReg(queue', a, d, i) /\ Completes(queue'[i])
  <2>1. PICK i \in 1..Len(queue) : LastReg(queue, a, d, i) /\ Completes(queue[i])
    BY <1>3, <1>7 DEF Life
  <2>2. i # 1
    BY <2>1, <1>3, <1>7 DEF Completes, Leaves
  <2> QED  BY <2>1, <2>2, <1>1, <1>2
<1>8. /\ clientData'[d] # None <=> object'[d] = "live"
      /\ object'[d] = "closing" <=> waitAdapterMask'[d] # {}
      /\ object'[d] \in {"unborn", "deleted"} => \A a \in Adapter : Forgotten(a, d)'
      /\ object'[d] = "closing" => \A a \in Adapter : a \notin waitAdapterMask'[d] => Forgotten(a, d)'
  BY <1>3 DEF Life
<1> QED  BY <1>5, <1>6, <1>7, <1>8 DEF Life

\* What a client waits for stays on the way.
LEMMA StillWillBeTold ==
    ASSUME ApiTypeOK, QueueType, QueueOK, TakesOver, NEW d \in Client, WillBeTold(d),
           UNCHANGED known, capabilitiesTold \subseteq capabilitiesTold',
           \A a \in Adapter : \A i \in Regs(queue, a, d) : queue[i].op = "addClient",
           \A a \in Adapter : \A x : (\E i \in 1..Len(mPendingMsgs[a]) : mPendingMsgs[a][i] = x)
                                        => \E i \in 1..Len(mPendingMsgs'[a]) : mPendingMsgs'[a][i] = x,
           \A a \in Adapter : Asks(queue[1], a, d) /\ mClientData[a][d] # None =>
               \/ d \in capabilitiesTold'
               \/ a \notin known /\ \E i \in 1..Len(mPendingMsgs'[a]) : Asks(mPendingMsgs'[a][i], a, d)
    PROVE  /\ WillBeTold(d)'
           /\ \A a \in Adapter : \A i \in Regs(queue', a, d) : queue'[i].op = "addClient"
<1>0. queue \in Seq(Message) /\ queue # <<>> /\ queue' = Tail(queue)
  BY DEF QueueType, TakesOver
<1>1. \A a \in Adapter :
         /\ \A i \in Regs(queue', a, d) : i + 1 \in Regs(queue, a, d)
         /\ \A i \in Regs(queue, a, d) : i # 1 => i - 1 \in Regs(queue', a, d)
  BY <1>0, RegsTaken
<1>2. /\ \A i \in 1..Len(queue) : i # 1 => i - 1 \in 1..Len(queue') /\ queue'[i - 1] = queue[i]
      /\ \A i \in 1..Len(queue') : i + 1 \in 1..Len(queue) /\ queue'[i] = queue[i + 1]
  BY <1>0, Taken
<1>3. \A a \in Adapter : Forgotten(a, d) => Forgotten(a, d)'
  BY TakesKeeps
<1>4. \A a \in Adapter : 1 \in Regs(queue, a, d) => Leaves(queue[1]) # None
  <2> SUFFICES ASSUME NEW a \in Adapter, 1 \in Regs(queue, a, d)
               PROVE  Leaves(queue[1]) # None
    OBVIOUS
  <2>1. queue[1].op = "addClient" /\ 1 \in 1..Len(queue)
    BY DEF Regs
  <2>2. queue[1].arg \in Callbacks
    BY <2>1 DEF QueueOK, MessageOK
  <2> QED  BY <2>1, <2>2, CallbacksAreNotNone DEF Leaves
<1>5. \A a \in Adapter : mClientData[a][d] # None \/ 1 \in Regs(queue, a, d) => mClientData'[a][d] # None
  BY <1>4, TakesEntries
<1>6. ASSUME d \in capabilitiesTold
      PROVE  WillBeTold(d)'
  BY <1>6 DEF WillBeTold
<1>7. ASSUME NEW a \in Adapter, NEW i \in 1..Len(queue), Asks(queue[i], a, d),
             mClientData[a][d] # None \/ \E j \in Regs(queue, a, d) : j < i
      PROVE  WillBeTold(d)'
  <2>1. CASE i = 1
    <3>1. mClientData[a][d] # None
      BY <2>1, <1>7 DEF Regs
    <3> QED  BY <2>1, <3>1, <1>5, <1>7 DEF WillBeTold
  <2>2. CASE i # 1
    <3>1. i - 1 \in 1..Len(queue') /\ queue'[i - 1] = queue[i]
      BY <2>2, <1>2
    <3>2. mClientData'[a][d] # None \/ \E j \in Regs(queue', a, d) : j < i - 1
      <4>1. SUFFICES ASSUME mClientData'[a][d] = None
                     PROVE  \E j \in Regs(queue', a, d) : j < i - 1
        OBVIOUS
      <4>2. PICK j \in Regs(queue, a, d) : j < i
        BY <4>1, <1>5, <1>7
      <4>3. j # 1 /\ j \in Nat
        BY <4>1, <4>2, <1>5 DEF Regs
      <4>4. j - 1 \in Regs(queue', a, d) /\ j - 1 < i - 1
        BY <4>2, <4>3, <1>1
      <4> QED  BY <4>4
    <3> QED  BY <3>1, <3>2, <1>7 DEF WillBeTold
  <2> QED  BY <2>1, <2>2
<1>8. ASSUME NEW a \in Adapter, a \notin known, mClientData[a][d] # None,
             NEW i \in 1..Len(mPendingMsgs[a]), Asks(mPendingMsgs[a][i], a, d)
      PROVE  WillBeTold(d)'
  <2>1. PICK j \in 1..Len(mPendingMsgs'[a]) : mPendingMsgs'[a][j] = mPendingMsgs[a][i]
    OBVIOUS
  <2>2. Asks(mPendingMsgs'[a][j], a, d) /\ mClientData'[a][d] # None /\ a \notin known'
    BY <2>1, <1>5, <1>8
  <2> QED  BY <2>2 DEF WillBeTold
<1>9. ASSUME \A a \in Adapter : Forgotten(a, d)
      PROVE  WillBeTold(d)'
  BY <1>3, <1>9 DEF WillBeTold
<1>10. WillBeTold(d)'
  BY <1>6, <1>7, <1>8, <1>9 DEF WillBeTold
<1>11. ASSUME NEW a \in Adapter, NEW i \in Regs(queue', a, d)
       PROVE  queue'[i].op = "addClient"
  <2>1. i + 1 \in Regs(queue, a, d) /\ queue'[i] = queue[i + 1]
    BY <1>1, <1>2 DEF Regs
  <2> QED  BY <2>1
<1> QED  BY <1>10, <1>11
\* What the three handlers share: the parts that do not depend on the life of the object.
LEMMA HandlerKeeps ==
    ASSUME ApiIInv, TakesOver,
           UNCHANGED <<libraries, interfaces, clientData, known, updates>>,
           mPendingMsgs' \in [Adapter -> Seq(Message)],
           \A a \in Adapter : \A i \in 1..Len(mPendingMsgs'[a]) :
               MessageOK(mPendingMsgs'[a][i], interfaces) /\ mPendingMsgs'[a][i].op \in Deferrable,
           \A a \in Adapter : \A x : (\E i \in 1..Len(mPendingMsgs[a]) : mPendingMsgs[a][i] = x)
                                        => \E i \in 1..Len(mPendingMsgs'[a]) : mPendingMsgs'[a][i] = x,
           capabilitiesTold \subseteq capabilitiesTold',
           \A a \in Adapter, d \in Client :
               Asks(queue[1], a, d) /\ mClientData[a][d] # None =>
                   \/ d \in capabilitiesTold'
                   \/ a \notin known /\ \E i \in 1..Len(mPendingMsgs'[a]) : Asks(mPendingMsgs'[a][i], a, d)
    PROVE  QueueType' /\ QueueOK' /\ Unloaded' /\ EntriesLoaded' /\ AllSettle' /\ ToldInTime'
<1>0. ApiTypeOK /\ QueueType /\ QueueOK /\ Unloaded /\ EntriesLoaded /\ AllSettle /\ ToldInTime
  BY DEF ApiIInv, ApiParts
<1>1. QueueType' /\ QueueOK'
  BY <1>0, QueueShrinks
<1>2. Unloaded' /\ EntriesLoaded'
  BY <1>0, TakesKeeps DEF Unloaded, EntriesLoaded
<1>3. AllSettle'
  <2>1. interfaces \subseteq Adapter
    BY <1>0, LocationApiAssumption DEF ApiTypeOK
  <2> SUFFICES ASSUME NEW d \in Client, clientData[d] # None, NEW a \in interfaces
               PROVE  Settles(a, d)'
    BY DEF AllSettle
  <2>2. Wanted(a, d)' = Wanted(a, d)
    BY DEF Wanted
  <2>3. Settles(a, d)
    BY <1>0 DEF AllSettle
  <2> QED  BY <2>1, <2>2, <2>3, <1>0, TakesKeeps
<1>4. ToldInTime'
  <2> SUFFICES ASSUME updates = 0, NEW d \in Client, clientData[d] # None
               PROVE  /\ WillBeTold(d)'
                      /\ \A a \in Adapter : \A i \in Regs(queue', a, d) : queue'[i].op = "addClient"
    BY DEF ToldInTime
  <2>1. WillBeTold(d) /\ \A a \in Adapter : \A i \in Regs(queue, a, d) : queue[i].op = "addClient"
    BY <1>0 DEF ToldInTime
  <2> QED  BY <2>1, <1>0, StillWillBeTold
<1> QED  BY <1>1, <1>2, <1>3, <1>4

LEMMA ProcAddClientInv == ASSUME ApiIInv, ProcAddClient
                          PROVE  ApiParts'
<1>0. ApiTypeOK /\ QueueType /\ QueueOK /\ \A d \in Client : Life(d)
  BY DEF ApiIInv, ApiParts
<1>1. /\ queue # <<>> /\ queue' = Tail(queue) /\ Head(queue) = queue[1] /\ queue[1].op = "addClient"
      /\ UNCHANGED <<libraries, interfaces, clientData, waitAdapterMask, object, known, mPendingMsgs,
                     capabilitiesTold, updates>>
  BY <1>0, Taken DEF ProcAddClient, HeadIs, gData, QueueType
<1>2. TakesOver
  BY <1>1 DEF TakesOver, ProcAddClient, Leaves, Registrations
<1>3. \A a \in Adapter, d \in Client : ~Asks(queue[1], a, d)
  BY <1>1 DEF Asks
<1>4. QueueType' /\ QueueOK' /\ Unloaded' /\ EntriesLoaded' /\ AllSettle' /\ ToldInTime'
  BY <1>0, <1>1, <1>2, <1>3, HandlerKeeps DEF QueueType, QueueOK
<1>5. ASSUME NEW d \in Client
      PROVE  Life(d)'
  BY <1>0, <1>1, <1>2, LifeKept DEF Completes
<1> QED  BY <1>4, <1>5 DEF ApiParts

LEMMA ProcDeferrableInv == ASSUME ApiIInv, ProcDeferrable
                           PROVE  ApiParts'
<1> DEFINE m == queue[1]
<1>0. ApiTypeOK /\ QueueType /\ QueueOK /\ \A d \in Client : Life(d)
  BY DEF ApiIInv, ApiParts
<1>1. /\ queue # <<>> /\ queue' = Tail(queue) /\ Head(queue) = m /\ m \in Message /\ 1 \in 1..Len(queue)
      /\ m.op \in {"requestCapabilities", "startSession"}
      /\ UNCHANGED <<libraries, interfaces, clientData, waitAdapterMask, object, mClientData, known, updates>>
  BY <1>0, Taken DEF ProcDeferrable, gData, QueueType
<1>2. TakesOver
  BY <1>1 DEF TakesOver, Registrations
<1>3. m.adapter \in Adapter /\ m.client \in Client /\ MessageOK(m, interfaces) /\ m.op \in Deferrable
  BY <1>0, <1>1 DEF QueueOK, Message, Deferrable
<1>4. CASE m.adapter \notin known
  <2>1. mPendingMsgs' = [mPendingMsgs EXCEPT ![m.adapter] = Append(@, m)] /\ UNCHANGED capabilitiesTold
    BY <1>1, <1>4 DEF ProcDeferrable
  <2> HIDE DEF m
  <2>2. /\ mPendingMsgs' \in [Adapter -> Seq(Message)]
        /\ mPendingMsgs'[m.adapter] = Append(mPendingMsgs[m.adapter], m)
        /\ \A a \in Adapter : a # m.adapter => mPendingMsgs'[a] = mPendingMsgs[a]
    BY <2>1, <1>0, <1>1, <1>3 DEF QueueType
  <2> DEFINE p == mPendingMsgs[m.adapter]
             r == mPendingMsgs'[m.adapter]
  <2>3. /\ Len(p) + 1 \in 1..Len(r) /\ r[Len(p) + 1] = m
        /\ \A i \in 1..Len(p) : i \in 1..Len(r) /\ r[i] = p[i]
        /\ \A i \in 1..Len(r) : i \in 1..Len(p) \/ i = Len(p) + 1
    <3>1. p \in Seq(Message) /\ m \in Message /\ r = Append(p, m)
      BY <2>2, <1>0, <1>1, <1>3 DEF QueueType
    <3> HIDE DEF p, r
    <3> QED  BY <3>1, Appended
  <2>4. \A a \in Adapter : \A i \in 1..Len(mPendingMsgs'[a]) :
            MessageOK(mPendingMsgs'[a][i], interfaces) /\ mPendingMsgs'[a][i].op \in Deferrable
    <3> TAKE a \in Adapter
    <3>1. CASE a = m.adapter
      BY <3>1, <2>3, <1>0, <1>3 DEF QueueOK
    <3>2. CASE a # m.adapter
      BY <3>2, <2>2, <1>0 DEF QueueOK
    <3> QED  BY <3>1, <3>2
  <2>5. \A a \in Adapter : \A x : (\E i \in 1..Len(mPendingMsgs[a]) : mPendingMsgs[a][i] = x)
                                      => \E i \in 1..Len(mPendingMsgs'[a]) : mPendingMsgs'[a][i] = x
    <3> TAKE a \in Adapter
    <3>1. CASE a = m.adapter
      BY <3>1, <2>3
    <3>2. CASE a # m.adapter
      BY <3>2, <2>2
    <3> QED  BY <3>1, <3>2
  <2>6. \A a \in Adapter, d \in Client : Asks(m, a, d) =>
            a \notin known /\ \E i \in 1..Len(mPendingMsgs'[a]) : Asks(mPendingMsgs'[a][i], a, d)
    <3> SUFFICES ASSUME NEW a \in Adapter, NEW d \in Client, Asks(m, a, d)
                 PROVE  a \notin known /\ \E i \in 1..Len(mPendingMsgs'[a]) : Asks(mPendingMsgs'[a][i], a, d)
      OBVIOUS
    <3>1. a = m.adapter
      BY DEF Asks
    <3>2. Len(mPendingMsgs[a]) + 1 \in 1..Len(mPendingMsgs'[a])
      BY <3>1, <2>3
    <3> QED  BY <3>1, <3>2, <2>3, <1>4
  <2>7. QueueType' /\ QueueOK' /\ Unloaded' /\ EntriesLoaded' /\ AllSettle' /\ ToldInTime'
    BY <1>1, <1>2, <2>1, <2>2, <2>4, <2>5, <2>6, HandlerKeeps DEF m
  <2>8. ASSUME NEW d \in Client
        PROVE  Life(d)'
    BY <1>0, <1>1, <1>2, LifeKept DEF Completes, m
  <2> QED  BY <2>7, <2>8 DEF ApiParts
<1>5. CASE m.adapter \in known
  <2>1. /\ UNCHANGED mPendingMsgs
        /\ capabilitiesTold' = capabilitiesTold \cup
              {c \in {m.client} : m.op = "requestCapabilities" /\ mClientData[m.adapter][c] # None}
    BY <1>1, <1>5 DEF ProcDeferrable
  <2>2. \A a \in Adapter, d \in Client : Asks(m, a, d) /\ mClientData[a][d] # None => d \in capabilitiesTold'
    BY <2>1 DEF Asks
  <2>3. capabilitiesTold \subseteq capabilitiesTold'
    BY <2>1
  <2> HIDE DEF m
  <2>4. QueueType' /\ QueueOK' /\ Unloaded' /\ EntriesLoaded' /\ AllSettle' /\ ToldInTime'
    BY <1>0, <1>1, <1>2, <2>1, <2>2, <2>3, HandlerKeeps DEF m, QueueType, QueueOK
  <2>5. ASSUME NEW d \in Client
        PROVE  Life(d)'
    BY <1>0, <1>1, <1>2, LifeKept DEF Completes, m
  <2> QED  BY <2>4, <2>5 DEF ApiParts
<1> QED  BY <1>4, <1>5

LEMMA ProcRemoveClientInv == ASSUME ApiIInv, ProcRemoveClient
                             PROVE  ApiParts'
<1>0. ApiTypeOK /\ QueueType /\ QueueOK /\ \A d \in Client : Life(d)
  BY DEF ApiIInv, ApiParts
<1>1. /\ queue # <<>> /\ queue' = Tail(queue) /\ Head(queue) = queue[1] /\ queue[1].op = "removeClient"
      /\ queue[1] \in Message /\ 1 \in 1..Len(queue)
      /\ UNCHANGED <<libraries, interfaces, clientData, known, mPendingMsgs, capabilitiesTold, updates>>
  BY <1>0, Taken DEF ProcRemoveClient, HeadIs, QueueType
<1>2. TakesOver
  BY <1>1 DEF TakesOver, ProcRemoveClient, Leaves, Registrations
<1>3. \A a \in Adapter, d \in Client : ~Asks(queue[1], a, d)
  BY <1>1 DEF Asks
<1>4. QueueType' /\ QueueOK' /\ Unloaded' /\ EntriesLoaded' /\ AllSettle' /\ ToldInTime'
  BY <1>0, <1>1, <1>2, <1>3, HandlerKeeps DEF QueueType, QueueOK
<1>5. PICK c \in Client, b \in Adapter :
         c = queue[1].client /\ b = queue[1].adapter /\ 1 \in Regs(queue, b, c)
  BY <1>1 DEF Message, Regs, Registrations
<1>6. IF Completes(queue[1]) THEN OnRemoveClientCompleteCb(c, b)
      ELSE UNCHANGED <<waitAdapterMask, object, completed>>
  BY <1>1, <1>5 DEF ProcRemoveClient, Completes
<1>7. CASE ~Completes(queue[1]) \/ waitAdapterMask[c] = {}
  <2>1. UNCHANGED <<waitAdapterMask, object>>
    BY <1>6, <1>7 DEF OnRemoveClientCompleteCb
  <2>2. ASSUME NEW d \in Client
        PROVE  Life(d)'
    <3>1. ~(Completes(queue[1]) /\ queue[1].client = d) \/ waitAdapterMask[d] = {}
      BY <1>5, <1>7
    <3> QED  BY <3>1, <2>1, <1>0, <1>1, <1>2, LifeKept
  <2> QED  BY <2>2, <1>4 DEF ApiParts
<1>8. CASE Completes(queue[1]) /\ waitAdapterMask[c] # {}
  <2> DEFINE left == waitAdapterMask[c] \ {b}
  <2>1. /\ waitAdapterMask' = [waitAdapterMask EXCEPT ![c] = left]
        /\ object' = [object EXCEPT ![c] = IF left = {} THEN "deleted" ELSE @]
    BY <1>6, <1>8 DEF OnRemoveClientCompleteCb
  <2>2. Life(c) /\ object[c] = "closing"
    BY <1>0, <1>5, <1>8 DEF Life
  <2>3. /\ waitAdapterMask'[c] = left /\ object'[c] = (IF left = {} THEN "deleted" ELSE "closing")
        /\ clientData'[c] = None
        /\ \A d \in Client : d # c => waitAdapterMask'[d] = waitAdapterMask[d] /\ object'[d] = object[d]
    BY <2>1, <2>2, <1>0, <1>1, <1>5 DEF ApiTypeOK, Life
  <2>4. b \in waitAdapterMask[c]
    BY <2>2, <1>5 DEF Life, Forgotten
  \* The removal that is handled is the one that adapter b was asked for.
  <2>5. Forgotten(b, c)'
    <3>1. PICK i \in 1..Len(queue) :
             /\ LastReg(queue, b, c, i) /\ Completes(queue[i])
             /\ \A j \in Regs(queue, b, c) : Completes(queue[j]) => j = i
      BY <2>2, <2>4, <1>5 DEF Life
    <3>2. i = 1
      BY <3>1, <1>5, <1>8
    <3>3. LastReg(queue, b, c, 1) /\ Leaves(queue[1]) = None
      BY <3>1, <3>2, <1>1 DEF Leaves
    <3> QED  BY <3>3, <1>0, <1>2, <1>5, TakesKeeps
  <2>6. \A a \in Adapter : a \notin left => Forgotten(a, c)'
    <3>1. \A a \in Adapter : a \notin waitAdapterMask[c] => Forgotten(a, c)'
      BY <2>2, <1>0, <1>2, <1>5, TakesKeeps DEF Life
    <3> QED  BY <3>1, <2>5
  <2>7. ASSUME NEW a \in Adapter, a \in left
        PROVE  \E i \in 1..Len(queue') :
                  /\ LastReg(queue', a, c, i) /\ Completes(queue'[i])
                  /\ \A j \in Regs(queue', a, c) : Completes(queue'[j]) => j = i
    <3>0. queue \in Seq(Message) /\ a # b /\ a \in waitAdapterMask[c]
      BY <1>0, <2>7 DEF QueueType
    <3>1. PICK i \in 1..Len(queue) :
                  /\ LastReg(queue, a, c, i) /\ Completes(queue[i])
                  /\ \A j \in Regs(queue, a, c) : Completes(queue[j]) => j = i
      BY <3>0, <2>2 DEF Life
    <3>2. i # 1
      BY <3>0, <3>1, <1>5 DEF LastReg, Regs
    <3>3. i - 1 \in 1..Len(queue') /\ queue'[i - 1] = queue[i] /\ LastReg(queue', a, c, i - 1)
      <4>1. i - 1 \in 1..Len(queue') /\ queue'[i - 1] = queue[i]
        BY <3>0, <3>2, <1>1, Taken
      <4>2. LastReg(queue', a, c, i - 1)
        BY <3>0, <3>1, <3>2, <1>1, RegsTaken
      <4> QED  BY <4>1, <4>2
    <3>4. ASSUME NEW j \in Regs(queue', a, c), Completes(queue'[j])
          PROVE  j = i - 1
      <4>1. j + 1 \in Regs(queue, a, c) /\ queue'[j] = queue[j + 1] /\ j \in Nat
        BY <3>0, <1>1, Taken, RegsTaken DEF Regs
      <4>2. j + 1 = i
        BY <4>1, <3>1, <3>4
      <4> QED  BY <4>1, <4>2
    <3> QED  BY <3>1, <3>3, <3>4
  <2>8. Life(c)'
    <3>1. CASE left = {}
      BY <3>1, <2>3, <2>6 DEF Life
    <3>2. CASE left # {}
      BY <3>2, <2>3, <2>6, <2>7 DEF Life
    <3> QED  BY <3>1, <3>2
  <2>9. ASSUME NEW d \in Client, d # c
        PROVE  Life(d)'
    <3>1. ~(Completes(queue[1]) /\ queue[1].client = d)
      BY <2>9, <1>5
    <3> QED  BY <3>1, <2>3, <2>9, <1>0, <1>1, <1>2, LifeKept
  <2> QED  BY <2>8, <2>9, <1>4 DEF ApiParts
<1> QED  BY <1>7, <1>8

-----------------------------------------------------------------------------
(* The invariant *)

LEMMA ApiInitInv == ApiInit => ApiIInv
<1> SUFFICES ASSUME ApiInit
             PROVE  ApiIInv
  OBVIOUS
<1>1. ApiTypeOK
  BY LocationApiAssumption DEF ApiInit, ApiTypeOK
<1>2. QueueType /\ QueueOK
  BY DEF ApiInit, QueueType, QueueOK
<1>3. \A a \in Adapter, c \in Client : Forgotten(a, c)
  BY DEF ApiInit, Forgotten, Regs
<1>4. Unloaded /\ EntriesLoaded /\ (\A c \in Client : Life(c)) /\ AllSettle /\ ToldInTime
  BY <1>3 DEF ApiInit, Unloaded, EntriesLoaded, Life, AllSettle, ToldInTime
<1> QED  BY <1>1, <1>2, <1>4 DEF ApiIInv, ApiParts

\* Nothing but the queue and the data of clients and adapters matters.
LEMMA ApiStutterInv == ASSUME ApiIInv, UNCHANGED apiVars
                       PROVE  ApiIInv'
<1>1. /\ \A a \in Adapter, c \in Client : Forgotten(a, c)' = Forgotten(a, c)
      /\ \A a \in Adapter, c \in Client : Wanted(a, c)' = Wanted(a, c)
  BY DEF apiVars, gData, adapters, Forgotten, Wanted
<1>2. ApiTypeOK' /\ QueueType' /\ QueueOK' /\ Unloaded' /\ EntriesLoaded'
  BY <1>1 DEF ApiIInv, ApiParts, apiVars, gData, adapters, ApiTypeOK, QueueType, QueueOK, Unloaded, EntriesLoaded
<1>3. \A c \in Client : Life(c)'
  BY <1>1 DEF ApiIInv, ApiParts, apiVars, gData, adapters, Life
<1>4. AllSettle'
  <2>1. \A a \in Adapter, c \in Client : Settles(a, c)' = Settles(a, c)
    BY <1>1 DEF apiVars, gData, adapters, Settles
  <2>2. interfaces \subseteq Adapter
    BY LocationApiAssumption DEF ApiIInv, ApiTypeOK
  <2> QED  BY <2>1, <2>2 DEF ApiIInv, ApiParts, apiVars, gData, adapters, AllSettle
<1>5. ToldInTime'
  <2>1. \A c \in Client : WillBeTold(c)' = WillBeTold(c)
    BY <1>1 DEF apiVars, gData, adapters, WillBeTold
  <2> QED  BY <2>1 DEF ApiIInv, ApiParts, apiVars, gData, adapters, ToldInTime
<1> QED  BY <1>2, <1>3, <1>4, <1>5 DEF ApiIInv, ApiParts

LEMMA ApiStepInv == ApiIInv /\ [ApiNext]_apiVars => ApiIInv'
<1> SUFFICES ASSUME ApiIInv, [ApiNext]_apiVars
             PROVE  ApiIInv'
  OBVIOUS
<1>1. ApiTypeOK'
  BY ApiTypeStep DEF ApiIInv, ApiParts
<1>2. CASE UNCHANGED apiVars
  BY <1>2, ApiStutterInv
<1>3. ASSUME ApiNext
      PROVE  ApiParts'
  <2>1. ASSUME NEW c \in Client, ClientCalls(c)
        PROVE  ApiParts'
    BY <2>1, CreateInstanceInv, UpdateCallbacksInv, DestroyInv, RequestSessionInv DEF ClientCalls
  <2> QED  BY <2>1, <1>3, EngineUpInv, ProcAddClientInv, ProcRemoveClientInv, ProcDeferrableInv
           DEF ApiNext, Proc
<1> QED  BY <1>1, <1>2, <1>3 DEF ApiIInv

\* A deleted LocationAPI object is known to no adapter, and no message about it is left
\* that would call into it or register it, for any clients and callbacks: destroy waits for
\* the last removal of every adapter that ever saw the client.
THEOREM DeletedIsForgotten == ApiSpec => []DeadAreForgotten
<1>1. ApiIInv => DeadAreForgotten
  <2> SUFFICES ASSUME ApiIInv, NEW c \in Client, object[c] = "deleted"
               PROVE  /\ \A a \in Adapter : mClientData[a][c] = None
                      /\ ~Queued(c, Registrations)
    BY DEF DeadAreForgotten, Registrations
  <2>1. \A a \in Adapter : Forgotten(a, c)
    BY DEF ApiIInv, ApiParts, Life
  <2>2. ASSUME NEW i \in 1..Len(queue), queue[i].client = c, queue[i].op \in Registrations
        PROVE  FALSE
    <3>1. queue[i].adapter \in Adapter
      <4>1. queue \in Seq(Message)
        BY DEF ApiIInv, ApiParts, QueueType
      <4>2. queue[i] \in Message
        BY <4>1, ElementOfSeq
      <4> QED  BY <4>2 DEF Message
    <3>2. i \in Regs(queue, queue[i].adapter, c)
      BY <2>2 DEF Regs
    <3> QED  BY <3>1, <3>2, <2>1 DEF Forgotten
  <2> QED  BY <2>1, <2>2 DEF Forgotten, Queued
<1> QED  BY <1>1, ApiInitInv, ApiStepInv, PTL DEF ApiSpec

\* Adapters work with the callbacks that a client set last, and a client whose adapters know
\* the capabilities was told them, for any clients and callbacks: adds and removals reach
\* each adapter in the order of the calls, and a request that came early is sent again.
THEOREM ClientsAreServed == ApiSpec => []ClientServed
<1>1. ApiIInv => AdaptersFollowCallbacks
  <2> SUFFICES ASSUME ApiIInv, NEW c \in Client, clientData[c] # None, ~Queued(c, Registrations),
                      NEW a \in interfaces
               PROVE  mClientData[a][c] \in Wanted(a, c)
    BY DEF AdaptersFollowCallbacks, Registrations, Wanted
  <2>1. Settles(a, c)
    BY DEF ApiIInv, ApiParts, AllSettle
  <2>2. Regs(queue, a, c) = {}
    BY DEF Regs, Queued
  <2> QED  BY <2>1, <2>2 DEF Settles, LastReg
<1>2. ApiIInv => CapabilitiesTold
  <2> SUFFICES ASSUME ApiIInv, queue = <<>>, updates = 0, NEW c \in Client,
                      NEW s \in Adapter, mClientData[s][c] # None,
                      \A a \in Adapter : mClientData[a][c] # None => a \in known
               PROVE  c \in capabilitiesTold
    BY DEF CapabilitiesTold
  <2>1. \A a \in Adapter : Regs(queue, a, c) = {}
    BY DEF Regs
  <2>2. \A i \in 1..Len(queue) : FALSE
    OBVIOUS
  <2>3. Life(c) /\ object[c] \in {"unborn", "live", "closing", "leaked", "deleted"}
    BY DEF ApiIInv, ApiParts, ApiTypeOK
  <2>4. ~Forgotten(s, c)
    BY DEF Forgotten
  <2>5. clientData[c] # None
    BY <2>2, <2>3, <2>4 DEF Life
  <2>6. WillBeTold(c)
    BY <2>5 DEF ApiIInv, ApiParts, ToldInTime
  <2> QED  BY <2>2, <2>4, <2>6 DEF WillBeTold
<1>3. ApiIInv => ClientServed
  BY <1>1, <1>2 DEF ClientServed
<1> QED  BY <1>3, ApiInitInv, ApiStepInv, PTL DEF ApiSpec
-----------------------------------------------------------------------------
(* HalGnss *)

ObjectShape ==
    /\ frame \in Nat \ {0}
    /\ cbIface \in [Hal -> [of : Nat, version : HidlVersion \cup {"aidl", "none"}]]
    /\ halConf \in [Hal -> [said : SUBSET ConfItem, waits : SUBSET ConfItem, sent : SUBSET ConfItem]]

SlotShape == clIface \in [Hal -> [Slot -> Nat]]

CapShape ==
    /\ capMask \in [Hal -> Nat] /\ capTold \in [Hal -> Nat] /\ modemCaps \in Nat
    /\ capRun \in [hal : Hal \cup {"none"}, mask : Nat]

CallShape == halCall \in [Hal -> [pc : {"idle", "api", "ask", "write", "tell"}, mask : Nat]]

FlagShape ==
    /\ niIface \in BOOLEAN /\ halTracking \in BOOLEAN
    /\ api \in [Hal -> BOOLEAN] /\ halEnabled \in [Hal -> BOOLEAN] /\ capCached \in [Hal -> BOOLEAN]

Shapes == ObjectShape /\ SlotShape /\ CapShape /\ CallShape /\ FlagShape

\* The client of an object calls nobody.
Silent(h) == \A s \in Slot : clIface[h][s] = 0

\* Before the first callback there is no client, and nothing that it could hold.
NoClient(h) ==
    ~api[h] => /\ ~halEnabled[h] /\ Silent(h)
               /\ InCall(h, "idle") \/ InCall(h, "api")
               /\ InCall(h, "idle") => cbIface[h].of = 0

\* Without a callback no call that sets one is under way, and nothing runs.
NoCallback(h) ==
    cbIface[h].of = 0 => /\ InCall(h, "idle") /\ ~halEnabled[h]
                         /\ h = "hidl" => ~halTracking /\ Silent(h)

\* Who holds the control has enabled the receiver.
OwnerEnabled == controlOwner \in Hal => halEnabled[controlOwner]

Released == OwnerEnabled /\ \A h \in Hal : NoClient(h) /\ NoCallback(h)

\* The callback is in its slot once getApi is over, and no other slot is filled.
SlotsFit(h) ==
    cbIface[h].of # 0 =>
        /\ \A s \in Slot : s # SlotOf(cbIface[h].version) => clIface[h][s] = 0
        /\ ~InCall(h, "api") /\ ~LostToNi(h) => clIface[h][SlotOf(cbIface[h].version)] = cbIface[h].of

\* The AIDL object's callback is not one of IGnss 1.1.
VersionFits == cbIface["aidl"].version \in {"aidl", "none"}

Slots == VersionFits /\ \A h \in Hal : SlotsFit(h)

\* What was configured waits, or has been handed on.
ConfKept(h) ==
    IF api[h] THEN halConf[h].waits = {} /\ halConf[h].said \ {HostName} \subseteq halConf[h].sent
              ELSE halConf[h].said \ {HostName} \subseteq halConf[h].waits

Conf == \A h \in Hal : ConfKept(h)

\* Whoever is about to tell the capabilities, or will read them, has the modem's, unless the
\* adapter has to tell them anyway or two threads crossed.
Informed(h) == api[h] /\ modemCaps > 0 /\ h \notin capDue /\ h \notin capCrossed

CapsFresh(h) ==
    Informed(h) => /\ capCached[h] /\ capMask[h] = modemCaps
                   /\ halCall[h].pc \in {"write", "tell"} => halCall[h].mask = modemCaps
                   /\ capRun.hal = h => capRun.mask = modemCaps

CapsTold(h) ==
    Informed(h) /\ capRun.hal # h /\ InCall(h, "idle") /\ cbIface[h].of # 0 /\ ~LostToNi(h)
        => capTold[h] = modemCaps

Caps == \A h \in Hal : CapsFresh(h) /\ CapsTold(h)

HalIInv == Shapes /\ Released /\ Slots /\ Conf /\ Caps

LEMMA HalInitInv == HalInit => HalIInv
<1> SUFFICES ASSUME HalInit
             PROVE  HalIInv
  OBVIOUS
<1>1. Shapes
  <2>1. NoIface \in [of : Nat, version : HidlVersion \cup {"aidl", "none"}]
    BY DEF NoIface
  <2>2. [said |-> {}, waits |-> {}, sent |-> {}]
           \in [said : SUBSET ConfItem, waits : SUBSET ConfItem, sent : SUBSET ConfItem]
    OBVIOUS
  <2>3. ObjectShape
    BY <2>1, <2>2 DEF HalInit, ObjectShape
  <2>4. SlotShape
    BY DEF HalInit, SlotShape
  <2>5. CapShape
    BY DEF HalInit, CapShape, NoRun
  <2>6. CallShape
    BY DEF HalInit, CallShape, NoHalCall
  <2>7. FlagShape
    BY Zenon DEF HalInit, FlagShape
  <2> QED  BY <2>3, <2>4, <2>5, <2>6, <2>7 DEF Shapes
<1>2. Released
  BY DEF HalInit, Released, OwnerEnabled, NoClient, NoCallback, Silent, InCall, NoIface, NoHalCall, Hal
<1>3. Slots
  BY DEF HalInit, Slots, VersionFits, SlotsFit, NoIface, Hal
<1>4. Conf
  BY DEF HalInit, Conf, ConfKept
<1>5. Caps
  BY DEF HalInit, Caps, CapsFresh, CapsTold, Informed
<1> QED  BY <1>1, <1>2, <1>3, <1>4, <1>5 DEF HalIInv

-----------------------------------------------------------------------------
(* Shapes.                                                                 *)

LEMMA ObjectShapeKept == ASSUME Shapes, HalNext PROVE ObjectShape'
<1> USE DEF Shapes, ObjectShape
<1>1. ASSUME NEW h \in Hal, NEW v \in VersionsOf(h), SetCallback(h, v)  PROVE ObjectShape'
  BY <1>1 DEF SetCallback, VersionsOf
<1>2. ASSUME NEW h \in Hal, UseApi(h)  PROVE ObjectShape'
  BY <1>2 DEF UseApi
<1>3. ASSUME NEW h \in Hal, NEW item \in ConfItem, UpdateConfiguration(h, item)  PROVE ObjectShape'
  BY <1>3 DEF UpdateConfiguration
<1>4. ASSUME NEW h \in Hal, HandleClientDeath(h)  PROVE ObjectShape'
  BY <1>4 DEF HandleClientDeath, NoIface
<1>5. CASE FrameworkDies
  BY <1>5 DEF FrameworkDies, halObject
<1>6. CASE UNCHANGED <<frame, cbIface, halConf>>
  BY <1>6
<1> QED  BY <1>1, <1>2, <1>3, <1>4, <1>5, <1>6
         DEF HalNext, RequestCapabilities, BinderWrites, BinderTells, SetGnssNiCb, GnssStart,
             GnssStop, Cleanup, ModemCapabilities, AdapterWrites, AdapterTells, halObject

LEMMA SlotShapeKept == ASSUME Shapes, HalNext PROVE SlotShape'
<1> USE DEF Shapes, SlotShape
<1>1. ASSUME NEW h \in Hal, NEW v \in VersionsOf(h), SetCallback(h, v)  PROVE SlotShape'
  BY <1>1 DEF SetCallback, SlotsKept
<1>2. ASSUME NEW h \in Hal, UseApi(h)  PROVE SlotShape'
  BY <1>2 DEF UseApi, ObjectShape
<1>3. CASE SetGnssNiCb
  BY <1>3 DEF SetGnssNiCb, ObjectShape, Slot, Hal
<1>4. ASSUME NEW h \in Hal, HandleClientDeath(h)  PROVE SlotShape'
  BY <1>4 DEF HandleClientDeath
<1>5. CASE UNCHANGED clIface
  BY <1>5
<1> QED  BY <1>1, <1>2, <1>3, <1>4, <1>5
         DEF HalNext, RequestCapabilities, BinderWrites, BinderTells, UpdateConfiguration, GnssStart,
             GnssStop, Cleanup, FrameworkDies, ModemCapabilities, AdapterWrites, AdapterTells, halClient

LEMMA CapShapeKept == ASSUME Shapes, HalNext PROVE CapShape'
<1> USE DEF Shapes, CapShape
<1>1. ASSUME NEW h \in Hal, NEW v \in VersionsOf(h), SetCallback(h, v)  PROVE CapShape'
  BY <1>1 DEF SetCallback, halAdapter
<1>2. ASSUME NEW h \in Hal, BinderWrites(h)  PROVE CapShape'
  BY <1>2 DEF BinderWrites, WriteCapabilities, CallShape, halAdapter
<1>3. ASSUME NEW h \in Hal, BinderTells(h)  PROVE CapShape'
  BY <1>3 DEF BinderTells, TellCapabilities, CallShape, halAdapter
<1>4. CASE ModemCapabilities
  BY <1>4 DEF ModemCapabilities, halCaps
<1>5. ASSUME NEW h \in Hal, AdapterWrites(h)  PROVE CapShape'
  BY <1>5 DEF AdapterWrites, WriteCapabilities
<1>6. CASE AdapterTells
  BY <1>6 DEF AdapterTells, TellCapabilities, NoRun
<1>7. CASE UNCHANGED <<capMask, capTold, capRun, modemCaps>>
  BY <1>7
<1> QED  BY <1>1, <1>2, <1>3, <1>4, <1>5, <1>6, <1>7
         DEF HalNext, UseApi, RequestCapabilities, SetGnssNiCb, UpdateConfiguration, GnssStart,
             GnssStop, Cleanup, FrameworkDies, HandleClientDeath, halCaps, halAdapter

LEMMA CallShapeKept == ASSUME Shapes, HalNext PROVE CallShape'
<1> USE DEF Shapes, CallShape, HalGoto
<1>1. ASSUME NEW h \in Hal, NEW v \in VersionsOf(h), SetCallback(h, v)  PROVE CallShape'
  BY <1>1 DEF SetCallback
<1>2. ASSUME NEW h \in Hal, UseApi(h)  PROVE CallShape'
  BY <1>2 DEF UseApi
<1>3. ASSUME NEW h \in Hal, RequestCapabilities(h)  PROVE CallShape'
  BY <1>3 DEF RequestCapabilities, CapShape
<1>4. ASSUME NEW h \in Hal, BinderWrites(h) \/ BinderTells(h)  PROVE CallShape'
  BY <1>4 DEF BinderWrites, BinderTells
<1>5. CASE UNCHANGED halCall
  BY <1>5
<1> QED  BY <1>1, <1>2, <1>3, <1>4, <1>5
         DEF HalNext, SetGnssNiCb, UpdateConfiguration, GnssStart, GnssStop, Cleanup, FrameworkDies,
             HandleClientDeath, ModemCapabilities, AdapterWrites, AdapterTells

LEMMA FlagShapeKept == ASSUME Shapes, HalNext PROVE FlagShape'
<1> USE DEF Shapes, FlagShape, halObject, halClient, halCaps
<1>1. ASSUME NEW h \in Hal, NEW v \in VersionsOf(h), SetCallback(h, v)  PROVE FlagShape'
  BY <1>1 DEF SetCallback
<1>2. ASSUME NEW h \in Hal, UseApi(h)  PROVE FlagShape'
  BY <1>2 DEF UseApi, GnssEnable
<1>3. ASSUME NEW h \in Hal, BinderWrites(h) \/ AdapterWrites(h)  PROVE FlagShape'
  BY <1>3 DEF BinderWrites, AdapterWrites, WriteCapabilities
<1>4. CASE SetGnssNiCb \/ GnssStart \/ GnssStop
  BY <1>4 DEF SetGnssNiCb, GnssStart, GnssStop
<1>5. ASSUME NEW h \in Hal, Cleanup(h) \/ HandleClientDeath(h)  PROVE FlagShape'
  BY <1>5 DEF Cleanup, HandleClientDeath, GnssDisable
<1>6. CASE UNCHANGED <<niIface, halTracking, api, halEnabled, capCached>>
  BY <1>6
<1> QED  BY <1>1, <1>2, <1>3, <1>4, <1>5, <1>6
         DEF HalNext, RequestCapabilities, BinderTells, UpdateConfiguration, FrameworkDies,
             ModemCapabilities, AdapterTells

-----------------------------------------------------------------------------
(* What may run without a client, without a callback, without the control. *)

\* An object of which the action leaves everything as it is stays as it was.
LEMMA RestsReleased ==
  ASSUME NEW g \in Hal, NoClient(g), NoCallback(g),
         UNCHANGED <<cbIface[g], api[g], clIface[g], halEnabled[g], halCall[g]>>,
         g = "hidl" => UNCHANGED halTracking
  PROVE  NoClient(g)' /\ NoCallback(g)'
  BY DEF NoClient, NoCallback, Silent, InCall

\* A call that has got its client goes on.
LEMMA GoesOnReleased ==
  ASSUME Shapes, Released, NEW h \in Hal, halCall[h].pc \in {"ask", "write", "tell"},
         \A g \in Hal \ {h} : UNCHANGED halCall[g],
         UNCHANGED <<cbIface, api, clIface, halEnabled, halTracking, controlOwner>>
  PROVE  Released'
<1>1. api[h] /\ cbIface[h].of # 0
  BY DEF Released, NoClient, NoCallback, InCall
<1>2. NoClient(h)' /\ NoCallback(h)'
  BY <1>1 DEF NoClient, NoCallback
<1>3. ASSUME NEW g \in Hal \ {h}  PROVE NoClient(g)' /\ NoCallback(g)'
  BY RestsReleased DEF Released
<1>4. OwnerEnabled'
  BY DEF Released, OwnerEnabled
<1> QED  BY <1>2, <1>3, <1>4 DEF Released

\* Disabling ends the control of who disables.
LEMMA DisableKeepsOwner ==
  ASSUME FlagShape, OwnerEnabled, NEW h \in Hal, GnssDisable(h)
  PROVE  OwnerEnabled'
<1>1. CASE controlOwner = h
  BY <1>1 DEF GnssDisable, OwnerEnabled, Hal
<1>2. CASE controlOwner # h
  BY <1>2 DEF GnssDisable, OwnerEnabled, FlagShape
<1> QED  BY <1>1, <1>2

LEMMA ReleasedKept == ASSUME Shapes, Released, HalNext PROVE Released'
<1> USE DEF Shapes
<1>1. ASSUME NEW h \in Hal, NEW v \in VersionsOf(h), SetCallback(h, v)  PROVE Released'
  <2>1. /\ cbIface'[h].of = frame /\ frame # 0 /\ halCall'[h].pc = "api"
        /\ UNCHANGED <<api, halEnabled, halTracking, controlOwner>>
        /\ ~api[h] => UNCHANGED clIface
    BY <1>1 DEF SetCallback, HalGoto, ObjectShape, CallShape
  <2>2. NoClient(h)' /\ NoCallback(h)'
    BY <2>1 DEF Released, NoClient, NoCallback, Silent, InCall
  <2>3. ASSUME NEW g \in Hal \ {h}  PROVE NoClient(g)' /\ NoCallback(g)'
    <3>1. UNCHANGED <<cbIface[g], clIface[g], halCall[g]>>
      BY <1>1 DEF SetCallback, HalGoto, ObjectShape, CallShape, SlotShape
    <3> QED  BY <2>1, <3>1, RestsReleased DEF Released
  <2>4. OwnerEnabled'
    BY <2>1 DEF Released, OwnerEnabled
  <2> QED  BY <2>2, <2>3, <2>4 DEF Released
<1>2. ASSUME NEW h \in Hal, UseApi(h)  PROVE Released'
  <2>1. /\ cbIface[h].of # 0 /\ api'[h] /\ UNCHANGED <<cbIface, halTracking>>
        /\ halEnabled' = [halEnabled EXCEPT ![h] = TRUE]
        /\ controlOwner' \in {h, controlOwner}
    BY <1>2 DEF UseApi, GnssEnable, FlagShape, Released, NoCallback, InCall
  <2>2. NoClient(h)' /\ NoCallback(h)'
    BY <2>1 DEF NoClient, NoCallback
  <2>3. ASSUME NEW g \in Hal \ {h}  PROVE NoClient(g)' /\ NoCallback(g)'
    <3>1. UNCHANGED <<clIface[g], halCall[g], api[g], halEnabled[g]>>
      BY <1>2, <2>1 DEF UseApi, HalGoto, CallShape, SlotShape, FlagShape
    <3> QED  BY <2>1, <3>1, RestsReleased DEF Released
  <2>4. OwnerEnabled'
    BY <2>1 DEF Released, OwnerEnabled, FlagShape
  <2> QED  BY <2>2, <2>3, <2>4 DEF Released
<1>3. ASSUME NEW h \in Hal, RequestCapabilities(h) \/ BinderWrites(h) \/ BinderTells(h)  PROVE Released'
  <2>1. /\ halCall[h].pc \in {"ask", "write", "tell"}
        /\ UNCHANGED <<cbIface, api, clIface, halEnabled, halTracking, controlOwner>>
        /\ \A g \in Hal \ {h} : UNCHANGED halCall[g]
    BY <1>3 DEF RequestCapabilities, BinderWrites, BinderTells, InCall, HalGoto, CallShape,
                halObject, halClient
  <2> QED  BY <2>1, GoesOnReleased
<1>4. CASE SetGnssNiCb
  <2>1. /\ UNCHANGED <<cbIface, api, halEnabled, halTracking, controlOwner, halCall, clIface["aidl"]>>
        /\ ~api["hidl"] => UNCHANGED clIface["hidl"]
        /\ Silent("hidl") /\ cbIface["hidl"].of = 0 => Silent("hidl")'
    BY <1>4 DEF SetGnssNiCb, SlotShape, Slot, Hal, Silent
  <2>2. NoClient("hidl")' /\ NoCallback("hidl")'
    BY <2>1 DEF Released, NoClient, NoCallback, Silent, InCall, Hal
  <2>3. NoClient("aidl")' /\ NoCallback("aidl")'
    BY <2>1, RestsReleased DEF Released, Hal
  <2>4. OwnerEnabled'
    BY <2>1 DEF Released, OwnerEnabled
  <2> QED  BY <2>2, <2>3, <2>4 DEF Released, Hal
<1>5. CASE GnssStart
  <2>1. /\ UNCHANGED <<cbIface, api, clIface, halEnabled, controlOwner, halCall>>
        /\ cbIface["hidl"].of # 0
    BY <1>5 DEF GnssStart, halObject
  <2>2. ASSUME NEW g \in Hal  PROVE NoClient(g)' /\ NoCallback(g)'
    BY <2>1 DEF Released, NoClient, NoCallback, Silent, InCall
  <2> QED  BY <2>1, <2>2 DEF Released, OwnerEnabled
<1>6. CASE GnssStop
  <2>1. /\ UNCHANGED <<cbIface, api, clIface, halEnabled, controlOwner, halCall>>
        /\ ~halTracking'
    BY <1>6 DEF GnssStop, halObject
  <2>2. ASSUME NEW g \in Hal  PROVE NoClient(g)' /\ NoCallback(g)'
    BY <2>1 DEF Released, NoClient, NoCallback, Silent, InCall
  <2> QED  BY <2>1, <2>2 DEF Released, OwnerEnabled
<1>7. ASSUME NEW h \in Hal, Cleanup(h)  PROVE Released'
  <2>1. /\ UNCHANGED <<cbIface, api, clIface, halCall>>
        /\ halTracking' => halTracking
        /\ halEnabled' = [halEnabled EXCEPT ![h] = FALSE]
    BY <1>7 DEF Cleanup, GnssDisable, halObject
  <2>2. ASSUME NEW g \in Hal  PROVE NoClient(g)' /\ NoCallback(g)'
    <3>1. halEnabled'[g] => halEnabled[g]
      BY <2>1 DEF FlagShape
    <3> QED  BY <2>1, <3>1 DEF Released, NoClient, NoCallback, Silent, InCall
  <2>3. OwnerEnabled'
    BY <1>7, DisableKeepsOwner DEF Cleanup, Released
  <2> QED  BY <2>2, <2>3 DEF Released
<1>8. ASSUME NEW h \in Hal, HandleClientDeath(h)  PROVE Released'
  <2>1. cbIface' = [cbIface EXCEPT ![h] = NoIface] /\ UNCHANGED <<api, halCall>>
    BY <1>8 DEF HandleClientDeath
  <2>2. ~halEnabled'[h] /\ InCall(h, "idle")
    BY <1>8 DEF HandleClientDeath, GnssDisable, FlagShape, Released, NoClient
  <2>3. h = "hidl" => ~halTracking' /\ Silent(h)'
    <3>1. CASE api[h]
      BY <1>8, <3>1 DEF HandleClientDeath, SlotShape, Silent
    <3>2. CASE ~api[h]
      <4>1. cbIface[h].of = 0
        BY <2>2, <3>2 DEF Released, NoClient
      <4>2. UNCHANGED <<halTracking, clIface>>
        BY <1>8, <3>2 DEF HandleClientDeath
      <4> QED  BY <4>1, <4>2 DEF Released, NoCallback, Silent
    <3> QED  BY <3>1, <3>2
  <2>4. ~api[h] => Silent(h)'
    BY <1>8 DEF HandleClientDeath, Released, NoClient, Silent
  <2>5. NoClient(h)' /\ NoCallback(h)'
    BY <2>1, <2>2, <2>3, <2>4 DEF NoClient, NoCallback, InCall, NoIface, ObjectShape
  <2>6. ASSUME NEW g \in Hal \ {h}  PROVE NoClient(g)' /\ NoCallback(g)'
    <3>1. UNCHANGED <<cbIface[g], clIface[g], halEnabled[g]>> /\ (g = "hidl" => UNCHANGED halTracking)
      BY <1>8, <2>1 DEF HandleClientDeath, GnssDisable, ObjectShape, SlotShape, FlagShape
    <3> QED  BY <2>1, <3>1, RestsReleased DEF Released
  <2>7. OwnerEnabled'
    <3>1. CASE api[h]
      BY <1>8, <3>1, DisableKeepsOwner DEF HandleClientDeath, Released
    <3>2. CASE ~api[h]
      BY <1>8, <3>2 DEF HandleClientDeath, Released, OwnerEnabled
    <3> QED  BY <3>1, <3>2
  <2> QED  BY <2>5, <2>6, <2>7 DEF Released
<1>9. CASE UNCHANGED <<cbIface, api, clIface, halEnabled, halCall, halTracking, controlOwner>>
  BY <1>9, RestsReleased DEF Released, OwnerEnabled
<1> QED  BY <1>1, <1>2, <1>3, <1>4, <1>5, <1>6, <1>7, <1>8, <1>9
         DEF HalNext, UpdateConfiguration, FrameworkDies, ModemCapabilities, AdapterWrites,
             AdapterTells, halObject, halClient

-----------------------------------------------------------------------------
(* Slots.                                                                  *)

LEMMA SlotOfIsSlot == \A v : SlotOf(v) \in Slot
  BY DEF SlotOf, Slot

\* An object of which the action leaves everything as it is keeps its slots.
LEMMA RestsSlots ==
  ASSUME NEW g \in Hal, SlotsFit(g), UNCHANGED <<cbIface[g], clIface[g], halCall[g]>>,
         LostToNi(g) => LostToNi(g)'
  PROVE  SlotsFit(g)'
  BY DEF SlotsFit, InCall

LEMMA SlotsKeptFit == ASSUME Shapes, Released, Slots, HalNext PROVE Slots'
<1> USE DEF Shapes
<1>1. ASSUME NEW h \in Hal, NEW v \in VersionsOf(h), SetCallback(h, v)  PROVE Slots'
  <2>1. /\ cbIface' = [cbIface EXCEPT ![h] = [of |-> frame, version |-> v]]
        /\ halCall'[h].pc = "api"
        /\ \A g \in Hal \ {h} : UNCHANGED <<clIface[g], halCall[g]>>
    BY <1>1 DEF SetCallback, HalGoto, SlotShape, CallShape
  <2>2. \A s \in Slot : s # SlotOf(v) => clIface'[h][s] = 0
    BY <1>1 DEF SetCallback, SlotsKept, SlotShape, Released, NoClient, Silent
  <2>3. SlotsFit(h)'
    BY <2>1, <2>2 DEF SlotsFit, InCall, ObjectShape
  <2>4. VersionFits'
    BY <2>1 DEF Slots, VersionFits, VersionsOf, ObjectShape
  <2>5. ASSUME NEW g \in Hal \ {h}  PROVE SlotsFit(g)'
    <3>1. UNCHANGED cbIface[g]
      BY <2>1 DEF ObjectShape
    <3>2. LostToNi(g) => LostToNi(g)'
      BY <1>1, <3>1 DEF SetCallback, LostToNi, Slots, VersionFits, VersionsOf, Hal
    <3> QED  BY <2>1, <3>1, <3>2, RestsSlots DEF Slots
  <2> QED  BY <2>3, <2>4, <2>5 DEF Slots
<1>2. ASSUME NEW h \in Hal, UseApi(h)  PROVE Slots'
  <2>1. UNCHANGED <<cbIface, niIface>> /\ clIface'[h][SlotOf(cbIface[h].version)] = cbIface[h].of
    BY <1>2, SlotOfIsSlot DEF UseApi, SlotShape
  <2>2. \A s \in Slot \ {SlotOf(cbIface[h].version)} : UNCHANGED clIface[h][s]
    BY <1>2 DEF UseApi, SlotShape
  <2>3. SlotsFit(h)'
    BY <2>1, <2>2 DEF Slots, SlotsFit
  <2>4. ASSUME NEW g \in Hal \ {h}  PROVE SlotsFit(g)'
    <3>1. UNCHANGED <<clIface[g], halCall[g]>>
      BY <1>2 DEF UseApi, HalGoto, SlotShape, CallShape
    <3> QED  BY <2>1, <3>1, RestsSlots DEF Slots, LostToNi
  <2> QED  BY <2>1, <2>3, <2>4 DEF Slots, VersionFits
<1>3. ASSUME NEW h \in Hal, RequestCapabilities(h) \/ BinderWrites(h) \/ BinderTells(h)  PROVE Slots'
  <2>1. /\ ~InCall(h, "api") /\ UNCHANGED <<cbIface, clIface, niIface>>
        /\ \A g \in Hal \ {h} : UNCHANGED halCall[g]
    BY <1>3 DEF RequestCapabilities, BinderWrites, BinderTells, InCall, HalGoto, CallShape,
                halObject, halClient
  <2>2. SlotsFit(h)'
    BY <2>1 DEF Slots, SlotsFit, LostToNi
  <2>3. ASSUME NEW g \in Hal \ {h}  PROVE SlotsFit(g)'
    BY <2>1, RestsSlots DEF Slots, LostToNi
  <2> QED  BY <2>1, <2>2, <2>3 DEF Slots, VersionFits
<1>4. CASE SetGnssNiCb
  <2>1. /\ niIface' /\ UNCHANGED <<cbIface, halCall, clIface["aidl"]>>
        /\ InCall("hidl", "idle")
        /\ api["hidl"] => clIface'["hidl"]["1"] =
              IF cbIface["hidl"].version = "1.0" THEN cbIface["hidl"].of ELSE 0
        /\ \A s \in Slot \ {"1"} : UNCHANGED clIface["hidl"][s]
    BY <1>4 DEF SetGnssNiCb, Takes, SlotShape, Slot, Hal
  <2>2. SlotsFit("hidl")'
    <3>1. SUFFICES ASSUME cbIface["hidl"].of # 0  PROVE SlotsFit("hidl")'
      BY <2>1 DEF SlotsFit
    <3>2. api["hidl"]
      BY <2>1, <3>1 DEF Released, NoClient, Hal
    <3>3. ASSUME NEW s \in Slot, s # SlotOf(cbIface["hidl"].version)  PROVE clIface'["hidl"][s] = 0
      BY <2>1, <3>1, <3>2, <3>3 DEF Slots, SlotsFit, SlotOf, Hal
    <3>4. ASSUME cbIface["hidl"].version # "1.1"
          PROVE  clIface'["hidl"][SlotOf(cbIface["hidl"].version)] = cbIface["hidl"].of
      <4>1. CASE SlotOf(cbIface["hidl"].version) = "1"
        BY <2>1, <3>2, <3>4, <4>1 DEF SlotOf
      <4>2. CASE SlotOf(cbIface["hidl"].version) # "1"
        BY <2>1, <3>1, <3>4, <4>2, SlotOfIsSlot DEF Slots, SlotsFit, LostToNi, InCall, Hal, CallShape
      <4> QED  BY <4>1, <4>2
    <3> QED  BY <2>1, <3>3, <3>4 DEF SlotsFit, LostToNi
  <2>3. SlotsFit("aidl")'
    BY <2>1, RestsSlots DEF Slots, LostToNi, VersionFits, Hal
  <2> QED  BY <2>1, <2>2, <2>3 DEF Slots, VersionFits, Hal
<1>5. ASSUME NEW h \in Hal, HandleClientDeath(h)  PROVE Slots'
  <2>1. cbIface' = [cbIface EXCEPT ![h] = NoIface] /\ UNCHANGED halCall
    BY <1>5 DEF HandleClientDeath
  <2>2. SlotsFit(h)' /\ VersionFits'
    BY <2>1 DEF SlotsFit, Slots, VersionFits, NoIface, ObjectShape, Hal
  <2>3. ASSUME NEW g \in Hal \ {h}  PROVE SlotsFit(g)'
    <3>1. UNCHANGED <<cbIface[g], clIface[g]>>
      BY <1>5, <2>1 DEF HandleClientDeath, ObjectShape, SlotShape
    <3>2. LostToNi(g) => LostToNi(g)'
      BY <1>5, <3>1 DEF HandleClientDeath, LostToNi, Slots, VersionFits, Hal
    <3> QED  BY <2>1, <3>1, <3>2, RestsSlots DEF Slots
  <2> QED  BY <2>2, <2>3 DEF Slots
<1>6. CASE UNCHANGED <<cbIface, clIface, halCall, niIface>>
  BY <1>6, RestsSlots DEF Slots, VersionFits, LostToNi
<1> QED  BY <1>1, <1>2, <1>3, <1>4, <1>5, <1>6
         DEF HalNext, UpdateConfiguration, GnssStart, GnssStop, Cleanup, FrameworkDies,
             ModemCapabilities, AdapterWrites, AdapterTells, halObject, halClient

-----------------------------------------------------------------------------
(* Configuration.                                                          *)

LEMMA ConfStays == ASSUME Shapes, Conf, HalNext PROVE Conf'
<1> USE DEF Shapes, ObjectShape, FlagShape
<1>1. ASSUME NEW h \in Hal, UseApi(h)  PROVE Conf'
  <2>1. api' = [api EXCEPT ![h] = TRUE]
    BY <1>1 DEF UseApi
  <2>2. halConf' = IF api[h] THEN halConf
                   ELSE [halConf EXCEPT ![h] = [said |-> @.said, waits |-> {}, sent |-> @.sent \cup @.waits]]
    BY <1>1 DEF UseApi
  <2>3. ASSUME NEW g \in Hal  PROVE ConfKept(g)'
    BY <2>1, <2>2 DEF Conf, ConfKept
  <2> QED  BY <2>3 DEF Conf
<1>2. ASSUME NEW h \in Hal, NEW item \in ConfItem, UpdateConfiguration(h, item)  PROVE Conf'
  <2>1. ASSUME NEW g \in Hal  PROVE ConfKept(g)'
    BY <1>2 DEF UpdateConfiguration, Conf, ConfKept
  <2> QED  BY <2>1 DEF Conf
<1>3. CASE UNCHANGED <<api, halConf>>
  BY <1>3 DEF Conf, ConfKept
<1> QED  BY <1>1, <1>2, <1>3
         DEF HalNext, SetCallback, RequestCapabilities, BinderWrites, BinderTells, SetGnssNiCb,
             GnssStart, GnssStop, Cleanup, FrameworkDies, HandleClientDeath, ModemCapabilities,
             AdapterWrites, AdapterTells, halObject

-----------------------------------------------------------------------------
(* Capabilities.                                                           *)

\* A callback in its slot, with the others empty, is the one that is called.
LEMMA SlotIsListener ==
  ASSUME NEW h \in Hal, SlotsFit(h), cbIface[h].of # 0, ~InCall(h, "api"), ~LostToNi(h)
  PROVE  Listens(h)
<1>1. clIface[h][SlotOf(cbIface[h].version)] = cbIface[h].of
  BY DEF SlotsFit
<1>2. SlotUsed(h) = SlotOf(cbIface[h].version)
  BY <1>1, SlotOfIsSlot DEF SlotsFit, SlotUsed, Slot
<1> QED  BY <1>1, <1>2 DEF Listens

\* An object of which the action leaves everything as it is still knows what it knew.
LEMMA RestsCaps ==
  ASSUME NEW g \in Hal, CapsFresh(g), CapsTold(g),
         UNCHANGED <<cbIface[g], api[g], halCall[g], capCached[g], capMask[g], capTold[g], modemCaps>>,
         capRun'.hal = g <=> capRun.hal = g, capRun.hal = g => UNCHANGED capRun,
         g \in capDue => g \in capDue', g \in capCrossed => g \in capCrossed',
         LostToNi(g) => LostToNi(g)'
  PROVE  CapsFresh(g)' /\ CapsTold(g)'
  BY DEF CapsFresh, CapsTold, Informed, InCall

LEMMA CapsKept == ASSUME Shapes, Released, Slots, Caps, HalNext PROVE Caps'
<1> USE DEF Shapes
<1>1. ASSUME NEW h \in Hal, NEW v \in VersionsOf(h), SetCallback(h, v)  PROVE Caps'
  <2>1. /\ UNCHANGED <<api, capCached, capMask, capRun, capDue, modemCaps, capCrossed>>
        /\ halCall'[h].pc = "api"
        /\ \A g \in Hal \ {h} : UNCHANGED <<cbIface[g], halCall[g], capTold[g]>>
    BY <1>1 DEF SetCallback, HalGoto, halAdapter, ObjectShape, CallShape, CapShape
  <2>2. CapsFresh(h)' /\ CapsTold(h)'
    BY <2>1 DEF Caps, CapsFresh, CapsTold, Informed, InCall
  <2>3. ASSUME NEW g \in Hal \ {h}  PROVE CapsFresh(g)' /\ CapsTold(g)'
    <3>1. LostToNi(g) => LostToNi(g)'
      BY <1>1, <2>1 DEF SetCallback, LostToNi, Slots, VersionFits, VersionsOf, Hal
    <3> QED  BY <2>1, <3>1, RestsCaps DEF Caps
  <2> QED  BY <2>2, <2>3 DEF Caps
<1>2. ASSUME NEW h \in Hal, UseApi(h)  PROVE Caps'
  <2>1. /\ UNCHANGED <<cbIface, niIface, capCached, capMask, capTold, capRun, modemCaps, capCrossed>>
        /\ halCall'[h].pc = "ask" /\ capDue \subseteq capDue' /\ (api[h] \/ h \in capDue')
        /\ \A g \in Hal \ {h} : UNCHANGED <<api[g], halCall[g]>>
    BY <1>2 DEF UseApi, HalGoto, halCaps, FlagShape, CallShape
  <2>2. CapsFresh(h)' /\ CapsTold(h)'
    BY <2>1 DEF Caps, CapsFresh, CapsTold, Informed, InCall
  <2>3. ASSUME NEW g \in Hal \ {h}  PROVE CapsFresh(g)' /\ CapsTold(g)'
    BY <2>1, RestsCaps DEF Caps, LostToNi
  <2> QED  BY <2>2, <2>3 DEF Caps
<1>3. ASSUME NEW h \in Hal, RequestCapabilities(h)  PROVE Caps'
  <2>1. /\ UNCHANGED <<cbIface, niIface, api, capCached, capMask, capTold, capRun, capDue, modemCaps,
                       capCrossed>>
        /\ \A g \in Hal \ {h} : UNCHANGED halCall[g]
    BY <1>3 DEF RequestCapabilities, HalGoto, halObject, halCaps, halAdapter, CallShape
  <2>2. IF capCached[h] THEN halCall'[h] = [pc |-> "write", mask |-> capMask[h]]
                        ELSE halCall'[h] = [pc |-> "idle", mask |-> 0]
    BY <1>3 DEF RequestCapabilities, HalGoto, CallShape
  <2>3. CapsFresh(h)' /\ CapsTold(h)'
    BY <2>1, <2>2 DEF Caps, CapsFresh, CapsTold, Informed, InCall
  <2>4. ASSUME NEW g \in Hal \ {h}  PROVE CapsFresh(g)' /\ CapsTold(g)'
    BY <2>1, RestsCaps DEF Caps, LostToNi
  <2> QED  BY <2>3, <2>4 DEF Caps
<1>4. ASSUME NEW h \in Hal, BinderWrites(h)  PROVE Caps'
  <2>1. /\ UNCHANGED <<cbIface, niIface, api, capTold, capRun, capDue, modemCaps>>
        /\ capCrossed \subseteq capCrossed' /\ (capRun.hal = h => h \in capCrossed')
        /\ \A g \in Hal \ {h} : UNCHANGED <<halCall[g], capCached[g], capMask[g]>>
    BY <1>4 DEF BinderWrites, WriteCapabilities, HalGoto, halObject, halAdapter, CallShape, FlagShape,
                CapShape
  <2>2. /\ halCall[h].pc = "write" /\ capCached'[h] /\ capMask'[h] = halCall[h].mask
        /\ halCall'[h] = [pc |-> "tell", mask |-> halCall[h].mask]
    BY <1>4 DEF BinderWrites, WriteCapabilities, HalGoto, InCall, CallShape, FlagShape, CapShape
  <2>3. CapsFresh(h)' /\ CapsTold(h)'
    BY <2>1, <2>2 DEF Caps, CapsFresh, CapsTold, Informed, InCall
  <2>4. ASSUME NEW g \in Hal \ {h}  PROVE CapsFresh(g)' /\ CapsTold(g)'
    BY <2>1, RestsCaps DEF Caps, LostToNi
  <2> QED  BY <2>3, <2>4 DEF Caps
<1>5. ASSUME NEW h \in Hal, BinderTells(h)  PROVE Caps'
  <2>1. /\ UNCHANGED <<cbIface, niIface, api, capCached, capMask, capRun, capDue, modemCaps, capCrossed>>
        /\ \A g \in Hal \ {h} : UNCHANGED <<halCall[g], capTold[g]>>
        /\ halCall[h].pc = "tell" /\ halCall'[h].pc = "idle"
    BY <1>5 DEF BinderTells, TellCapabilities, HalGoto, InCall, halObject, halAdapter, CallShape, CapShape
  <2>2. Listens(h) => capTold'[h] = halCall[h].mask
    BY <1>5 DEF BinderTells, TellCapabilities, CapShape
  <2>3. CapsFresh(h)'
    BY <2>1 DEF Caps, CapsFresh, Informed
  <2>4. CapsTold(h)'
    <3>1. SUFFICES ASSUME Informed(h), cbIface[h].of # 0, ~LostToNi(h)  PROVE capTold'[h] = modemCaps
      BY <2>1 DEF CapsTold, Informed, LostToNi
    <3>2. Listens(h)
      BY <2>1, <3>1, SlotIsListener DEF Slots, InCall
    <3> QED  BY <2>1, <2>2, <3>1, <3>2 DEF Caps, CapsFresh
  <2>5. ASSUME NEW g \in Hal \ {h}  PROVE CapsFresh(g)' /\ CapsTold(g)'
    BY <2>1, RestsCaps DEF Caps, LostToNi
  <2> QED  BY <2>3, <2>4, <2>5 DEF Caps
<1>6. ASSUME NEW h \in Hal, HandleClientDeath(h)  PROVE Caps'
  <2>1. /\ UNCHANGED <<api, halCall, halCaps, halAdapter>> /\ cbIface'[h].of = 0
        /\ \A g \in Hal \ {h} : UNCHANGED cbIface[g]
    BY <1>6 DEF HandleClientDeath, ObjectShape, NoIface
  <2>2. CapsFresh(h)' /\ CapsTold(h)'
    BY <2>1 DEF Caps, CapsFresh, CapsTold, Informed, halCaps, halAdapter
  <2>3. ASSUME NEW g \in Hal \ {h}  PROVE CapsFresh(g)' /\ CapsTold(g)'
    <3>1. LostToNi(g) => LostToNi(g)'
      BY <1>6, <2>1 DEF HandleClientDeath, LostToNi, Slots, VersionFits, Hal
    <3> QED  BY <2>1, <3>1, RestsCaps DEF Caps, halCaps, halAdapter
  <2> QED  BY <2>2, <2>3 DEF Caps
<1>7. CASE ModemCapabilities
  <2>1. UNCHANGED api /\ capDue' = {h \in Hal : api[h]}
    BY <1>7 DEF ModemCapabilities, halObject
  <2> QED  BY <2>1 DEF Caps, CapsFresh, CapsTold, Informed
<1>8. ASSUME NEW h \in Hal, AdapterWrites(h)  PROVE Caps'
  <2>1. /\ UNCHANGED <<cbIface, niIface, api, capTold, modemCaps, halCall>>
        /\ capRun.hal = "none" /\ capRun' = [hal |-> h, mask |-> modemCaps] /\ capDue' = capDue \ {h}
        /\ capCrossed \subseteq capCrossed' /\ (halCall[h].pc \in {"write", "tell"} => h \in capCrossed')
        /\ capCached'[h] /\ capMask'[h] = modemCaps
        /\ \A g \in Hal \ {h} : UNCHANGED <<capCached[g], capMask[g]>>
    BY <1>8 DEF AdapterWrites, WriteCapabilities, NoRun, halObject, FlagShape, CapShape
  <2>2. CapsFresh(h)' /\ CapsTold(h)'
    BY <2>1 DEF CapsFresh, CapsTold, Informed
  <2>3. ASSUME NEW g \in Hal \ {h}  PROVE CapsFresh(g)' /\ CapsTold(g)'
    BY <2>1, RestsCaps DEF Caps, LostToNi, Hal
  <2> QED  BY <2>2, <2>3 DEF Caps
<1>9. CASE AdapterTells
  <2>1. /\ UNCHANGED <<cbIface, niIface, api, capCached, capMask, capDue, modemCaps, capCrossed, halCall>>
        /\ capRun'.hal = "none"
        /\ \A g \in Hal \ {capRun.hal} : UNCHANGED capTold[g]
        /\ \A g \in Hal : capRun.hal = g /\ Listens(g) => capTold'[g] = capRun.mask
    BY <1>9 DEF AdapterTells, TellCapabilities, NoRun, halObject, CapShape
  <2>2. ASSUME NEW h \in Hal, capRun.hal = h  PROVE CapsFresh(h)' /\ CapsTold(h)'
    <3>1. CapsFresh(h)'
      BY <2>1, <2>2 DEF Caps, CapsFresh, Informed, Hal
    <3>2. ASSUME Informed(h), InCall(h, "idle"), cbIface[h].of # 0, ~LostToNi(h)
          PROVE  capTold'[h] = modemCaps
      <4>1. Listens(h)
        BY <3>2, SlotIsListener DEF Slots, InCall
      <4> QED  BY <2>1, <2>2, <3>2, <4>1 DEF Caps, CapsFresh
    <3>3. CapsTold(h)'
      BY <2>1, <3>2 DEF CapsTold, Informed, LostToNi, InCall
    <3> QED  BY <3>1, <3>3
  <2>3. ASSUME NEW g \in Hal \ {capRun.hal}  PROVE CapsFresh(g)' /\ CapsTold(g)'
    BY <2>1, RestsCaps DEF Caps, LostToNi, Hal
  <2> QED  BY <2>2, <2>3 DEF Caps
<1>10. CASE SetGnssNiCb
  <2>1. UNCHANGED <<cbIface, api, halCall, halCaps, halAdapter>> /\ niIface'
    BY <1>10 DEF SetGnssNiCb
  <2> QED  BY <2>1, RestsCaps DEF Caps, LostToNi, halCaps, halAdapter
<1>11. CASE UNCHANGED <<cbIface, niIface, api, halCall, halCaps, halAdapter>>
  BY <1>11, RestsCaps DEF Caps, LostToNi, halCaps, halAdapter
<1> QED  BY <1>1, <1>2, <1>3, <1>4, <1>5, <1>6, <1>7, <1>8, <1>9, <1>10, <1>11
         DEF HalNext, UpdateConfiguration, GnssStart, GnssStop, Cleanup, FrameworkDies, halObject

-----------------------------------------------------------------------------
LEMMA HalStepInv == HalIInv /\ [HalNext]_halVars => HalIInv'
<1> SUFFICES ASSUME HalIInv, [HalNext]_halVars
             PROVE  HalIInv'
  OBVIOUS
<1>1. CASE HalNext
  BY <1>1, ObjectShapeKept, SlotShapeKept, CapShapeKept, CallShapeKept, FlagShapeKept, ReleasedKept,
     SlotsKeptFit, ConfStays, CapsKept DEF HalIInv, Shapes
<1>2. CASE UNCHANGED halVars
  <2>1. Shapes'
    BY <1>2 DEF HalIInv, Shapes, ObjectShape, SlotShape, CapShape, CallShape, FlagShape, halVars,
                halObject, halClient, halCaps, halAdapter
  <2>2. Released'
    BY <1>2 DEF HalIInv, Released, OwnerEnabled, NoClient, NoCallback, Silent, InCall, halVars,
                halObject, halClient
  <2>3. Slots' /\ Conf'
    BY <1>2 DEF HalIInv, Slots, VersionFits, SlotsFit, LostToNi, InCall, Conf, ConfKept, halVars,
                halObject, halClient
  <2>4. Caps'
    BY <1>2 DEF HalIInv, Caps, CapsFresh, CapsTold, Informed, LostToNi, InCall, halVars, halObject,
                halCaps, halAdapter
  <2> QED  BY <2>1, <2>2, <2>3, <2>4 DEF HalIInv
<1> QED  BY <1>1, <1>2

\* What is told to a framework reaches the callback it set last, it knows the modem's
\* capabilities, and what it configured before it set a callback has been handed on.
THEOREM FrameworkIsServed == HalSpec => []HalServesClient
<1>1. HalIInv => HalServesClient
  <2> SUFFICES ASSUME HalIInv  PROVE HalServesClient
    OBVIOUS
  <2>1. RightListener
    BY SlotIsListener DEF HalIInv, Slots, RightListener, InCall
  <2>2. HalCapabilitiesTold
    BY DEF HalIInv, Caps, CapsTold, Informed, Released, NoClient, HalCapabilitiesTold
  <2>3. ConfigHandedOn
    BY DEF HalIInv, Conf, ConfKept, ConfigHandedOn
  <2> QED  BY <2>1, <2>2, <2>3 DEF HalServesClient
<1> QED  BY <1>1, HalInitInv, HalStepInv, PTL DEF HalSpec

\* A framework that has died leaves no session, no power and no control behind.
THEOREM DeadFrameworkIsReleased == HalSpec => []DeadClientReleased
<1>1. HalIInv => DeadClientReleased
  BY DEF HalIInv, Released, OwnerEnabled, NoCallback, Silent, DeadClientReleased, Hal
<1> QED  BY <1>1, HalInitInv, HalStepInv, PTL DEF HalSpec
=============================================================================
