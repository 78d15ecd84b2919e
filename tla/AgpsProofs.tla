----------------------------- MODULE AgpsProofs -----------------------------
(***************************************************************************)
(* Proofs about the AGPS component, for any set of handles: the inductive  *)
(* invariant, that no handle is forgotten, and that the component          *)
(* implements DataConn; then about the component with the modem, the       *)
(* platform and the adapter's queue, for any number of messages in it:     *)
(* what the modem believes of a handle, and that the machines and the      *)
(* platform agree on the connections.                                      *)
(***************************************************************************)
EXTENDS AgpsSystem, TLAPS

\* The five events of AgpsStateMachine::processAgpsEvent, on one machine.
Event(n) == \/ \E h \in Handle : Subscribe(n, h)
            \/ \E h \in mSubscribers[n] : Unsubscribe(n, h)
            \/ Granted(n)
            \/ Released(n)
            \/ Denied(n)

\* A step is an event of one existing machine, or leaves the machines alone.
LEMMA StepIsEvent ==
  ASSUME Next
  PROVE  \/ /\ UNCHANGED created
            /\ \E n \in created \cap Nif : Event(n)
         \/ /\ created \subseteq created' /\ created' \subseteq created \cup Nif
            /\ UNCHANGED machines
            /\ calls' = Quiet \/ \E h \in Handle : calls' = NotifyFailed({h})
<1>1. CASE \E N \in SUBSET Nif : CreateStateMachines(N)
  BY <1>1 DEF CreateStateMachines
<1>2. CASE \E h \in Handle, type \in AgpsType : RequestATL(h, type)
  <2>1. \A type \in AgpsType : NifOf(type) \in Nif
    BY DEF AgpsType, NifOf, Nif
  <2> QED  BY <1>2, <2>1 DEF RequestATL, Event
<1>3. CASE \E h \in Handle : ReleaseATL(h)
  BY <1>3 DEF ReleaseATL, ListedAt, Event, Nif
<1>4. CASE \E n \in Nif : \/ ReportAtlOpenSuccess(n)
                          \/ ReportAtlOpenFailed(n)
                          \/ ReportAtlClosed(n)
  BY <1>4 DEF ReportAtlOpenSuccess, ReportAtlOpenFailed, ReportAtlClosed, Report, Event
<1> QED  BY <1>1, <1>2, <1>3, <1>4 DEF Next
-----------------------------------------------------------------------------
(* The inductive invariant, machine by machine *)

MachineInv(n) ==
    /\ mState[n] \in AgpsState
    /\ mSubscribers[n] \subseteq Handle
    /\ mInactive[n] \subseteq mSubscribers[n]
    /\ n \notin created => mState[n] = "RELEASED"
    /\ mSubscribers[n] = {} <=> mState[n] = "RELEASED"
    /\ mState[n] \in {"PENDING", "ACQUIRED"} => Active(n) # {}
    /\ mState[n] = "RELEASING" => mInactive[n] # {}

Typed == /\ created \subseteq Nif
         /\ mState \in [Nif -> AgpsState]
         /\ mSubscribers \in [Nif -> SUBSET Handle]
         /\ mInactive \in [Nif -> SUBSET Handle]

LEMMA IInvIsPointwise == IInv <=> Typed /\ calls \in Calls /\ \A n \in Nif : MachineInv(n)
  BY DEF IInv, TypeOK, OnlyCreatedWork, ListedIffBusy, SomebodyWaits, Typed, MachineInv

\* An event of one machine leaves the other one alone.
LEMMA EventIsLocal ==
  ASSUME Typed, NEW n \in Nif, Event(n)
  PROVE  /\ mState' \in [Nif -> AgpsState]
         /\ mSubscribers' \in [Nif -> SUBSET Handle]
         /\ mInactive' \in [Nif -> SUBSET Handle]
         /\ \A m \in Nif \ {n} : /\ mState'[m] = mState[m]
                                /\ mSubscribers'[m] = mSubscribers[m]
                                /\ mInactive'[m] = mInactive[m]
<1> USE DEF Typed, AgpsState, TransitionState
<1>1. CASE \E h \in Handle : Subscribe(n, h)
  BY <1>1 DEF Subscribe, AddSubscriber
<1>2. CASE \E h \in mSubscribers[n] : Unsubscribe(n, h)
  BY <1>2 DEF Unsubscribe
<1>3. CASE Granted(n)
  BY <1>3 DEF Granted
<1>4. CASE Released(n)
  BY <1>4 DEF Released, FinishRelease, DeleteSubscribers
<1>5. CASE Denied(n)
  BY <1>5 DEF Denied, FinishRelease, DeleteSubscribers
<1> QED  BY <1>1, <1>2, <1>3, <1>4, <1>5 DEF Event

\* The callbacks of an event are well formed.
LEMMA EventCalls ==
  ASSUME Typed, NEW n \in Nif, Event(n)
  PROVE  calls' \in Calls
<1> USE DEF Typed, Calls, Quiet, NoConn, Call, Request, Release,
            NotifyOpened, NotifyFailed, NotifyClosed
<1>0. Active(n) \subseteq Handle /\ mSubscribers[n] \subseteq Handle /\ mInactive[n] \subseteq Handle
  BY DEF Active
<1>1. CASE \E h \in Handle : Subscribe(n, h)
  BY <1>1 DEF Subscribe
<1>2. CASE \E h \in mSubscribers[n] : Unsubscribe(n, h)
  BY <1>2 DEF Unsubscribe
<1>3. CASE Granted(n)
  BY <1>0, <1>3 DEF Granted
<1>4. CASE Released(n)
  BY <1>0, <1>4 DEF Released, FinishRelease
<1>5. CASE Denied(n)
  BY <1>0, <1>5 DEF Denied, FinishRelease
<1> QED  BY <1>1, <1>2, <1>3, <1>4, <1>5 DEF Event

\* An event of a machine keeps that machine's invariant.
LEMMA EventKeepsMachine ==
  ASSUME Typed, NEW n \in created, n \in Nif, MachineInv(n), Event(n), UNCHANGED created
  PROVE  MachineInv(n)'
<1> USE DEF Typed, AgpsState, TransitionState, MachineInv, Active
<1>1. CASE \E h \in Handle : Subscribe(n, h)
  BY <1>1 DEF Subscribe, AddSubscriber
<1>2. CASE \E h \in mSubscribers[n] : Unsubscribe(n, h)
  BY <1>2 DEF Unsubscribe
<1>3. CASE Granted(n)
  BY <1>3 DEF Granted
<1>4. CASE FinishRelease(n)
  <2>1. /\ mSubscribers'[n] = mSubscribers[n] \ mInactive[n]
        /\ mInactive'[n] = {}
    BY <1>4 DEF FinishRelease, DeleteSubscribers
  <2>2. \/ Active(n) # {} /\ mState'[n] = "PENDING"
        \/ Active(n) = {} /\ mState'[n] = "RELEASED"
    BY <1>4 DEF FinishRelease
  <2> QED  BY <2>1, <2>2
<1>5. CASE Released(n) /\ ~ FinishRelease(n)
  BY <1>5 DEF Released, DeleteSubscribers
<1>6. CASE Denied(n) /\ ~ FinishRelease(n)
  BY <1>6 DEF Denied, DeleteSubscribers
<1> QED  BY <1>1, <1>2, <1>3, <1>4, <1>5, <1>6 DEF Event

LEMMA InductiveStep == IInv /\ [Next]_vars => IInv'
<1> SUFFICES ASSUME IInv, [Next]_vars PROVE IInv'
  OBVIOUS
<1>1. Typed /\ calls \in Calls /\ \A n \in Nif : MachineInv(n)
  BY IInvIsPointwise
<1>2. CASE UNCHANGED created /\ \E n \in created \cap Nif : Event(n)
  <2>1. PICK n \in created \cap Nif : Event(n)
    BY <1>2
  <2>2. Typed'
    BY <1>1, <1>2, <2>1, EventIsLocal DEF Typed
  <2>3. calls' \in Calls
    BY <1>1, <2>1, EventCalls
  <2>4. MachineInv(n)'
    BY <1>1, <1>2, <2>1, EventKeepsMachine
  <2>5. \A m \in Nif \ {n} : MachineInv(m)'
    BY <1>1, <1>2, <2>1, EventIsLocal DEF MachineInv, Active
  <2> QED  BY <2>2, <2>3, <2>4, <2>5 DEF IInv, TypeOK, OnlyCreatedWork, ListedIffBusy,
         SomebodyWaits, Typed, MachineInv
<1>3. CASE /\ created \subseteq created' /\ created' \subseteq created \cup Nif
           /\ UNCHANGED machines
           /\ calls' = Quiet \/ \E h \in Handle : calls' = NotifyFailed({h})
  <2>1. calls' \in Calls
    BY <1>3 DEF Calls, Quiet, NotifyFailed, Call, NoConn
  <2>2. Typed' /\ \A n \in Nif : MachineInv(n)'
    BY <1>1, <1>3 DEF machines, Typed, MachineInv, Active
  <2> QED  BY <2>1, <2>2 DEF IInv, TypeOK, OnlyCreatedWork, ListedIffBusy, SomebodyWaits,
         Typed, MachineInv
<1>4. CASE UNCHANGED vars
  BY <1>1, <1>4 DEF vars, IInv, TypeOK, OnlyCreatedWork, ListedIffBusy, SomebodyWaits, Active
<1> QED  BY <1>2, <1>3, <1>4, StepIsEvent

\* In every reachable state a machine has subscribers exactly when it is not
\* RELEASED, and whoever it waits for is on its list.
THEOREM InvariantHolds == Spec => []IInv
<1>1. Init => IInv
  BY DEF Init, IInv, TypeOK, OnlyCreatedWork, ListedIffBusy, SomebodyWaits, AgpsState,
         Calls, Quiet, Call, NoConn
<1> QED  BY <1>1, InductiveStep, PTL DEF Spec

-----------------------------------------------------------------------------
(* What a step may do *)

\* A handle leaves a machine's list only in a step that tells it how its
\* request or its release ended.
THEOREM HandlesAreToldWhenDelisted == Spec => NobodyForgotten
<1> DEFINE Told == \A n \in Nif : mSubscribers[n] \ mSubscribers'[n]
                                     \subseteq calls'.failed \cup calls'.closed
<1>1. ASSUME IInv, Next PROVE Told
  <2> USE DEF Call, NotifyFailed, NotifyClosed
  <2>1. CASE \E n \in created \cap Nif : Event(n)
    <3>1. PICK n \in created \cap Nif : Event(n)
      BY <2>1
    <3>2. Typed
      BY <1>1, IInvIsPointwise
    <3>3. \A m \in Nif \ {n} : mSubscribers'[m] = mSubscribers[m]
      BY <3>1, <3>2, EventIsLocal
    <3>4. mSubscribers[n] \ mSubscribers'[n] \subseteq calls'.failed \cup calls'.closed
      <4> USE <3>2 DEF Typed
      <4>1. CASE \E h \in Handle : Subscribe(n, h)
        BY <4>1 DEF Subscribe, AddSubscriber
      <4>2. CASE \E h \in mSubscribers[n] : Unsubscribe(n, h)
        BY <4>2 DEF Unsubscribe
      <4>3. CASE Granted(n)
        BY <4>3 DEF Granted
      <4>4. CASE FinishRelease(n)
        BY <4>4 DEF FinishRelease, DeleteSubscribers
      <4>5. CASE (Released(n) \/ Denied(n)) /\ ~ FinishRelease(n)
        BY <4>5 DEF Released, Denied, DeleteSubscribers
      <4> QED  BY <3>1, <4>1, <4>2, <4>3, <4>4, <4>5 DEF Event
    <3> QED  BY <3>3, <3>4
  <2>2. CASE UNCHANGED machines
    BY <2>2 DEF machines
  <2> QED  BY <1>1, <2>1, <2>2, StepIsEvent
<1>2. IInv /\ [Next]_vars => [Told]_vars
  BY <1>1
<1> QED  BY <1>2, InvariantHolds, PTL DEF Spec, NobodyForgotten

\* Whatever order the modem and the platform call in, the requests and the
\* releases the component sends to the platform alternate.
THEOREM ImplementsDataConn == Spec => DataConnSpec
<1>1. Init => Conn!Init
  BY DEF Init, Conn!Init, Conn!NoCall, Quiet, Call, NoConn, ConnPhase, PhaseOf
<1>2. ASSUME IInv, Next PROVE Conn!Next
  <2>1. CASE \E n \in created \cap Nif : Event(n)
    <3>1. PICK n \in created \cap Nif : Event(n)
      BY <2>1
    <3>2. Typed /\ Typed' /\ MachineInv(n)
      BY <1>1, <1>2, IInvIsPointwise, InductiveStep DEF Typed, IInv, TypeOK
    <3>3. \A m \in Nif \ {n} : mState'[m] = mState[m]
      BY <3>1, <3>2, EventIsLocal
    <3> DEFINE Step(from, to, c) == /\ mState[n] \in from /\ mState'[n] = to
                                    /\ calls'.conn = c
    <3>4. \/ Step({"RELEASED"}, "PENDING", Request(n))
          \/ Step({"RELEASING"}, "PENDING", Request(n))
          \/ Step({"PENDING", "ACQUIRED"}, "RELEASING", Release(n))
          \/ Step({"PENDING", "ACQUIRED"}, "RELEASED", NoConn)
          \/ Step({"RELEASING"}, "RELEASED", NoConn)
          \/ Step({"PENDING"}, "ACQUIRED", NoConn)
          \/ Step(AgpsState, mState[n], NoConn)
      <4> USE <3>2 DEF Typed, TransitionState, Call, Quiet, NotifyFailed, NotifyClosed,
                       NotifyOpened
      <4>1. CASE \E h \in Handle : Subscribe(n, h)
        BY <4>1 DEF Subscribe
      <4>2. CASE \E h \in mSubscribers[n] : Unsubscribe(n, h)
        BY <4>2 DEF Unsubscribe
      <4>3. CASE Granted(n)
        BY <4>3 DEF Granted
      <4>4. CASE FinishRelease(n)
        BY <4>4 DEF FinishRelease
      <4>5. CASE (Released(n) \/ Denied(n)) /\ ~ FinishRelease(n)
        BY <4>5 DEF Released, Denied
      <4> QED  BY <3>1, <4>1, <4>2, <4>3, <4>4, <4>5 DEF Event
    <3>5. /\ ConnPhase[n] = PhaseOf(mState[n])
          /\ ConnPhase' = [ConnPhase EXCEPT ![n] = PhaseOf(mState'[n])]
      BY <3>1, <3>3 DEF ConnPhase
    <3> USE <3>1, <3>5
        DEF PhaseOf, Request, Release, NoConn, Conn!Move, Conn!CallFor, Conn!NoCall
    <3>6. CASE Step({"RELEASED"}, "PENDING", Request(n))
      BY <3>6 DEF Conn!Next, Conn!Request
    <3>7. CASE Step({"RELEASING"}, "PENDING", Request(n))
      BY <3>7 DEF Conn!Next, Conn!Reopen
    <3>8. CASE Step({"PENDING", "ACQUIRED"}, "RELEASING", Release(n))
      BY <3>8 DEF Conn!Next, Conn!Release
    <3>9. CASE Step({"PENDING", "ACQUIRED"}, "RELEASED", NoConn)
      BY <3>9 DEF Conn!Next, Conn!Lost
    <3>10. CASE Step({"RELEASING"}, "RELEASED", NoConn)
      BY <3>10 DEF Conn!Next, Conn!Closed
    <3>11. CASE Step({"PENDING"}, "ACQUIRED", NoConn) \/ Step(AgpsState, mState[n], NoConn)
      <4>1. ConnPhase' = ConnPhase
        BY <3>11 DEF ConnPhase
      <4> QED  BY <3>11, <4>1 DEF Conn!Next, Conn!Silent
    <3> QED  BY <3>4, <3>6, <3>7, <3>8, <3>9, <3>10, <3>11
  <2>2. CASE /\ UNCHANGED machines
             /\ calls' = Quiet \/ \E h \in Handle : calls' = NotifyFailed({h})
    BY <2>2 DEF Conn!Next, Conn!Silent, Conn!NoCall, machines, Quiet, NotifyFailed,
                 Call, NoConn, ConnPhase
  <2> QED  BY <1>2, <2>1, <2>2, StepIsEvent
<1>3. UNCHANGED vars => UNCHANGED <<ConnPhase, calls.conn>>
  BY DEF vars, ConnPhase
<1>4. IInv /\ [Next]_vars => [Conn!Next]_<<ConnPhase, calls.conn>>
  BY <1>2, <1>3
<1> QED  BY <1>1, <1>4, InvariantHolds, PTL DEF Spec, DataConnSpec, Conn!Spec

-----------------------------------------------------------------------------
(* The whole system: what is under way in the adapter's queue *)

\* Messages of A come at most once, some comes, and one of Z comes after all of them.
AtMostOne(q, A) == \A i, j \in 1..Len(q) : q[i] \in A /\ q[j] \in A => i = j
Comes(q, A) == \E i \in 1..Len(q) : q[i] \in A
EndsWith(q, Z, A) == \E j \in 1..Len(q) : q[j] \in Z /\ \A i \in 1..Len(q) : q[i] \in A => i < j

Asks(h) == {MsgRequest(h, t) : t \in AgpsType}
Gives(h) == {MsgRelease(h)}

\* A handle is asked for in the queue or listed by one machine, if the modem uses it; a
\* release that is still to be handled comes after the request that it is for.
HandleInv(h) ==
    /\ AtMostOne(queue, Asks(h))
    /\ \A m, n \in Nif : h \in mSubscribers[m] /\ h \in mSubscribers[n] => m = n
    /\ session[h] = "idle" => ~Comes(queue, Asks(h)) /\ \A n \in Nif : h \notin mSubscribers[n]
    /\ session[h] # "idle" =>
          (Comes(queue, Asks(h)) <=> \A n \in Nif : h \notin mSubscribers[n])
    /\ session[h] = "opening" =>
          /\ ~EndsWith(queue, Gives(h), Asks(h))
          /\ \A n \in Nif : h \in mSubscribers[n] =>
                h \notin mInactive[n] /\ mState[n] \in {"PENDING", "RELEASING"}
    /\ session[h] = "open" =>
          /\ ~Comes(queue, Asks(h)) /\ ~EndsWith(queue, Gives(h), Asks(h))
          /\ \A n \in Nif : h \in mSubscribers[n] => h \notin mInactive[n] /\ mState[n] = "ACQUIRED"
    /\ session[h] = "closing" =>
          EndsWith(queue, Gives(h), Asks(h)) \/ \E n \in Nif : h \in mInactive[n]

SysIInv == SysTypeOK /\ IInv /\ \A h \in Handle : HandleInv(h)

\* With a modem that releases only what it was granted.
OrderlyHandle(h) ==
    session[h] = "closing" =>
        /\ ~Comes(queue, Asks(h))
        /\ \A n \in Nif : h \in Active(n) => mState[n] = "ACQUIRED"

Opens(n) == {MsgReport("atlOpenSuccess", n)}
Fails(n) == {MsgReport("atlOpenFailed", n)}
Answers(n) == Opens(n) \cup Fails(n)
Closes(n) == {MsgReport("atlClosed", n)}

\* With the reports on n in q, a machine in state s fits a connection that is up or not.
Fits(q, s, up, n) ==
    /\ AtMostOne(q, Answers(n))
    /\ Comes(q, Answers(n)) => s = "PENDING"
    /\ s = "ACQUIRED" \/ Comes(q, Opens(n)) => (up <=> ~EndsWith(q, Closes(n), Answers(n)))
    /\ s = "RELEASED" \/ Comes(q, Fails(n)) => ~up
    /\ s = "RELEASING" /\ EndsWith(q, Closes(n), Answers(n)) => ~up

ConnFits(n) == Fits(queue, mState[n], held[n], n)

\* The framework has one request at most to answer, and no answer to it is under way.
InboxFits ==
    /\ AtMostOne(inbox, {"request"})
    /\ Comes(inbox, {"request"}) =>
          mState["AGNSS"] = "PENDING" /\ ~Comes(queue, Answers("AGNSS"))

NoQueries == wds = <<>> /\ \A n \in Nif : ~InQueue(MsgReport("atlPdn", n))

OrderlyIInv == ~releaseEarly =>
    /\ \A h \in Handle : OrderlyHandle(h)
    /\ \A n \in Nif : ConnFits(n)
    /\ InboxFits /\ NoQueries

-----------------------------------------------------------------------------
(* Lemmas about the queue *)

LEMMA TailView ==
  ASSUME NEW S, NEW q \in Seq(S), q # <<>>, NEW A, NEW Z, A \cap Z = {}
  PROVE  /\ Tail(q) \in Seq(S) /\ Head(q) \in S
         /\ AtMostOne(q, A) => AtMostOne(Tail(q), A)
         /\ Comes(q, A) <=> Head(q) \in A \/ Comes(Tail(q), A)
         /\ Head(q) \in A /\ AtMostOne(q, A) => ~Comes(Tail(q), A)
         /\ EndsWith(Tail(q), Z, A) => EndsWith(q, Z, A)
         /\ Head(q) \notin Z \/ Comes(Tail(q), A) =>
               (EndsWith(Tail(q), Z, A) <=> EndsWith(q, Z, A))
<1> DEFINE p == Tail(q)
<1>1. /\ p \in Seq(S) /\ Head(q) \in S /\ Head(q) = q[1]
      /\ Len(p) = Len(q) - 1 /\ Len(q) \in Nat \ {0}
      /\ \A i \in 1..Len(p) : p[i] = q[i + 1]
  OBVIOUS
<1> HIDE DEF p
<1>2. /\ \A i \in 1..Len(p) : i + 1 \in 1..Len(q) /\ i + 1 # 1
      /\ \A i \in 1..Len(q) : i = 1 \/ (i - 1 \in 1..Len(p) /\ (i - 1) + 1 = i)
      /\ 1 \in 1..Len(q)
      /\ \A i, j \in 1..Len(p) : (i + 1 = j + 1 => i = j) /\ (i < j <=> i + 1 < j + 1)
  BY <1>1
<1>3. AtMostOne(q, A) => AtMostOne(p, A)
  BY <1>1, <1>2 DEF AtMostOne
<1>4. \A i \in 1..Len(q) : i # 1 => i - 1 \in 1..Len(p) /\ p[i - 1] = q[i]
  BY <1>1, <1>2
<1>5. Comes(q, A) <=> Head(q) \in A \/ Comes(p, A)
  <2>1. ASSUME Comes(q, A), Head(q) \notin A PROVE Comes(p, A)
    <3>1. PICK i \in 1..Len(q) : q[i] \in A
      BY <2>1 DEF Comes
    <3>2. i # 1
      BY <1>1, <2>1, <3>1
    <3> QED  BY <1>4, <3>1, <3>2 DEF Comes
  <2>2. Head(q) \in A \/ Comes(p, A) => Comes(q, A)
    BY <1>1, <1>2 DEF Comes
  <2> QED  BY <2>1, <2>2
<1>6. ASSUME Head(q) \in A, AtMostOne(q, A) PROVE ~Comes(p, A)
  BY <1>1, <1>2, <1>6 DEF Comes, AtMostOne
<1>7. ASSUME EndsWith(p, Z, A) PROVE EndsWith(q, Z, A)
  <2>1. PICK j \in 1..Len(p) : p[j] \in Z /\ \A i \in 1..Len(p) : p[i] \in A => i < j
    BY <1>7 DEF EndsWith
  <2>2. q[j + 1] \in Z /\ j + 1 \in 1..Len(q)
    BY <1>1, <1>2, <2>1
  <2>3. ASSUME NEW i \in 1..Len(q), q[i] \in A PROVE i < j + 1
    <3>1. CASE i = 1
      BY <3>1
    <3>2. CASE i # 1
      <4>1. i - 1 \in 1..Len(p) /\ p[i - 1] \in A
        BY <1>4, <2>3, <3>2
      <4>2. i - 1 < j
        BY <2>1, <4>1
      <4> QED  BY <4>2
    <3> QED  BY <3>1, <3>2
  <2> QED  BY <2>2, <2>3 DEF EndsWith
<1>8. ASSUME Head(q) \notin Z \/ Comes(p, A), EndsWith(q, Z, A) PROVE EndsWith(p, Z, A)
  <2>1. PICK j \in 1..Len(q) : q[j] \in Z /\ \A i \in 1..Len(q) : q[i] \in A => i < j
    BY <1>8 DEF EndsWith
  <2>2. j # 1
    <3>1. CASE Head(q) \notin Z
      BY <1>1, <2>1, <3>1
    <3>2. CASE Comes(p, A)
      <4>1. PICK i \in 1..Len(p) : p[i] \in A
        BY <3>2 DEF Comes
      <4>2. i + 1 < j
        BY <1>1, <1>2, <2>1, <4>1
      <4> QED  BY <4>2
    <3> QED  BY <1>8, <3>1, <3>2
  <2>3. j - 1 \in 1..Len(p) /\ p[j - 1] \in Z
    BY <1>4, <2>1, <2>2
  <2>4. ASSUME NEW i \in 1..Len(p), p[i] \in A PROVE i < j - 1
    <3>1. i + 1 < j
      BY <1>1, <1>2, <2>1, <2>4
    <3> QED  BY <3>1
  <2> QED  BY <2>3, <2>4 DEF EndsWith
<1> QED  BY <1>1, <1>3, <1>5, <1>6, <1>7, <1>8 DEF p

LEMMA AppendView ==
  ASSUME NEW S, NEW q \in Seq(S), NEW m \in S, NEW A, NEW Z, A \cap Z = {}
  PROVE  /\ Append(q, m) \in Seq(S)
         /\ m \notin A => /\ AtMostOne(q, A) => AtMostOne(Append(q, m), A)
                          /\ Comes(Append(q, m), A) <=> Comes(q, A)
         /\ m \notin A /\ m \notin Z => (EndsWith(Append(q, m), Z, A) <=> EndsWith(q, Z, A))
         /\ m \in Z => EndsWith(Append(q, m), Z, A)
         /\ m \in A => /\ Comes(Append(q, m), A) /\ ~EndsWith(Append(q, m), Z, A)
                       /\ ~Comes(q, A) => AtMostOne(Append(q, m), A)
<1> DEFINE p == Append(q, m)
           n == Len(q)
<1>1. /\ p \in Seq(S) /\ Len(p) = n + 1 /\ n \in Nat /\ p[n + 1] = m
      /\ \A i \in 1..n : p[i] = q[i]
  OBVIOUS
<1> HIDE DEF p, n
<1>2. /\ n + 1 \in 1..Len(p) /\ \A i \in 1..n : i \in 1..Len(p) /\ i < n + 1
      /\ \A i \in 1..Len(p) : i = n + 1 \/ i \in 1..n
  BY <1>1
<1>3. ASSUME m \notin A
      PROVE  (AtMostOne(q, A) => AtMostOne(p, A)) /\ (Comes(p, A) <=> Comes(q, A))
  <2>1. \A i \in 1..Len(p) : p[i] \in A => i \in 1..n /\ q[i] \in A
    BY <1>1, <1>2, <1>3
  <2> QED  BY <1>1, <1>2, <2>1 DEF AtMostOne, Comes, n
<1>4. ASSUME m \notin A, m \notin Z PROVE EndsWith(p, Z, A) <=> EndsWith(q, Z, A)
  <2>1. \A i \in 1..Len(p) : p[i] \in A \cup Z => i \in 1..n /\ q[i] = p[i]
    BY <1>1, <1>2, <1>4
  <2>2. \A i \in 1..n : i \in 1..Len(p) /\ q[i] = p[i]
    BY <1>1, <1>2
  <2>3. EndsWith(q, Z, A) <=> \E j \in 1..n : q[j] \in Z /\ \A i \in 1..n : q[i] \in A => i < j
    BY DEF EndsWith, n
  <2>4. ASSUME EndsWith(p, Z, A) PROVE \E j \in 1..n : q[j] \in Z /\ \A i \in 1..n : q[i] \in A => i < j
    <3>1. PICK j \in 1..Len(p) : p[j] \in Z /\ \A i \in 1..Len(p) : p[i] \in A => i < j
      BY <2>4 DEF EndsWith
    <3>2. j \in 1..n /\ q[j] \in Z
      BY <2>1, <3>1
    <3>3. \A i \in 1..n : q[i] \in A => i < j
      BY <2>2, <3>1
    <3> QED  BY <3>2, <3>3
  <2>5. ASSUME NEW j \in 1..n, q[j] \in Z, \A i \in 1..n : q[i] \in A => i < j PROVE EndsWith(p, Z, A)
    <3>1. j \in 1..Len(p) /\ p[j] \in Z
      BY <2>2, <2>5
    <3>2. \A i \in 1..Len(p) : p[i] \in A => i < j
      BY <2>1, <2>5
    <3> QED  BY <3>1, <3>2 DEF EndsWith
  <2> QED  BY <2>3, <2>4, <2>5
<1>5. ASSUME m \in Z PROVE EndsWith(p, Z, A)
  <2>1. \A i \in 1..Len(p) : p[i] \in A => i < n + 1
    BY <1>1, <1>2, <1>5
  <2> QED  BY <1>1, <1>2, <1>5, <2>1 DEF EndsWith
<1>6. ASSUME m \in A PROVE Comes(p, A) /\ ~EndsWith(p, Z, A)
  <2>1. Comes(p, A)
    BY <1>1, <1>2, <1>6 DEF Comes
  <2>2. ASSUME NEW j \in 1..Len(p), p[j] \in Z, \A i \in 1..Len(p) : p[i] \in A => i < j PROVE FALSE
    <3>1. n + 1 < j
      BY <1>1, <1>2, <1>6, <2>2
    <3> QED  BY <1>1, <3>1
  <2> QED  BY <2>1, <2>2 DEF EndsWith
<1>7. ASSUME m \in A, ~Comes(q, A) PROVE AtMostOne(p, A)
  <2>1. \A i \in 1..Len(p) : p[i] \in A => i = n + 1
    BY <1>1, <1>2, <1>7 DEF Comes, n
  <2> QED  BY <2>1 DEF AtMostOne
<1> QED  BY <1>1, <1>3, <1>4, <1>5, <1>6, <1>7 DEF p

-----------------------------------------------------------------------------
(* The system's steps as the component's *)

LEMMA MsgKinds ==
  ASSUME NEW m \in Msgs
  PROVE  /\ m.kind = "init" => m.nifs \in SUBSET Nif
         /\ m.kind = "requestATL" => m.handle \in Handle /\ m.type \in AgpsType /\ m = MsgRequest(m.handle, m.type)
         /\ m.kind = "releaseATL" => m.handle \in Handle /\ m = MsgRelease(m.handle)
         /\ m.kind \in Reports => m.nif \in Nif /\ m = MsgReport(m.kind, m.nif)
<1>1. CASE m \in {MsgInit({n}) : n \in Nif}
  BY <1>1 DEF MsgInit, Reports
<1>2. CASE m \in {MsgRequest(h, t) : h \in Handle, t \in AgpsType}
  BY <1>2 DEF MsgRequest, Reports
<1>3. CASE m \in {MsgRelease(h) : h \in Handle}
  BY <1>3 DEF MsgRelease, Reports
<1>4. CASE m \in {MsgReport(k, n) : k \in Reports, n \in Nif}
  BY <1>4 DEF MsgReport, Reports
<1> QED  BY <1>1, <1>2, <1>3, <1>4 DEF Msgs

\* Which messages ask for a handle, and which give it back.
LEMMA MsgAbout ==
  ASSUME NEW m \in Msgs, NEW h \in Handle
  PROVE  /\ m \in Asks(h) <=> m.kind = "requestATL" /\ m.handle = h
         /\ m \in Gives(h) <=> m.kind = "releaseATL" /\ m.handle = h
         /\ Asks(h) \cap Gives(h) = {} /\ Asks(h) \subseteq Msgs /\ Gives(h) \subseteq Msgs
         /\ \A n \in Nif : /\ m \in Answers(n) <=> m.kind \in {"atlOpenSuccess", "atlOpenFailed"} /\ m.nif = n
                           /\ m \in Closes(n) <=> m.kind = "atlClosed" /\ m.nif = n
                           /\ Answers(n) \cap Closes(n) = {}
<1>1. \A t \in AgpsType : MsgRequest(h, t).kind = "requestATL" /\ MsgRequest(h, t).handle = h
  BY DEF MsgRequest
<1>2. MsgRelease(h).kind = "releaseATL" /\ MsgRelease(h).handle = h
  BY DEF MsgRelease
<1>3. \A k \in Reports, n \in Nif : MsgReport(k, n).kind = k /\ MsgReport(k, n).nif = n
  BY DEF MsgReport
<1>4. m \in Asks(h) <=> m.kind = "requestATL" /\ m.handle = h
  BY <1>1, MsgKinds DEF Asks
<1>5. m \in Gives(h) <=> m.kind = "releaseATL" /\ m.handle = h
  BY <1>2, MsgKinds DEF Gives
<1>6. Asks(h) \cap Gives(h) = {} /\ Asks(h) \subseteq Msgs /\ Gives(h) \subseteq Msgs
  <2>1. Asks(h) \cap Gives(h) = {}
    BY <1>1, <1>2 DEF Asks, Gives
  <2> QED  BY <2>1 DEF Asks, Gives, Msgs
<1>7. ASSUME NEW n \in Nif
      PROVE  /\ m \in Answers(n) <=> m.kind \in {"atlOpenSuccess", "atlOpenFailed"} /\ m.nif = n
             /\ m \in Closes(n) <=> m.kind = "atlClosed" /\ m.nif = n
             /\ Answers(n) \cap Closes(n) = {}
  <2>1. {"atlOpenSuccess", "atlOpenFailed", "atlClosed"} \subseteq Reports
    BY DEF Reports
  <2> QED  BY <1>3, <2>1, MsgKinds DEF Answers, Opens, Fails, Closes
<1> QED  BY <1>4, <1>5, <1>6, <1>7

\* What the adapter's thread does with the message at the head.
Handled == \/ \E N \in SUBSET Nif : CreateStateMachines(N) /\ Head(queue).kind = "init"
           \/ \E g \in Handle, t \in AgpsType : RequestATL(g, t) /\ Head(queue) = MsgRequest(g, t)
           \/ \E g \in Handle : ReleaseATL(g) /\ Head(queue) = MsgRelease(g)
           \/ \E n \in Nif : /\ ReportAtlOpenSuccess(n)
                             /\ Head(queue) \in {MsgReport("atlOpenSuccess", n), MsgReport("atlPdn", n)}
           \/ \E n \in Nif : ReportAtlOpenFailed(n) /\ Head(queue) = MsgReport("atlOpenFailed", n)
           \/ \E n \in Nif : ReportAtlClosed(n) /\ Head(queue) = MsgReport("atlClosed", n)
           \/ \E n \in Nif : /\ CreateStateMachines({}) /\ Head(queue) = MsgReport("atlOpenSuccess", n)
                             /\ WdsQuery

LEMMA AdapterHandles ==
  ASSUME SysTypeOK, Adapter
  PROVE  /\ queue # <<>> /\ Handled /\ CarryOut(Tail(queue)) /\ UNCHANGED mConnected
         /\ Head(queue) \in Msgs /\ Tail(queue) \in Seq(Msgs) /\ wds' \in Seq(Nif)
         /\ UNCHANGED wds \/ (WdsQuery /\ Head(queue).kind = "atlOpenSuccess")
<1>1. queue # <<>> /\ CarryOut(Tail(queue)) /\ UNCHANGED mConnected
  BY DEF Adapter, ProcInit, ProcRequest, ProcRelease, ProcOpenSuccess, ProcOpenQuery, ProcPdn,
         ProcOpenFailed, ProcClosed, Next_
<1>2. Head(queue) \in Msgs /\ Tail(queue) \in Seq(Msgs)
  BY <1>1 DEF SysTypeOK
<1> DEFINE m == Head(queue)
<1>3. CASE ProcInit
  BY <1>2, <1>3, MsgKinds DEF ProcInit, Next_, Handled, SysTypeOK
<1>4. CASE ProcRequest
  BY <1>2, <1>4, MsgKinds DEF ProcRequest, Next_, Handled, SysTypeOK
<1>5. CASE ProcRelease
  BY <1>2, <1>5, MsgKinds DEF ProcRelease, Next_, Handled, SysTypeOK
<1>6. CASE ProcOpenSuccess
  BY <1>2, <1>6, MsgKinds DEF ProcOpenSuccess, Next_, Handled, SysTypeOK, Reports
<1>7. CASE ProcOpenQuery
  <2>1. m.kind = "atlOpenSuccess" /\ calls' = Quiet /\ UNCHANGED <<created, machines>> /\ WdsQuery
        /\ wds' = Append(wds, m.nif)
    BY <1>7 DEF ProcOpenQuery, Next_
  <2>2. m.nif \in Nif /\ m = MsgReport("atlOpenSuccess", m.nif)
    BY <1>2, <2>1, MsgKinds DEF Reports
  <2>3. CreateStateMachines({}) 
    BY <2>1 DEF CreateStateMachines
  <2>4. wds' \in Seq(Nif)
    BY <2>1, <2>2 DEF SysTypeOK
  <2> QED  BY <1>1, <1>2, <2>1, <2>2, <2>3, <2>4 DEF Handled
<1>8. CASE ProcPdn
  BY <1>2, <1>8, MsgKinds DEF ProcPdn, Next_, Handled, SysTypeOK, Reports
<1>9. CASE ProcOpenFailed
  BY <1>2, <1>9, MsgKinds DEF ProcOpenFailed, Next_, Handled, SysTypeOK, Reports
<1>10. CASE ProcClosed
  BY <1>2, <1>10, MsgKinds DEF ProcClosed, Next_, Handled, SysTypeOK, Reports
<1> QED  BY <1>1, <1>2, <1>3, <1>4, <1>5, <1>6, <1>7, <1>8, <1>9, <1>10 DEF Adapter

LEMMA HandledIsNext == ASSUME Handled PROVE Next
BY DEF Handled, Next

\* A report that NativeAgpsHandler posts is all that the callbacks add to the queue.
NativeReports == {MsgReport(k, "Internet") : k \in {"atlOpenSuccess", "atlOpenFailed", "atlClosed"}}

LEMMA CarriedOut ==
  ASSUME SysTypeOK, calls' \in Calls, NEW rest \in Seq(Msgs), CarryOut(rest)
  PROVE  /\ NotifyModem /\ queue' \in Seq(Msgs)
         /\ queue' = rest \/ \E m \in NativeReports : queue' = Append(rest, m)
         /\ inbox' \in Seq({"request", "release"}) /\ held' \in [Nif -> BOOLEAN]
         /\ session' \in [Handle -> SessionState]
<1>1. NativeReports \subseteq Msgs
  BY DEF NativeReports, Msgs, Reports, Nif
<1>2. session' \in [Handle -> SessionState] /\ NotifyModem
  BY DEF CarryOut, NotifyModem, SysTypeOK, SessionState
<1>3. CASE calls'.conn = NoConn /\ queue' = rest /\ UNCHANGED platform
  BY <1>2, <1>3 DEF SysTypeOK, platform
<1>4. CASE calls'.conn.nif = "Internet" /\ NativeHandler(rest)
  <2>1. PICK answer \in NativeAnswers(calls'.conn = Request("Internet")) : queue' = rest \o answer
    BY <1>4 DEF NativeHandler
  <2>2. answer = <<>> \/ \E m \in NativeReports : answer = <<m>>
    BY <2>1 DEF NativeAnswers, NativeReports
  <2>3. CASE answer = <<>>
    <3>1. queue' = rest
      BY <2>1, <2>3
    <3> QED  BY <1>2, <1>4, <3>1 DEF NativeHandler, SysTypeOK
  <2>4. CASE \E m \in NativeReports : answer = <<m>>
    <3>1. PICK m \in NativeReports : answer = <<m>>
      BY <2>4
    <3>2. m \in Msgs
      BY <1>1
    <3>3. queue' = Append(rest, m) /\ queue' \in Seq(Msgs)
      BY <2>1, <3>1, <3>2
    <3> QED  BY <1>2, <1>4, <3>3 DEF NativeHandler, SysTypeOK
  <2> QED  BY <2>2, <2>3, <2>4
<1>5. CASE /\ calls'.conn.nif = "AGNSS"
           /\ inbox' = Append(inbox, calls'.conn.conn)
           /\ queue' = rest
           /\ UNCHANGED held
  <2>1. calls'.conn.conn \in {"request", "release"}
    BY <1>5 DEF Calls, NoConn
  <2>2. inbox' \in Seq({"request", "release"})
    BY <1>5, <2>1 DEF SysTypeOK
  <2> QED  BY <1>2, <1>5, <2>2 DEF SysTypeOK
<1> QED  BY <1>3, <1>4, <1>5 DEF CarryOut

\* The steps that leave the machines alone and post at most one message about no handle.
Elsewhere == \/ UNCHANGED queue
             \/ \E m \in Msgs : m.kind \notin {"requestATL", "releaseATL"} /\ queue' = Append(queue, m)

FwPosts == FwSetCallback \/ FwOpen \/ FwFail \/ FwClose \/ FwLost \/ NetworkChange \/ WdsAnswer

LEMMA FwPostsReports ==
  ASSUME SysTypeOK, FwPosts
  PROVE  /\ UNCHANGED <<vars, session>> /\ Elsewhere
         /\ queue' \in Seq(Msgs) /\ inbox' \in Seq({"request", "release"}) /\ held' \in [Nif -> BOOLEAN]
         /\ wds' \in Seq(Nif) /\ mConnected' \in BOOLEAN
<1>0. /\ queue \in Seq(Msgs) /\ inbox \in Seq({"request", "release"}) /\ held \in [Nif -> BOOLEAN]
      /\ wds \in Seq(Nif) /\ mConnected \in BOOLEAN
  BY DEF SysTypeOK
<1>1. \A k \in Reports, n \in Nif : MsgReport(k, n) \in Msgs /\ MsgReport(k, n).kind = k
  <2>1. \A k \in Reports, n \in Nif : MsgReport(k, n).kind = k
    BY DEF MsgReport
  <2>2. \A k \in Reports, n \in Nif : MsgReport(k, n) \in Msgs
    BY DEF Msgs
  <2> QED  BY <2>1, <2>2
<1>2. MsgInit({"AGNSS"}) \in Msgs /\ MsgInit({"AGNSS"}).kind = "init"
  BY DEF MsgInit, Msgs, Nif
<1>3. {"atlOpenSuccess", "atlOpenFailed", "atlClosed", "atlPdn"} \subseteq Reports /\ "AGNSS" \in Nif
  BY DEF Reports, Nif
<1>4. \A k \in Reports : k \notin {"requestATL", "releaseATL"}
  BY DEF Reports
<1>5. ASSUME NEW m \in Msgs, m.kind \notin {"requestATL", "releaseATL"}, queue' = Append(queue, m)
      PROVE  Elsewhere /\ queue' \in Seq(Msgs)
  BY <1>0, <1>5 DEF Elsewhere
<1>6. ASSUME NEW call, NEW k \in Reports, NEW up \in BOOLEAN, FwAnswer(call, k, up)
      PROVE  /\ UNCHANGED <<vars, session, wds, mConnected>> /\ Elsewhere
             /\ queue' \in Seq(Msgs) /\ inbox' \in Seq({"request", "release"}) /\ held' \in [Nif -> BOOLEAN]
  <2>1. Elsewhere /\ queue' \in Seq(Msgs)
    BY <1>1, <1>3, <1>4, <1>5, <1>6 DEF FwAnswer, Post
  <2>2. inbox' \in Seq({"request", "release"})
    BY <1>0, <1>6 DEF FwAnswer
  <2>3. held' \in [Nif -> BOOLEAN]
    BY <1>0, <1>6 DEF FwAnswer
  <2> QED  BY <1>6, <2>1, <2>2, <2>3 DEF FwAnswer
<1>7. CASE FwSetCallback
  <2>1. Elsewhere /\ queue' \in Seq(Msgs)
    BY <1>2, <1>5, <1>7 DEF FwSetCallback, Post
  <2> QED  BY <1>0, <1>7, <2>1 DEF FwSetCallback, platform
<1>8. CASE FwOpen \/ FwFail \/ FwClose
  BY <1>0, <1>3, <1>6, <1>8 DEF FwOpen, FwFail, FwClose
<1>9. CASE FwLost
  <2>1. Elsewhere /\ queue' \in Seq(Msgs)
    BY <1>1, <1>3, <1>4, <1>5, <1>9 DEF FwLost, Post
  <2> QED  BY <1>0, <1>9, <2>1 DEF FwLost
<1>10. CASE NetworkChange
  BY <1>0, <1>10 DEF NetworkChange, platform, Elsewhere
<1>11. CASE WdsAnswer
  <2>1. Head(wds) \in Nif /\ wds' \in Seq(Nif)
    BY <1>0, <1>11 DEF WdsAnswer
  <2>2. Elsewhere /\ queue' \in Seq(Msgs)
    BY <1>1, <1>3, <1>4, <1>5, <1>11, <2>1 DEF WdsAnswer, Post
  <2> QED  BY <1>0, <1>11, <2>1, <2>2 DEF WdsAnswer, platform
<1> QED  BY <1>7, <1>8, <1>9, <1>10, <1>11 DEF FwPosts

\* dataConnOpenCommand with a bad APN.
LEMMA BadApnIsClosed ==
  ASSUME SysTypeOK, IInv, FwOpenBadApn
  PROVE  /\ ReportAtlClosed("AGNSS") /\ NotifyModem /\ Next /\ UNCHANGED <<queue, mConnected, wds>>
         /\ inbox' \in Seq({"request", "release"}) /\ held' \in [Nif -> BOOLEAN]
         /\ session' \in [Handle -> SessionState]
<1>1. /\ ReportAtlClosed("AGNSS") /\ NotifyModem /\ UNCHANGED <<queue, mConnected, wds>>
      /\ inbox # <<>> /\ held' = [held EXCEPT !["AGNSS"] = TRUE]
      /\ inbox' = Tail(inbox) \o (IF calls'.conn = NoConn THEN <<>> ELSE <<calls'.conn.conn>>)
  BY DEF FwOpenBadApn
<1>2. Next
  BY <1>1 DEF Next, Nif
<1>3. calls' \in Calls
  BY <1>2, InductiveStep DEF IInv, TypeOK
<1>4. inbox' \in Seq({"request", "release"})
  <2>1. Tail(inbox) \in Seq({"request", "release"})
    BY <1>1 DEF SysTypeOK
  <2>2. calls'.conn # NoConn => calls'.conn.conn \in {"request", "release"}
    BY <1>3 DEF Calls
  <2>3. CASE calls'.conn = NoConn
    BY <1>1, <2>1, <2>3
  <2>4. CASE calls'.conn # NoConn
    BY <1>1, <2>1, <2>2, <2>4
  <2> QED  BY <2>3, <2>4
<1>5. session' \in [Handle -> SessionState]
  BY <1>1 DEF NotifyModem, SysTypeOK, SessionState
<1> QED  BY <1>1, <1>2, <1>4, <1>5 DEF SysTypeOK

LEMMA SysStepIsNext ==
  ASSUME SysTypeOK, IInv, [SysNext]_sysVars
  PROVE  [Next]_vars /\ IInv' /\ SysTypeOK'
<1>0. /\ queue \in Seq(Msgs) /\ inbox \in Seq({"request", "release"}) /\ held \in [Nif -> BOOLEAN]
      /\ wds \in Seq(Nif) /\ mConnected \in BOOLEAN /\ releaseEarly \in BOOLEAN
      /\ session \in [Handle -> SessionState] /\ TypeOK
  BY DEF SysTypeOK
<1>1. [Next]_vars => IInv' /\ TypeOK'
  BY InductiveStep DEF IInv
<1>2. CASE UNCHANGED sysVars
  BY <1>0, <1>1, <1>2 DEF sysVars, platform, SysTypeOK
<1>3. CASE Adapter /\ UNCHANGED releaseEarly
  <2>1. Next /\ CarryOut(Tail(queue)) /\ UNCHANGED mConnected /\ Tail(queue) \in Seq(Msgs) /\ wds' \in Seq(Nif)
    BY <1>3, AdapterHandles, HandledIsNext
  <2>2. calls' \in Calls
    BY <1>1, <2>1 DEF TypeOK
  <2> QED  BY <1>0, <1>1, <1>3, <2>1, <2>2, CarriedOut DEF SysTypeOK
<1>4. CASE FwPosts /\ UNCHANGED releaseEarly
  BY <1>0, <1>1, <1>4, FwPostsReports DEF SysTypeOK
<1>5. CASE FwOpenBadApn /\ UNCHANGED releaseEarly
  BY <1>0, <1>1, <1>5, BadApnIsClosed DEF SysTypeOK
<1>6. ASSUME NEW h \in Handle, NEW t \in ReqType, ModemRequest(h, t), UNCHANGED releaseEarly
      PROVE  [Next]_vars /\ IInv' /\ SysTypeOK'
  <2>1. MsgRequest(h, t) \in Msgs
    BY AgpsSystemAssumption DEF AgpsSystemAssumption, Msgs
  <2>2. queue' \in Seq(Msgs)
    BY <1>0, <1>6, <2>1 DEF ModemRequest, Post
  <2>3. session' \in [Handle -> SessionState]
    BY <1>0, <1>6 DEF ModemRequest, SessionState
  <2> QED  BY <1>0, <1>1, <1>6, <2>2, <2>3 DEF ModemRequest, SysTypeOK, platform
<1>7. ASSUME NEW h \in Handle, ModemRelease(h), UNCHANGED releaseEarly
      PROVE  [Next]_vars /\ IInv' /\ SysTypeOK'
  <2>1. MsgRelease(h) \in Msgs
    BY DEF Msgs
  <2>2. queue' \in Seq(Msgs)
    BY <1>0, <1>7, <2>1 DEF ModemRelease, Post
  <2>3. session' \in [Handle -> SessionState]
    BY <1>0, <1>7 DEF ModemRelease, SessionState
  <2> QED  BY <1>0, <1>1, <1>7, <2>2, <2>3 DEF ModemRelease, SysTypeOK, platform
<1> QED  BY <1>2, <1>3, <1>4, <1>5, <1>6, <1>7 DEF SysNext, FwPosts, Framework

-----------------------------------------------------------------------------
(* What the modem knows of a handle *)

ViewKept(h) == /\ AtMostOne(queue, Asks(h)) => AtMostOne(queue', Asks(h))
               /\ Comes(queue', Asks(h)) <=> Comes(queue, Asks(h))
               /\ EndsWith(queue', Gives(h), Asks(h)) <=> EndsWith(queue, Gives(h), Asks(h))

LEMMA ElsewhereKeepsView ==
  ASSUME SysTypeOK, NEW h \in Handle, Elsewhere PROVE ViewKept(h)
<1>1. CASE UNCHANGED queue
  BY <1>1 DEF ViewKept
<1>2. CASE \E m \in Msgs : m.kind \notin {"requestATL", "releaseATL"} /\ queue' = Append(queue, m)
  <2>1. PICK m \in Msgs : m.kind \notin {"requestATL", "releaseATL"} /\ queue' = Append(queue, m)
    BY <1>2
  <2>2. m \notin Asks(h) /\ m \notin Gives(h) /\ Asks(h) \cap Gives(h) = {}
    BY <2>1, MsgAbout
  <2>3. queue \in Seq(Msgs)
    BY DEF SysTypeOK
  <2> QED  BY <2>1, <2>2, <2>3, AppendView DEF ViewKept
<1> QED  BY <1>1, <1>2 DEF Elsewhere

\* A handle after an event of a machine that is not about it in particular.
LEMMA EventKeepsHandle ==
  ASSUME SysTypeOK, IInv, NEW h \in Handle, HandleInv(h), NEW n \in Nif,
         Granted(n) \/ Released(n) \/ Denied(n), NotifyModem, ViewKept(h), IInv'
  PROVE  HandleInv(h)'
<1>1. Typed /\ MachineInv(n)
  BY IInvIsPointwise
<1>2. \A m \in Nif \ {n} : /\ mState'[m] = mState[m] /\ mSubscribers'[m] = mSubscribers[m]
                           /\ mInactive'[m] = mInactive[m]
  BY <1>1, EventIsLocal DEF Event
<1>3. session'[h] = IF h \in calls'.failed \cup calls'.closed THEN "idle"
                    ELSE IF h \in calls'.opened /\ session[h] = "opening" THEN "open"
                    ELSE session[h]
  BY DEF NotifyModem
<1>4. session[h] \in {"idle", "opening", "open", "closing"}
  BY DEF SysTypeOK, SessionState
<1> DEFINE Keeps == mState'[n] = mState[n] /\ mSubscribers'[n] = mSubscribers[n]
                    /\ mInactive'[n] = mInactive[n]
           Ends(S) == /\ mState'[n] \in {"RELEASED", "PENDING"}
                      /\ mSubscribers'[n] = mSubscribers[n] \ S /\ mInactive'[n] = mInactive[n] \ S
                      /\ calls'.opened = {} /\ calls'.failed \cup calls'.closed = S
<1>5. \/ Keeps /\ calls'.opened = {} /\ calls'.failed \cup calls'.closed = {}
      \/ /\ mState[n] = "PENDING" /\ mState'[n] = "ACQUIRED" /\ UNCHANGED <<mSubscribers, mInactive>>
         /\ calls'.opened = mSubscribers[n] \ mInactive[n] /\ calls'.failed \cup calls'.closed = {}
      \/ Ends(mSubscribers[n])
      \/ mState[n] = "RELEASING" /\ Ends(mInactive[n])
  <2> USE <1>1 DEF Typed, AgpsState, TransitionState, DeleteSubscribers, Quiet, NotifyOpened, NotifyClosed,
                   NotifyFailed, Call, Active
  <2>1. CASE Granted(n)
    BY <2>1 DEF Granted
  <2>2. CASE FinishRelease(n)
    BY <2>2 DEF FinishRelease
  <2>3. CASE (Released(n) \/ Denied(n)) /\ ~FinishRelease(n)
    BY <2>3 DEF Released, Denied
  <2> QED  BY <2>1, <2>2, <2>3
<1> USE <1>1, <1>2, <1>3, <1>4 DEF HandleInv, ViewKept, MachineInv
<1>6. CASE Keeps /\ calls'.opened = {} /\ calls'.failed \cup calls'.closed = {}
  BY <1>6
<1>7. CASE /\ mState[n] = "PENDING" /\ mState'[n] = "ACQUIRED" /\ UNCHANGED <<mSubscribers, mInactive>>
           /\ calls'.opened = mSubscribers[n] \ mInactive[n] /\ calls'.failed \cup calls'.closed = {}
  BY <1>7
<1>8. CASE Ends(mSubscribers[n])
  BY <1>8
<1>9. CASE mState[n] = "RELEASING" /\ Ends(mInactive[n])
  <2>1. \A m \in Nif : mSubscribers'[m] \subseteq mSubscribers[m] /\ mInactive[m] \subseteq mSubscribers[m]
    BY <1>9, IInvIsPointwise
  <2>2. CASE h \in mInactive[n]
    <3>1. \A m \in Nif : h \notin mSubscribers'[m]
      BY <1>9, <2>1, <2>2
    <3>2. session'[h] = "idle" /\ ~Comes(queue, Asks(h))
      BY <1>9, <2>1, <2>2
    <3> QED  BY <3>1, <3>2
  <2>3. CASE h \notin mInactive[n]
    <3>1. session'[h] = session[h]
      BY <1>9, <2>3
    <3>2. \A m \in Nif : /\ h \in mSubscribers'[m] <=> h \in mSubscribers[m]
                         /\ h \in mInactive'[m] <=> h \in mInactive[m]
      BY <1>9, <2>3
    <3>3. \A m \in Nif : mState'[m] = mState[m] \/ (mState[m] = "RELEASING" /\ mState'[m] \in {"RELEASED", "PENDING"})
      BY <1>9
    <3>4. \A m \in Nif : mState'[m] = "RELEASED" /\ h \in mSubscribers'[m] => FALSE
      BY DEF IInv, ListedIffBusy
    <3> QED  BY <3>1, <3>2, <3>3, <3>4
  <2> QED  BY <2>2, <2>3
<1> QED  BY <1>5, <1>6, <1>7, <1>8, <1>9

\* The message at the head is taken.
Taken(h) ==
    LET m == Head(queue)
    IN  /\ AtMostOne(queue, Asks(h)) => AtMostOne(queue', Asks(h))
        /\ Comes(queue, Asks(h)) <=> m \in Asks(h) \/ Comes(queue', Asks(h))
        /\ m \in Asks(h) /\ AtMostOne(queue, Asks(h)) => ~Comes(queue', Asks(h))
        /\ EndsWith(queue', Gives(h), Asks(h)) => EndsWith(queue, Gives(h), Asks(h))
        /\ m \notin Gives(h) \/ Comes(queue', Asks(h)) =>
              (EndsWith(queue', Gives(h), Asks(h)) <=> EndsWith(queue, Gives(h), Asks(h)))

LEMMA AdapterTakes ==
  ASSUME SysTypeOK, IInv, Adapter, NEW h \in Handle
  PROVE  Taken(h) /\ NotifyModem
<1>1. queue # <<>> /\ Next /\ CarryOut(Tail(queue)) /\ Tail(queue) \in Seq(Msgs) /\ queue \in Seq(Msgs)
  BY AdapterHandles, HandledIsNext DEF SysTypeOK
<1>2. calls' \in Calls
  BY <1>1, InductiveStep DEF IInv, TypeOK
<1>3. NotifyModem /\ (queue' = Tail(queue) \/ \E m \in NativeReports : queue' = Append(Tail(queue), m))
  BY <1>1, <1>2, CarriedOut
<1>4. Asks(h) \cap Gives(h) = {}
  <2>1. MsgRelease(h) \in Msgs
    BY DEF Msgs
  <2> QED  BY <2>1, MsgAbout
<1> DEFINE p == Tail(queue)
           A == Asks(h)
           Z == Gives(h)
<1>t. /\ AtMostOne(queue, A) => AtMostOne(p, A)
      /\ Comes(queue, A) <=> Head(queue) \in A \/ Comes(p, A)
      /\ Head(queue) \in A /\ AtMostOne(queue, A) => ~Comes(p, A)
      /\ EndsWith(p, Z, A) => EndsWith(queue, Z, A)
      /\ Head(queue) \notin Z \/ Comes(p, A) => (EndsWith(p, Z, A) <=> EndsWith(queue, Z, A))
  <2>1. A \cap Z = {}
    BY <1>4
  <2> HIDE DEF A, Z
  <2> QED  BY <1>1, <2>1, TailView
<1>5. CASE queue' = Tail(queue)
  BY <1>3, <1>t, <1>5 DEF Taken
<1>6. CASE \E m \in NativeReports : queue' = Append(Tail(queue), m)
  <2>1. PICK m \in NativeReports : queue' = Append(Tail(queue), m)
    BY <1>6
  <2>2. m \in Msgs /\ m.kind \notin {"requestATL", "releaseATL"}
    <3>1. m \in Msgs
      BY DEF NativeReports, Msgs, Reports, Nif
    <3>2. m.kind \notin {"requestATL", "releaseATL"}
      BY DEF NativeReports, MsgReport
    <3> QED  BY <3>1, <3>2
  <2>3. m \notin Asks(h) /\ m \notin Gives(h)
    BY <2>2, MsgAbout
  <2>4. /\ AtMostOne(p, Asks(h)) => AtMostOne(queue', Asks(h))
        /\ Comes(queue', Asks(h)) <=> Comes(p, Asks(h))
        /\ EndsWith(queue', Gives(h), Asks(h)) <=> EndsWith(p, Gives(h), Asks(h))
    BY <1>1, <1>4, <2>1, <2>2, <2>3, AppendView
  <2> HIDE DEF p
  <2> QED  BY <1>3, <1>t, <2>4 DEF Taken
<1> QED  BY <1>3, <1>5, <1>6

LEMMA RequestKeepsHandle ==
  ASSUME SysTypeOK, IInv, NEW h \in Handle, HandleInv(h), NEW g \in Handle, NEW t \in AgpsType,
         RequestATL(g, t), Head(queue) = MsgRequest(g, t), Taken(h), NotifyModem, HandleInv(g), IInv'
  PROVE  HandleInv(h)'
<1> DEFINE n == NifOf(t)
<1>1. n \in Nif /\ Typed /\ MachineInv(n)
  BY IInvIsPointwise DEF AgpsType, NifOf, Nif
<1>2. /\ session'[h] = IF h \in calls'.failed \cup calls'.closed THEN "idle"
                       ELSE IF h \in calls'.opened /\ session[h] = "opening" THEN "open"
                       ELSE session[h]
      /\ session[h] \in {"idle", "opening", "open", "closing"}
  BY DEF NotifyModem, SysTypeOK, SessionState
<1>3. (Head(queue) \in Asks(h) <=> g = h) /\ Head(queue) \notin Gives(h)
  <2>1. MsgRequest(g, t) \in Msgs
    BY DEF Msgs
  <2>2. MsgRequest(g, t).kind = "requestATL" /\ MsgRequest(g, t).handle = g
    BY DEF MsgRequest
  <2> QED  BY <2>1, <2>2, MsgAbout
<1>4. /\ AtMostOne(queue', Asks(h))
      /\ Comes(queue, Asks(h)) <=> g = h \/ Comes(queue', Asks(h))
      /\ g = h => ~Comes(queue', Asks(h))
      /\ EndsWith(queue', Gives(h), Asks(h)) <=> EndsWith(queue, Gives(h), Asks(h))
  BY <1>3 DEF Taken, HandleInv
<1>5. \/ /\ n \notin created /\ UNCHANGED machines
         /\ calls'.opened = {} /\ calls'.failed = {g} /\ calls'.closed = {}
      \/ /\ n \in created /\ mInactive' = mInactive /\ mSubscribers' \in [Nif -> SUBSET Handle]
         /\ mSubscribers'[n] = mSubscribers[n] \cup {g}
         /\ \A m \in Nif \ {n} : mSubscribers'[m] = mSubscribers[m] /\ mState'[m] = mState[m]
         /\ calls'.failed = {} /\ calls'.closed = {}
         /\ \/ mState[n] = "RELEASED" /\ mState'[n] = "PENDING" /\ calls'.opened = {}
            \/ mState[n] \in {"PENDING", "RELEASING"} /\ mState'[n] = mState[n] /\ calls'.opened = {}
            \/ mState[n] = "ACQUIRED" /\ mState'[n] = mState[n] /\ calls'.opened = {g}
  <2> USE <1>1 DEF Typed, AgpsState, TransitionState, Quiet, NotifyOpened, NotifyFailed, Call
  <2>1. CASE n \in created /\ Subscribe(n, g)
    BY <2>1 DEF Subscribe, AddSubscriber
  <2>2. CASE n \notin created /\ calls' = NotifyFailed({g}) /\ UNCHANGED machines
    BY <2>2
  <2> QED  BY <2>1, <2>2 DEF RequestATL
<1>6. /\ \A m \in Nif : mInactive[m] \subseteq mSubscribers[m]
      /\ \A m \in Nif : mState[m] = "RELEASED" => mSubscribers[m] = {}
  BY DEF IInv, ListedIffBusy
<1> HIDE DEF n
<1>7. CASE g = h
  <2>1. /\ Comes(queue, Asks(h)) /\ session[h] # "idle" /\ session[h] # "open"
        /\ \A m \in Nif : h \notin mSubscribers[m] /\ h \notin mInactive[m]
    BY <1>2, <1>4, <1>6, <1>7 DEF HandleInv
  <2>2. CASE n \notin created
    <3>1. session'[h] = "idle" /\ \A m \in Nif : h \notin mSubscribers'[m]
      BY <1>2, <1>5, <1>7, <2>1, <2>2 DEF machines
    <3> QED  BY <1>4, <1>7, <3>1 DEF HandleInv
  <2>3. CASE n \in created
    <3>1. /\ \A m \in Nif : h \in mSubscribers'[m] <=> m = n
          /\ \A m \in Nif : h \notin mInactive'[m]
      BY <1>1, <1>5, <1>7, <2>1, <2>3
    <3>2. CASE session[h] = "opening"
      <4>1. ~EndsWith(queue', Gives(h), Asks(h))
        BY <1>4, <3>2 DEF HandleInv
      <4>2. \/ session'[h] = "opening" /\ mState'[n] \in {"PENDING", "RELEASING"}
            \/ session'[h] = "open" /\ mState'[n] = "ACQUIRED"
        BY <1>2, <1>5, <1>7, <2>3, <3>2
      <4> QED  BY <1>1, <1>4, <1>7, <3>1, <4>1, <4>2 DEF HandleInv
    <3>3. CASE session[h] = "closing"
      <4>1. EndsWith(queue', Gives(h), Asks(h))
        BY <1>4, <2>1, <3>3 DEF HandleInv
      <4>2. session'[h] = "closing"
        BY <1>2, <1>5, <1>7, <2>3, <3>3
      <4> QED  BY <1>1, <1>4, <1>7, <3>1, <4>1, <4>2 DEF HandleInv
    <3> QED  BY <1>2, <2>1, <3>2, <3>3
  <2> QED  BY <2>2, <2>3
<1>8. CASE g # h
  <2>1. session'[h] = session[h]
    BY <1>2, <1>5, <1>8
  <2>2. \A m \in Nif : /\ h \in mSubscribers'[m] <=> h \in mSubscribers[m]
                       /\ mInactive'[m] = mInactive[m]
    BY <1>5, <1>8 DEF machines
  <2>3. \A m \in Nif : h \in mSubscribers[m] => mState'[m] = mState[m]
    BY <1>5, <1>6 DEF machines
  <2> QED  BY <1>4, <1>8, <2>1, <2>2, <2>3 DEF HandleInv
<1> QED  BY <1>7, <1>8

LEMMA ReleaseKeepsHandle ==
  ASSUME SysTypeOK, IInv, NEW h \in Handle, HandleInv(h), NEW g \in Handle,
         ReleaseATL(g), Head(queue) = MsgRelease(g), Taken(h), NotifyModem, queue # <<>>, IInv'
  PROVE  HandleInv(h)'
<1>1. Typed
  BY IInvIsPointwise
<1>2. /\ session'[h] = IF h \in calls'.failed \cup calls'.closed THEN "idle"
                       ELSE IF h \in calls'.opened /\ session[h] = "opening" THEN "open"
                       ELSE session[h]
      /\ session[h] \in {"idle", "opening", "open", "closing"}
  BY DEF NotifyModem, SysTypeOK, SessionState
<1>3. (Head(queue) \in Gives(h) <=> g = h) /\ Head(queue) \notin Asks(h)
  <2>1. MsgRelease(g) \in Msgs
    BY DEF Msgs
  <2>2. MsgRelease(g).kind = "releaseATL" /\ MsgRelease(g).handle = g
    BY DEF MsgRelease
  <2> QED  BY <2>1, <2>2, MsgAbout
<1>4. /\ AtMostOne(queue', Asks(h))
      /\ Comes(queue, Asks(h)) <=> Comes(queue', Asks(h))
      /\ EndsWith(queue', Gives(h), Asks(h)) => EndsWith(queue, Gives(h), Asks(h))
      /\ g # h \/ Comes(queue, Asks(h)) =>
            (EndsWith(queue', Gives(h), Asks(h)) <=> EndsWith(queue, Gives(h), Asks(h)))
  BY <1>3 DEF Taken, HandleInv
<1>5. /\ \A m \in Nif : mInactive[m] \subseteq mSubscribers[m]
      /\ \A m \in Nif : mState[m] = "RELEASED" => mSubscribers[m] = {}
      /\ \A m \in Nif : g \in mSubscribers[m] => m \in created
  BY DEF IInv, ListedIffBusy, OnlyCreatedWork
<1>6. \/ UNCHANGED machines /\ calls' = Quiet /\ \A m \in Nif : g \notin mSubscribers[m]
      \/ \E n \in Nif : g \in mSubscribers[n] /\ Unsubscribe(n, g)
  <2>1. CASE "AGNSS" \in ListedAt(g) /\ Unsubscribe("AGNSS", g)
    BY <2>1 DEF ListedAt, Nif
  <2>2. CASE ListedAt(g) = {"Internet"} /\ Unsubscribe("Internet", g)
    BY <2>2 DEF ListedAt, Nif
  <2>3. CASE ListedAt(g) = {} /\ calls' = Quiet /\ UNCHANGED machines
    BY <1>5, <2>3 DEF ListedAt
  <2> QED  BY <2>1, <2>2, <2>3 DEF ReleaseATL
<1>7. CASE UNCHANGED machines /\ calls' = Quiet /\ \A m \in Nif : g \notin mSubscribers[m]
  <2>1. session'[h] = session[h] /\ UNCHANGED <<mState, mSubscribers, mInactive>>
    BY <1>2, <1>7 DEF Quiet, Call, machines
  <2>2. g = h => session[h] = "idle" \/ Comes(queue, Asks(h))
    BY <1>7 DEF HandleInv
  <2> QED  BY <1>2, <1>4, <2>1, <2>2 DEF HandleInv
<1>8. ASSUME NEW n \in Nif, g \in mSubscribers[n], Unsubscribe(n, g) PROVE HandleInv(h)'
  <2>1. /\ mInactive'[n] = mInactive[n] \cup {g} /\ mSubscribers' = mSubscribers
        /\ \A m \in Nif \ {n} : mInactive'[m] = mInactive[m] /\ mState'[m] = mState[m]
        /\ \/ mState'[n] = mState[n]
           \/ mState[n] \in {"PENDING", "ACQUIRED"} /\ mState'[n] = "RELEASING" /\ Active(n) \subseteq {g}
    BY <1>1, <1>8 DEF Unsubscribe, Typed, TransitionState
  <2>2. calls'.opened = {} /\ calls'.failed = {} /\ calls'.closed = {}
    BY <1>8 DEF Unsubscribe, Call, Quiet
  <2>3. session'[h] = session[h]
    BY <1>2, <2>2
  <2>4. CASE g = h
    <3>1. ~Comes(queue, Asks(h)) /\ session[h] # "idle"
      BY <1>8, <2>4 DEF HandleInv
    <3>2. EndsWith(queue, Gives(h), Asks(h))
      <4>1. queue \in Seq(Msgs)
        BY DEF SysTypeOK
      <4>2. 1 \in 1..Len(queue) /\ queue[1] \in Gives(h)
        BY <1>3, <2>4, <4>1
      <4> QED  BY <3>1, <4>2 DEF EndsWith, Comes
    <3>3. session[h] = "closing"
      BY <1>2, <3>1, <3>2 DEF HandleInv
    <3> QED  BY <1>4, <1>8, <2>1, <2>3, <2>4, <3>3 DEF HandleInv
  <2>5. CASE g # h
    <3>1. \A m \in Nif : (h \in mInactive'[m] <=> h \in mInactive[m])
      BY <2>1, <2>5
    <3>2. \A m \in Nif : h \in mSubscribers[m] /\ h \notin mInactive[m] => mState'[m] = mState[m]
      BY <2>1, <2>5 DEF Active
    <3> QED  BY <1>4, <2>1, <2>3, <2>5, <3>1, <3>2 DEF HandleInv
  <2> QED  BY <2>4, <2>5
<1> QED  BY <1>6, <1>7, <1>8

\* The machines and the session alone, when no handle's messages come or go.
LEMMA IdleKeepsHandle ==
  ASSUME NEW h \in Handle, HandleInv(h), UNCHANGED <<machines, session>>, ViewKept(h)
  PROVE  HandleInv(h)'
BY DEF HandleInv, ViewKept, machines

LEMMA ReportIsEvent ==
  ASSUME NEW n \in Nif, ReportAtlOpenSuccess(n) \/ ReportAtlOpenFailed(n) \/ ReportAtlClosed(n)
  PROVE  (Granted(n) \/ Released(n) \/ Denied(n)) \/ (UNCHANGED machines /\ calls' = Quiet)
BY DEF ReportAtlOpenSuccess, ReportAtlOpenFailed, ReportAtlClosed, Report

LEMMA AdapterKeepsHandle ==
  ASSUME SysIInv, NEW h \in Handle, Adapter, IInv'
  PROVE  HandleInv(h)'
<1>1. SysTypeOK /\ IInv /\ HandleInv(h) /\ \A g \in Handle : HandleInv(g)
  BY DEF SysIInv
<1>2. queue # <<>> /\ Handled /\ Taken(h) /\ NotifyModem /\ Head(queue) \in Msgs
  BY <1>1, AdapterTakes, AdapterHandles
<1>3. ASSUME NEW g \in Handle, NEW t \in AgpsType, RequestATL(g, t), Head(queue) = MsgRequest(g, t)
      PROVE  HandleInv(h)'
  BY <1>1, <1>2, <1>3, RequestKeepsHandle
<1>4. ASSUME NEW g \in Handle, ReleaseATL(g), Head(queue) = MsgRelease(g)
      PROVE  HandleInv(h)'
  BY <1>1, <1>2, <1>4, ReleaseKeepsHandle
<1>5. Head(queue).kind \notin {"requestATL", "releaseATL"} => ViewKept(h)
  <2>1. Head(queue).kind \notin {"requestATL", "releaseATL"} => Head(queue) \notin Asks(h) /\ Head(queue) \notin Gives(h)
    BY <1>2, MsgAbout
  <2> QED  BY <1>2, <2>1 DEF Taken, ViewKept
<1>6. ASSUME UNCHANGED machines, calls' = Quiet, ViewKept(h) PROVE HandleInv(h)'
  <2>1. session' = session
    <3>1. session \in [Handle -> SessionState]
      BY <1>1 DEF SysTypeOK
    <3> QED  BY <1>2, <1>6, <3>1 DEF NotifyModem, Quiet, Call
  <2> QED  BY <1>1, <1>6, <2>1, IdleKeepsHandle
<1>7. ASSUME NEW n \in Nif, ReportAtlOpenSuccess(n) \/ ReportAtlOpenFailed(n) \/ ReportAtlClosed(n),
             NEW k \in Reports, Head(queue) = MsgReport(k, n)
      PROVE  HandleInv(h)'
  <2>1. ViewKept(h)
    BY <1>5, <1>7 DEF MsgReport, Reports
  <2>2. CASE Granted(n) \/ Released(n) \/ Denied(n)
    BY <1>1, <1>2, <2>1, <2>2, EventKeepsHandle
  <2> QED  BY <1>6, <1>7, <2>1, <2>2, ReportIsEvent
<1>8. {"atlOpenSuccess", "atlPdn", "atlOpenFailed", "atlClosed"} \subseteq Reports
  BY DEF Reports
<1>9. ASSUME NEW N \in SUBSET Nif, CreateStateMachines(N), Head(queue).kind \notin {"requestATL", "releaseATL"}
      PROVE  HandleInv(h)'
  BY <1>5, <1>6, <1>9 DEF CreateStateMachines
<1>10. CASE \E n \in Nif : /\ CreateStateMachines({}) /\ Head(queue) = MsgReport("atlOpenSuccess", n)
                           /\ WdsQuery
  BY <1>9, <1>10 DEF MsgReport
<1> QED  BY <1>2, <1>3, <1>4, <1>7, <1>8, <1>9, <1>10 DEF Handled

LEMMA ModemKeepsHandle ==
  ASSUME SysIInv, NEW h \in Handle, NEW g \in Handle,
         (\E t \in ReqType : ModemRequest(g, t)) \/ ModemRelease(g)
  PROVE  HandleInv(h)'
<1>1. /\ SysTypeOK /\ HandleInv(h) /\ queue \in Seq(Msgs) /\ session \in [Handle -> SessionState]
      /\ \A n \in Nif : mInactive[n] \subseteq mSubscribers[n]
  BY DEF SysIInv, SysTypeOK, IInv
<1>2. ASSUME NEW m \in Msgs, m \notin Asks(h), m \notin Gives(h), queue' = Append(queue, m) PROVE ViewKept(h)
  <2>1. Asks(h) \cap Gives(h) = {}
    BY <1>2, MsgAbout
  <2> QED  BY <1>1, <1>2, <2>1, AppendView DEF ViewKept
<1>3. CASE \E t \in ReqType : ModemRequest(g, t)
  <2>1. PICK t \in ReqType : ModemRequest(g, t)
    BY <1>3
  <2> DEFINE m == MsgRequest(g, t)
  <2>2. /\ session[g] = "idle" /\ session' = [session EXCEPT ![g] = "opening"]
        /\ queue' = Append(queue, m) /\ UNCHANGED machines
    BY <2>1 DEF ModemRequest, Post, vars, machines
  <2>3. m \in Msgs /\ m.kind = "requestATL" /\ m.handle = g
    <3>1. m \in Msgs
      BY AgpsSystemAssumption DEF AgpsSystemAssumption, Msgs
    <3> QED  BY <3>1 DEF MsgRequest
  <2>4. (m \in Asks(h) <=> g = h) /\ m \notin Gives(h) /\ Asks(h) \cap Gives(h) = {}
    BY <2>3, MsgAbout
  <2> HIDE DEF m
  <2>5. CASE g = h
    <3>1. Comes(queue', Asks(h)) /\ ~EndsWith(queue', Gives(h), Asks(h)) /\ AtMostOne(queue', Asks(h))
      <4> DEFINE A == Asks(h)
                 Z == Gives(h)
      <4>1. ~Comes(queue, A)
        BY <1>1, <2>2, <2>5 DEF HandleInv
      <4>2. m \in A /\ m \notin Z /\ A \cap Z = {}
        BY <2>4, <2>5
      <4> HIDE DEF A, Z
      <4>3. Comes(queue', A) /\ ~EndsWith(queue', Z, A) /\ AtMostOne(queue', A)
        BY <1>1, <2>2, <2>3, <4>1, <4>2, AppendView
      <4> QED  BY <4>3 DEF A, Z
    <3>2. session'[h] = "opening" /\ \A n \in Nif : h \notin mSubscribers[n]
      BY <1>1, <2>2, <2>5 DEF HandleInv
    <3> QED  BY <2>2, <3>1, <3>2 DEF HandleInv, machines
  <2>6. CASE g # h
    <3>1. ViewKept(h)
      BY <1>2, <2>2, <2>3, <2>4, <2>6
    <3>2. session'[h] = session[h]
      BY <1>1, <2>2, <2>6
    <3> QED  BY <1>1, <2>2, <3>1, <3>2 DEF HandleInv, ViewKept, machines
  <2> QED  BY <2>5, <2>6
<1>4. CASE ModemRelease(g)
  <2> DEFINE m == MsgRelease(g)
  <2>2. /\ session[g] \in {"opening", "open"} /\ session' = [session EXCEPT ![g] = "closing"]
        /\ queue' = Append(queue, m) /\ UNCHANGED machines
    BY <1>4 DEF ModemRelease, Post, vars, machines
  <2>3. m \in Msgs /\ m.kind = "releaseATL" /\ m.handle = g
    <3>1. m \in Msgs
      BY DEF Msgs
    <3> QED  BY <3>1 DEF MsgRelease
  <2>4. (m \in Gives(h) <=> g = h) /\ m \notin Asks(h) /\ Asks(h) \cap Gives(h) = {}
    BY <2>3, MsgAbout
  <2> HIDE DEF m
  <2>5. CASE g = h
    <3>1. /\ Comes(queue', Asks(h)) <=> Comes(queue, Asks(h))
          /\ EndsWith(queue', Gives(h), Asks(h)) /\ AtMostOne(queue', Asks(h))
      <4> DEFINE A == Asks(h)
                 Z == Gives(h)
      <4>1. AtMostOne(queue, A)
        BY <1>1 DEF HandleInv
      <4>2. m \in Z /\ m \notin A /\ A \cap Z = {}
        BY <2>4, <2>5
      <4> HIDE DEF A, Z
      <4>3. (Comes(queue', A) <=> Comes(queue, A)) /\ EndsWith(queue', Z, A) /\ AtMostOne(queue', A)
        BY <1>1, <2>2, <2>3, <4>1, <4>2, AppendView
      <4> QED  BY <4>3 DEF A, Z
    <3>2. session'[h] = "closing"
      BY <1>1, <2>2, <2>5
    <3> QED  BY <1>1, <2>2, <2>5, <3>1, <3>2 DEF HandleInv, machines
  <2>6. CASE g # h
    <3>1. ViewKept(h)
      BY <1>2, <2>2, <2>3, <2>4, <2>6
    <3>2. session'[h] = session[h]
      BY <1>1, <2>2, <2>6
    <3> QED  BY <1>1, <2>2, <3>1, <3>2 DEF HandleInv, ViewKept, machines
  <2> QED  BY <2>5, <2>6
<1> QED  BY <1>3, <1>4

LEMMA SysStarts == ASSUME SysInit PROVE SysIInv
<1>1. IInv
  BY DEF SysInit, Init, IInv, TypeOK, OnlyCreatedWork, ListedIffBusy, SomebodyWaits, AgpsState,
         Calls, Quiet, Call, NoConn
<1> DEFINE m == MsgInit({"Internet"})
<1>2. m \in Msgs /\ m.kind = "init" /\ queue = <<m>>
  <2>1. m \in Msgs
    BY DEF Msgs, Nif
  <2> QED  BY <2>1 DEF MsgInit, SysInit
<1> HIDE DEF m
<1>3. queue \in Seq(Msgs) /\ Len(queue) = 1 /\ queue[1] = m
  BY <1>2
<1>4. SysTypeOK
  <2>1. <<>> \in Seq({"request", "release"}) /\ <<>> \in Seq(Nif)
    OBVIOUS
  <2>2. held \in [Nif -> BOOLEAN] /\ session \in [Handle -> SessionState]
    BY DEF SysInit, SessionState
  <2>3. releaseEarly \in BOOLEAN
    BY AgpsSystemAssumption DEF AgpsSystemAssumption, SysInit
  <2> QED  BY <1>1, <1>3, <2>1, <2>2, <2>3 DEF SysInit, SysTypeOK, IInv
<1>5. ASSUME NEW h \in Handle PROVE HandleInv(h)
  <2>1. m \notin Asks(h)
    BY <1>2, MsgAbout
  <2>2. AtMostOne(queue, Asks(h)) /\ ~Comes(queue, Asks(h))
    BY <1>3, <2>1 DEF AtMostOne, Comes
  <2> QED  BY <2>2 DEF HandleInv, SysInit, Init
<1> QED  BY <1>1, <1>4, <1>5 DEF SysIInv

LEMMA SysStepKeeps == ASSUME SysIInv, [SysNext]_sysVars PROVE SysIInv'
<1>1. SysTypeOK /\ IInv /\ \A h \in Handle : HandleInv(h)
  BY DEF SysIInv
<1>2. IInv' /\ SysTypeOK'
  BY <1>1, SysStepIsNext
<1>3. ASSUME NEW h \in Handle PROVE HandleInv(h)'
  <2>1. CASE Adapter
    BY <1>2, <2>1, AdapterKeepsHandle
  <2>2. CASE FwPosts
    <3>1. UNCHANGED <<machines, session>> /\ ViewKept(h)
      BY <1>1, <2>2, FwPostsReports, ElsewhereKeepsView DEF vars, machines
    <3> QED  BY <1>1, <3>1, IdleKeepsHandle
  <2>3. CASE FwOpenBadApn
    <3>1. ReportAtlClosed("AGNSS") /\ NotifyModem /\ UNCHANGED queue
      BY <2>3 DEF FwOpenBadApn
    <3>2. ViewKept(h) /\ "AGNSS" \in Nif
      BY <3>1 DEF ViewKept, Nif
    <3>3. CASE Granted("AGNSS") \/ Released("AGNSS") \/ Denied("AGNSS")
      BY <1>1, <1>2, <3>1, <3>2, <3>3, EventKeepsHandle
    <3>4. CASE UNCHANGED machines /\ calls' = Quiet
      <4>1. session \in [Handle -> SessionState]
        BY <1>1 DEF SysTypeOK
      <4>2. session' = session
        BY <3>1, <3>4, <4>1 DEF NotifyModem, Quiet, Call
      <4> QED  BY <1>1, <3>2, <3>4, <4>2, IdleKeepsHandle
    <3> QED  BY <3>1, <3>2, <3>3, <3>4, ReportIsEvent
  <2>4. CASE \E g \in Handle : ModemRelease(g) \/ \E t \in ReqType : ModemRequest(g, t)
    BY <2>4, ModemKeepsHandle
  <2>5. CASE UNCHANGED sysVars
    BY <1>1, <2>5, IdleKeepsHandle DEF sysVars, vars, machines, ViewKept
  <2> QED  BY <2>1, <2>2, <2>3, <2>4, <2>5 DEF SysNext, FwPosts, Framework
<1> QED  BY <1>2, <1>3 DEF SysIInv

LEMMA SysIsSafe == ASSUME SysIInv PROVE SysTypeOK /\ SessionsTracked
<1> SUFFICES ASSUME NEW h \in Handle
             PROVE  /\ session[h] = "opening" =>
                         \/ \E t \in AgpsType : InQueue(MsgRequest(h, t))
                         \/ \E n \in Nif : h \in Active(n) /\ mState[n] \in {"PENDING", "RELEASING"}
                    /\ session[h] = "open" => \E n \in Nif : h \in Active(n) /\ mState[n] = "ACQUIRED"
                    /\ session[h] = "closing" =>
                         InQueue(MsgRelease(h)) \/ \E n \in Nif : h \in mInactive[n]
                    /\ session[h] = "idle" => \A n \in Nif : h \notin mSubscribers[n]
  BY DEF SysIInv, SessionsTracked
<1>1. HandleInv(h)
  BY DEF SysIInv
<1>2. Comes(queue, Asks(h)) => \E t \in AgpsType : InQueue(MsgRequest(h, t))
  BY DEF Comes, Asks, InQueue
<1>3. EndsWith(queue, Gives(h), Asks(h)) => InQueue(MsgRelease(h))
  BY DEF EndsWith, Gives, InQueue
<1> QED  BY <1>1, <1>2, <1>3 DEF HandleInv, Active

\* Whatever the modem, the platform and the adapter's thread do, and in whatever order, what
\* the modem believes of a handle is what the machines hold for it, up to the messages in the
\* adapter's queue: no handle is lost and none is left behind.
THEOREM SessionsAreTracked == SysSpec => []SessionsTracked
<1>1. SysInit => SysIInv
  BY SysStarts
<1>2. SysIInv /\ [SysNext]_sysVars => SysIInv'
  BY SysStepKeeps
<1>3. SysIInv => SessionsTracked
  BY SysIsSafe
<1> QED  BY <1>1, <1>2, <1>3, PTL DEF SysSpec

\* The system with its callers is an execution of the component alone, and keeps its types:
\* what is proved of Spec holds in the system.
THEOREM SystemUsesComponent == SysSpec => Spec /\ []SysTypeOK
<1>1. SysInit => SysIInv /\ Init
  BY SysStarts DEF SysInit
<1>2. SysIInv /\ [SysNext]_sysVars => SysIInv' /\ [Next]_vars
  BY SysStepKeeps, SysStepIsNext DEF SysIInv
<1>3. SysIInv => SysTypeOK
  BY DEF SysIInv
<1> QED  BY <1>1, <1>2, <1>3, PTL DEF SysSpec, Spec

-----------------------------------------------------------------------------
(* The reports on one interface *)

SameView(p, q, n) ==
    /\ AtMostOne(q, Answers(n)) => AtMostOne(p, Answers(n))
    /\ Comes(p, Opens(n)) <=> Comes(q, Opens(n))
    /\ Comes(p, Fails(n)) <=> Comes(q, Fails(n))
    /\ EndsWith(p, Closes(n), Answers(n)) <=> EndsWith(q, Closes(n), Answers(n))

LEMMA ReportKinds ==
  ASSUME NEW n \in Nif
  PROVE  /\ Opens(n) \subseteq Msgs /\ Fails(n) \subseteq Msgs /\ Closes(n) \subseteq Msgs
         /\ Opens(n) \cap Fails(n) = {} /\ Opens(n) \cap Closes(n) = {} /\ Fails(n) \cap Closes(n) = {}
         /\ \A m : m \in Opens(n) => m.kind = "atlOpenSuccess" /\ m.nif = n
         /\ \A m : m \in Fails(n) => m.kind = "atlOpenFailed" /\ m.nif = n
         /\ \A m : m \in Closes(n) => m.kind = "atlClosed" /\ m.nif = n
<1>1. \A k \in Reports : MsgReport(k, n).kind = k /\ MsgReport(k, n).nif = n /\ MsgReport(k, n) \in Msgs
  <2>1. \A k \in Reports : MsgReport(k, n) \in Msgs
    BY DEF Msgs
  <2>2. \A k \in Reports : MsgReport(k, n).kind = k /\ MsgReport(k, n).nif = n
    BY DEF MsgReport
  <2> QED  BY <2>1, <2>2
<1>2. {"atlOpenSuccess", "atlOpenFailed", "atlClosed"} \subseteq Reports
  BY DEF Reports
<1> QED  BY <1>1, <1>2 DEF Opens, Fails, Closes

LEMMA AnswersCome ==
  ASSUME NEW q, NEW n
  PROVE  Comes(q, Answers(n)) <=> Comes(q, Opens(n)) \/ Comes(q, Fails(n))
BY DEF Comes, Answers

\* The head of the queue is taken off it.
LEMMA ReportTail ==
  ASSUME NEW q \in Seq(Msgs), q # <<>>, NEW n \in Nif
  PROVE  LET m == Head(q)
             p == Tail(q)
         IN  /\ AtMostOne(q, Answers(n)) => AtMostOne(p, Answers(n))
             /\ Comes(q, Opens(n)) <=> m \in Opens(n) \/ Comes(p, Opens(n))
             /\ Comes(q, Fails(n)) <=> m \in Fails(n) \/ Comes(p, Fails(n))
             /\ m \in Answers(n) /\ AtMostOne(q, Answers(n)) => ~Comes(p, Opens(n)) /\ ~Comes(p, Fails(n))
             /\ m \in Closes(n) /\ ~Comes(p, Opens(n)) /\ ~Comes(p, Fails(n)) =>
                   EndsWith(q, Closes(n), Answers(n))
             /\ m \notin Closes(n) \/ Comes(p, Opens(n)) \/ Comes(p, Fails(n)) =>
                   (EndsWith(p, Closes(n), Answers(n)) <=> EndsWith(q, Closes(n), Answers(n)))
             /\ EndsWith(p, Closes(n), Answers(n)) => EndsWith(q, Closes(n), Answers(n))
<1> DEFINE A == Answers(n)
           O == Opens(n)
           F == Fails(n)
           Z == Closes(n)
           m == Head(q)
           p == Tail(q)
<1>1. A \cap Z = {} /\ O \cap Z = {} /\ F \cap Z = {} /\ A = O \cup F
  BY ReportKinds DEF Answers
<1>2. /\ Comes(q, A) <=> Comes(q, O) \/ Comes(q, F)
      /\ Comes(p, A) <=> Comes(p, O) \/ Comes(p, F)
  BY AnswersCome
<1> HIDE DEF A, O, F, Z
<1>3. /\ AtMostOne(q, A) => AtMostOne(p, A)
      /\ m \in A /\ AtMostOne(q, A) => ~Comes(p, A)
      /\ Comes(q, A) <=> m \in A \/ Comes(p, A)
      /\ EndsWith(p, Z, A) => EndsWith(q, Z, A)
      /\ m \notin Z \/ Comes(p, A) => (EndsWith(p, Z, A) <=> EndsWith(q, Z, A))
  BY <1>1, TailView
<1>4. Comes(q, O) <=> m \in O \/ Comes(p, O)
  BY <1>1, TailView
<1>5. Comes(q, F) <=> m \in F \/ Comes(p, F)
  BY <1>1, TailView
<1>6. m \in Z /\ ~Comes(p, A) => EndsWith(q, Z, A)
  <2>1. SUFFICES ASSUME m \in Z, ~Comes(p, A) PROVE EndsWith(q, Z, A)
    OBVIOUS
  <2>2. ~Comes(q, A)
    BY <1>1, <1>3, <2>1
  <2>3. 1 \in 1..Len(q) /\ q[1] = m
    OBVIOUS
  <2> HIDE DEF m
  <2> QED  BY <2>1, <2>2, <2>3 DEF EndsWith, Comes
<1> HIDE DEF m, p
<1>7. /\ AtMostOne(q, A) => AtMostOne(p, A)
      /\ Comes(q, O) <=> m \in O \/ Comes(p, O)
      /\ Comes(q, F) <=> m \in F \/ Comes(p, F)
      /\ m \in A /\ AtMostOne(q, A) => ~Comes(p, O) /\ ~Comes(p, F)
      /\ m \in Z /\ ~Comes(p, O) /\ ~Comes(p, F) => EndsWith(q, Z, A)
      /\ m \notin Z \/ Comes(p, O) \/ Comes(p, F) => (EndsWith(p, Z, A) <=> EndsWith(q, Z, A))
      /\ EndsWith(p, Z, A) => EndsWith(q, Z, A)
  BY <1>2, <1>3, <1>4, <1>5, <1>6
<1> QED  BY <1>7 DEF A, O, F, Z, m, p

\* A message is put at the end of it.
LEMMA ReportAppend ==
  ASSUME NEW q \in Seq(Msgs), NEW m \in Msgs, NEW n \in Nif
  PROVE  LET p == Append(q, m)
         IN  /\ m \notin Answers(n) \cup Closes(n) => SameView(p, q, n)
             /\ m \in Closes(n) => /\ AtMostOne(q, Answers(n)) => AtMostOne(p, Answers(n))
                                   /\ Comes(p, Opens(n)) <=> Comes(q, Opens(n))
                                   /\ Comes(p, Fails(n)) <=> Comes(q, Fails(n))
                                   /\ EndsWith(p, Closes(n), Answers(n))
             /\ m \in Answers(n) /\ ~Comes(q, Answers(n)) =>
                   /\ AtMostOne(p, Answers(n))
                   /\ Comes(p, Opens(n)) <=> m \in Opens(n)
                   /\ Comes(p, Fails(n)) <=> m \in Fails(n)
                   /\ ~EndsWith(p, Closes(n), Answers(n))
<1> DEFINE A == Answers(n)
           O == Opens(n)
           F == Fails(n)
           Z == Closes(n)
           p == Append(q, m)
<1>1. A \cap Z = {} /\ O \cap Z = {} /\ F \cap Z = {} /\ A = O \cup F
  BY ReportKinds DEF Answers
<1>2. Comes(q, A) <=> Comes(q, O) \/ Comes(q, F)
  BY AnswersCome
<1> HIDE DEF A, O, F, Z
<1>3. /\ m \notin A => (AtMostOne(q, A) => AtMostOne(p, A))
      /\ m \notin A /\ m \notin Z => (EndsWith(p, Z, A) <=> EndsWith(q, Z, A))
      /\ m \in Z => EndsWith(p, Z, A)
      /\ m \in A => ~EndsWith(p, Z, A) /\ (~Comes(q, A) => AtMostOne(p, A))
  BY <1>1, AppendView
<1>4. (m \notin O => (Comes(p, O) <=> Comes(q, O))) /\ (m \in O => Comes(p, O))
  BY <1>1, AppendView
<1>5. (m \notin F => (Comes(p, F) <=> Comes(q, F))) /\ (m \in F => Comes(p, F))
  BY <1>1, AppendView
<1> HIDE DEF p
<1>6. m \notin A \cup Z => /\ AtMostOne(q, A) => AtMostOne(p, A)
                           /\ Comes(p, O) <=> Comes(q, O)
                           /\ Comes(p, F) <=> Comes(q, F)
                           /\ EndsWith(p, Z, A) <=> EndsWith(q, Z, A)
  BY <1>1, <1>3, <1>4, <1>5
<1>7. m \in Z => /\ AtMostOne(q, A) => AtMostOne(p, A)
                 /\ Comes(p, O) <=> Comes(q, O)
                 /\ Comes(p, F) <=> Comes(q, F)
                 /\ EndsWith(p, Z, A)
  BY <1>1, <1>3, <1>4, <1>5
<1>8. m \in A /\ ~Comes(q, A) => /\ AtMostOne(p, A)
                                 /\ Comes(p, O) <=> m \in O
                                 /\ Comes(p, F) <=> m \in F
                                 /\ ~EndsWith(p, Z, A)
  BY <1>1, <1>2, <1>3, <1>4, <1>5
<1> QED  BY <1>6, <1>7, <1>8 DEF A, O, F, Z, p, SameView

-----------------------------------------------------------------------------
(* What one call of the AgpsManager does to the machine of an interface *)

OrderlyState == /\ SysIInv /\ NoQueries
                /\ \A h \in Handle : OrderlyHandle(h)
                /\ \A n \in Nif : ConnFits(n)

Quietly(n) == calls'.conn # Request(n) /\ calls'.conn # Release(n)
About(n) == Answers(n) \cup Closes(n)
Moves(n, from, to) == mState[n] = from /\ mState'[n] = to

Stays(n)  == /\ mState'[n] = mState[n] /\ Quietly(n)
             /\ Head(queue) \notin Answers(n)
             /\ Head(queue) \in Closes(n) => mState[n] \in {"RELEASED", "PENDING"}
Opens1(n) == Moves(n, "RELEASED", "PENDING") /\ calls'.conn = Request(n) /\ Head(queue) \notin About(n)
Closes1(n) == Moves(n, "ACQUIRED", "RELEASING") /\ calls'.conn = Release(n) /\ Head(queue) \notin About(n)
IsGranted(n) == Moves(n, "PENDING", "ACQUIRED") /\ Quietly(n) /\ Head(queue) \in Opens(n)
IsDenied(n) == Moves(n, "PENDING", "RELEASED") /\ Quietly(n) /\ Head(queue) \in Fails(n)
IsClosed(n) == /\ Head(queue) \in Closes(n)
               /\ mState[n] \in {"ACQUIRED", "RELEASING"} /\ mState'[n] = "RELEASED" /\ Quietly(n)
IsReopened(n) == /\ Head(queue) \in Closes(n)
                 /\ Moves(n, "RELEASING", "PENDING") /\ calls'.conn = Request(n)

Moved(n) == \/ Stays(n) \/ Opens1(n) \/ Closes1(n) \/ IsGranted(n) \/ IsDenied(n)
            \/ IsClosed(n) \/ IsReopened(n)

LEMMA QuietIsQuiet ==
  ASSUME NEW n, calls'.conn = NoConn \/ \E k \in Nif \ {n} : calls'.conn \in {Request(k), Release(k)}, n \in Nif
  PROVE  Quietly(n)
BY DEF Quietly, NoConn, Request, Release, Nif

LEMMA RequestMoves ==
  ASSUME OrderlyState, NEW g \in Handle, NEW t \in AgpsType, RequestATL(g, t),
         Head(queue) = MsgRequest(g, t), NEW n \in Nif
  PROVE  Moved(n)
<1>1. Typed
  BY IInvIsPointwise DEF OrderlyState, SysIInv
<1>2. Head(queue) \notin About(n)
  <2>1. MsgRequest(g, t).kind = "requestATL"
    BY DEF MsgRequest
  <2> QED  BY <2>1, ReportKinds DEF About, Answers
<1> DEFINE k == NifOf(t)
<1>3. k \in Nif
  BY DEF AgpsType, NifOf, Nif
<1>4. \/ UNCHANGED mState /\ calls'.conn = NoConn
      \/ /\ mState[k] = "RELEASED" /\ mState'[k] = "PENDING" /\ calls'.conn = Request(k)
         /\ \A m \in Nif \ {k} : mState'[m] = mState[m]
  <2> USE <1>1, <1>3 DEF Typed, TransitionState, Quiet, NotifyOpened, NotifyFailed, Call
  <2>1. CASE Subscribe(k, g)
    BY <2>1 DEF Subscribe, AddSubscriber
  <2>2. CASE calls' = NotifyFailed({g}) /\ UNCHANGED machines
    BY <2>2 DEF machines
  <2> QED  BY <2>1, <2>2 DEF RequestATL
<1> HIDE DEF k
<1>5. CASE n = k /\ calls'.conn = Request(k)
  BY <1>2, <1>4, <1>5 DEF Moved, Opens1, Moves, NoConn, Request, Nif
<1>6. CASE ~(n = k /\ calls'.conn = Request(k))
  <2>1. Quietly(n) /\ mState'[n] = mState[n]
    BY <1>3, <1>4, <1>6, QuietIsQuiet
  <2> QED  BY <1>2, <2>1 DEF Moved, Stays, About
<1> QED  BY <1>5, <1>6

LEMMA ReleaseMoves ==
  ASSUME OrderlyState, NEW g \in Handle, ReleaseATL(g), Head(queue) = MsgRelease(g), queue # <<>>, NEW n \in Nif
  PROVE  Moved(n)
<1>1. Typed /\ IInv /\ HandleInv(g) /\ OrderlyHandle(g) /\ queue \in Seq(Msgs)
      /\ session[g] \in {"idle", "opening", "open", "closing"}
  BY IInvIsPointwise DEF OrderlyState, SysIInv, SysTypeOK, SessionState
<1>2. Head(queue) \notin About(n)
  <2>1. MsgRelease(g).kind = "releaseATL"
    BY DEF MsgRelease
  <2> QED  BY <2>1, ReportKinds DEF About, Answers
<1>3. \/ UNCHANGED machines /\ calls' = Quiet
      \/ \E k \in Nif : g \in mSubscribers[k] /\ Unsubscribe(k, g)
  <2>1. CASE "AGNSS" \in ListedAt(g) /\ Unsubscribe("AGNSS", g)
    BY <2>1 DEF ListedAt, Nif
  <2>2. CASE ListedAt(g) = {"Internet"} /\ Unsubscribe("Internet", g)
    BY <2>2 DEF ListedAt, Nif
  <2>3. CASE ListedAt(g) = {} /\ calls' = Quiet /\ UNCHANGED machines
    BY <2>3
  <2> QED  BY <2>1, <2>2, <2>3 DEF ReleaseATL
<1>4. CASE UNCHANGED machines /\ calls' = Quiet
  <2>1. Quietly(n)
    BY <1>4, QuietIsQuiet DEF Quiet, Call
  <2> QED  BY <1>2, <1>4, <2>1 DEF Moved, Stays, About, machines
<1>5. ASSUME NEW k \in Nif, g \in mSubscribers[k], Unsubscribe(k, g) PROVE Moved(n)
  <2>1. ~Comes(queue, Asks(g)) /\ session[g] # "idle"
    BY <1>1, <1>5 DEF HandleInv
  <2>2. EndsWith(queue, Gives(g), Asks(g))
    <3>1. 1 \in 1..Len(queue) /\ queue[1] \in Gives(g)
      BY <1>1 DEF Gives
    <3> QED  BY <2>1, <3>1 DEF EndsWith, Comes
  <2>3. session[g] = "closing"
    BY <1>1, <2>1, <2>2 DEF HandleInv
  <2>4. g \in Active(k) => mState[k] = "ACQUIRED"
    BY <1>1, <2>3 DEF OrderlyHandle
  <2>5. mState[k] = "PENDING" => Active(k) # {}
    BY <1>1 DEF IInv, SomebodyWaits
  <2>6. \/ mState' = mState /\ calls'.conn = NoConn
        \/ /\ mState[k] = "ACQUIRED" /\ mState'[k] = "RELEASING" /\ calls'.conn = Release(k)
           /\ \A m \in Nif \ {k} : mState'[m] = mState[m]
    <3>1. CASE mState[k] \in {"PENDING", "ACQUIRED"} /\ Active(k) \subseteq {g} /\ TransitionState(k, "RELEASING")
               /\ calls' = Call({}, {}, {}, Release(k))
      BY <1>1, <2>4, <2>5, <3>1 DEF Typed, TransitionState, Call
    <3>2. CASE calls' = Quiet /\ UNCHANGED mState
      BY <3>2 DEF Quiet, Call
    <3> QED  BY <1>5, <3>1, <3>2 DEF Unsubscribe
  <2>7. CASE n = k /\ calls'.conn = Release(k)
    BY <1>2, <2>6, <2>7 DEF Moved, Closes1, Moves, NoConn, Release, Nif
  <2>8. CASE ~(n = k /\ calls'.conn = Release(k))
    <3>1. Quietly(n) /\ mState'[n] = mState[n]
      BY <2>6, <2>8, QuietIsQuiet
    <3> QED  BY <1>2, <3>1 DEF Moved, Stays, About
  <2> QED  BY <2>7, <2>8
<1> QED  BY <1>3, <1>4, <1>5

LEMMA ReportMoves ==
  ASSUME OrderlyState, NEW k \in Nif, queue # <<>>, NEW n \in Nif,
         \/ ReportAtlOpenSuccess(k) /\ Head(queue) \in {MsgReport("atlOpenSuccess", k), MsgReport("atlPdn", k)}
         \/ ReportAtlOpenFailed(k) /\ Head(queue) = MsgReport("atlOpenFailed", k)
         \/ ReportAtlClosed(k) /\ Head(queue) = MsgReport("atlClosed", k)
  PROVE  Moved(n)
<1>1. Typed /\ ConnFits(k) /\ queue \in Seq(Msgs) /\ mState[k] \in AgpsState
      /\ (k \notin created => mState[k] = "RELEASED")
  BY IInvIsPointwise DEF OrderlyState, SysIInv, SysTypeOK, IInv, OnlyCreatedWork, Typed
<1>2. 1 \in 1..Len(queue) /\ queue[1] = Head(queue) /\ Head(queue) # MsgReport("atlPdn", k)
  <2>1. 1 \in 1..Len(queue) /\ queue[1] = Head(queue)
    BY <1>1
  <2> QED  BY <2>1 DEF OrderlyState, NoQueries, InQueue
<1>3. /\ Head(queue) \in Opens(k) <=> Head(queue) = MsgReport("atlOpenSuccess", k)
      /\ Head(queue) \in Fails(k) <=> Head(queue) = MsgReport("atlOpenFailed", k)
      /\ Head(queue) \in Closes(k) <=> Head(queue) = MsgReport("atlClosed", k)
  BY DEF Opens, Fails, Closes
<1>4. Head(queue) \in Answers(k) => mState[k] = "PENDING"
  BY <1>1, <1>2 DEF ConnFits, Fits, Comes
<1>5. Head(queue) \in Opens(k) \cup Fails(k) \cup Closes(k)
  BY <1>2, <1>3
<1>6. CASE n # k
  <2>1. Head(queue) \notin About(n)
    BY <1>5, <1>6, ReportKinds DEF About, Answers
  <2>2. mState'[n] = mState[n] /\ (calls'.conn = NoConn \/ calls'.conn = Request(k))
    <3> USE <1>1, <1>6 DEF Typed, TransitionState, Quiet, NotifyOpened, NotifyFailed, NotifyClosed, Call
    <3>1. CASE UNCHANGED machines /\ calls' = Quiet
      BY <3>1 DEF machines
    <3>2. CASE Granted(k)
      BY <3>2 DEF Granted
    <3>3. CASE FinishRelease(k)
      BY <3>3 DEF FinishRelease
    <3>4. CASE (Released(k) \/ Denied(k)) /\ ~FinishRelease(k)
      BY <3>4 DEF Released, Denied
    <3> QED  BY <3>1, <3>2, <3>3, <3>4, ReportIsEvent
  <2>3. Quietly(n)
    BY <1>6, <2>2, QuietIsQuiet
  <2> QED  BY <2>1, <2>2, <2>3 DEF Moved, Stays, About
<1>7. CASE n = k
  <2>1. ASSUME calls'.conn = NoConn PROVE Quietly(k)
    BY <2>1, QuietIsQuiet
  <2>2. CASE ReportAtlOpenSuccess(k) /\ Head(queue) = MsgReport("atlOpenSuccess", k)
    <3>1. mState[k] = "PENDING" /\ k \in created /\ Head(queue) \in Opens(k)
      BY <1>1, <1>3, <1>4, <2>2 DEF Answers
    <3>2. Granted(k)
      BY <2>2, <3>1 DEF ReportAtlOpenSuccess, Report
    <3>3. mState'[k] = "ACQUIRED" /\ calls'.conn = NoConn
      BY <1>1, <3>1, <3>2 DEF Granted, Typed, TransitionState, NotifyOpened, Call
    <3> QED  BY <1>7, <2>1, <3>1, <3>3 DEF Moved, IsGranted, Moves
  <2>3. CASE ReportAtlOpenFailed(k) /\ Head(queue) = MsgReport("atlOpenFailed", k)
    <3>1. mState[k] = "PENDING" /\ k \in created /\ Head(queue) \in Fails(k)
      BY <1>1, <1>3, <1>4, <2>3 DEF Answers
    <3>2. Denied(k)
      BY <2>3, <3>1 DEF ReportAtlOpenFailed, Report
    <3>3. mState'[k] = "RELEASED" /\ calls'.conn = NoConn
      BY <1>1, <3>1, <3>2 DEF Denied, FinishRelease, Typed, TransitionState, NotifyFailed, Call
    <3> QED  BY <1>7, <2>1, <3>1, <3>3 DEF Moved, IsDenied, Moves
  <2>4. CASE ReportAtlClosed(k) /\ Head(queue) = MsgReport("atlClosed", k)
    <3>1. Head(queue) \in Closes(k) /\ Head(queue) \notin Answers(k)
      BY <1>3, <2>4, ReportKinds DEF Answers
    <3>2. \/ mState[k] \in {"RELEASED", "PENDING"} /\ UNCHANGED mState /\ calls' = Quiet
          \/ /\ mState[k] = "ACQUIRED" /\ TransitionState(k, "RELEASED")
             /\ calls' = NotifyClosed(mSubscribers[k])
          \/ FinishRelease(k)
      BY <1>1, <2>4 DEF ReportAtlClosed, Report, Released, machines
    <3>3. CASE mState[k] \in {"RELEASED", "PENDING"} /\ UNCHANGED mState /\ calls' = Quiet
      BY <1>7, <2>1, <3>1, <3>3 DEF Moved, Stays, Quiet, Call
    <3>4. CASE /\ mState[k] = "ACQUIRED" /\ TransitionState(k, "RELEASED")
               /\ calls' = NotifyClosed(mSubscribers[k])
      <4>1. mState'[k] = "RELEASED" /\ calls'.conn = NoConn
        BY <1>1, <3>4 DEF Typed, TransitionState, NotifyClosed, Call
      <4> QED  BY <1>7, <2>1, <3>1, <3>4, <4>1 DEF Moved, IsClosed
    <3>5. CASE FinishRelease(k)
      <4>1. \/ mState'[k] = "PENDING" /\ calls'.conn = Request(k)
            \/ mState'[k] = "RELEASED" /\ calls'.conn = NoConn
        BY <1>1, <3>5 DEF FinishRelease, Typed, TransitionState, NotifyClosed, Call
      <4>2. mState[k] = "RELEASING"
        BY <3>5 DEF FinishRelease
      <4> QED  BY <1>7, <2>1, <3>1, <4>1, <4>2 DEF Moved, IsClosed, IsReopened, Moves
    <3> QED  BY <3>2, <3>3, <3>4, <3>5
  <2> QED  BY <1>2, <2>2, <2>3, <2>4
<1> QED  BY <1>6, <1>7

LEMMA AdapterMoves ==
  ASSUME OrderlyState, ~WdsQuery, Adapter, NEW n \in Nif PROVE Moved(n)
<1>1. queue # <<>> /\ Handled
  BY AdapterHandles DEF OrderlyState, SysIInv
<1>2. ASSUME NEW N \in SUBSET Nif, CreateStateMachines(N), Head(queue).kind = "init" PROVE Moved(n)
  <2>1. Head(queue) \notin About(n)
    BY <1>2, ReportKinds DEF About, Answers
  <2>2. Quietly(n) /\ mState' = mState
    BY <1>2, QuietIsQuiet DEF CreateStateMachines, machines, Quiet, Call
  <2> QED  BY <2>1, <2>2 DEF Moved, Stays, About
<1> QED  BY <1>1, <1>2, RequestMoves, ReleaseMoves, ReportMoves DEF Handled

-----------------------------------------------------------------------------
(* The connections fit the machines *)

LEMMA FitsIs ==
  ASSUME NEW q, NEW s, NEW up, NEW n
  PROVE  Fits(q, s, up, n) <=>
            /\ AtMostOne(q, Answers(n))
            /\ Comes(q, Opens(n)) \/ Comes(q, Fails(n)) => s = "PENDING"
            /\ s = "ACQUIRED" \/ Comes(q, Opens(n)) => (up <=> ~EndsWith(q, Closes(n), Answers(n)))
            /\ s = "RELEASED" \/ Comes(q, Fails(n)) => ~up
            /\ s = "RELEASING" /\ EndsWith(q, Closes(n), Answers(n)) => ~up
BY AnswersCome DEF Fits

\* How a request for a connection of n is carried out, and how a release.
Asked(p, n) == \/ queue' = p
               \/ held'[n] /\ \E m \in Opens(n) : queue' = Append(p, m)
               \/ ~held'[n] /\ \E m \in Fails(n) : queue' = Append(p, m)
GivenUp(p, n) == \/ queue' = p /\ held'[n] = held[n]
                 \/ ~held'[n] /\ \E m \in Closes(n) : queue' = Append(p, m)

LEMMA Carries ==
  ASSUME SysTypeOK, NEW p \in Seq(Msgs), CarryOut(p), calls' \in Calls, NEW n \in Nif
  PROVE  /\ Quietly(n) => SameView(queue', p, n) /\ held'[n] = held[n]
         /\ calls'.conn = Request(n) => Asked(p, n)
         /\ calls'.conn = Release(n) => GivenUp(p, n)
         /\ Quietly("AGNSS") => inbox' = inbox
         /\ ~Quietly("AGNSS") => queue' = p /\ inbox' = Append(inbox, calls'.conn.conn)
<1>1. held \in [Nif -> BOOLEAN] /\ mConnected \in BOOLEAN
  BY DEF SysTypeOK
<1>2. SameView(p, p, n)
  BY DEF SameView
<1>3. calls'.conn = NoConn \/ \E k \in Nif : calls'.conn \in {Request(k), Release(k)}
  BY DEF Calls, Request, Release
<1>4. /\ \A k \in Nif : Request(k).nif = k /\ Release(k).nif = k /\ Request(k) # Release(k)
      /\ NoConn.nif = "none" /\ \A k \in Nif : k # "none" /\ (k = "Internet" \/ k = "AGNSS")
      /\ Quietly("AGNSS") <=> calls'.conn.nif # "AGNSS"
      /\ Quietly(n) <=> calls'.conn.nif # n
  <2>1. /\ \A k \in Nif : Request(k).nif = k /\ Release(k).nif = k /\ Request(k) # Release(k)
        /\ NoConn.nif = "none" /\ \A k \in Nif : k # "none" /\ (k = "Internet" \/ k = "AGNSS")
    BY DEF Request, Release, NoConn, Nif
  <2>2. "AGNSS" \in Nif
    BY DEF Nif
  <2> QED  BY <1>3, <2>1, <2>2 DEF Quietly
<1>5. CASE calls'.conn = NoConn /\ queue' = p /\ UNCHANGED platform
  <2>1. Quietly(n) /\ Quietly("AGNSS")
    BY <1>4, <1>5 DEF Nif
  <2> QED  BY <1>2, <1>5, <2>1 DEF platform, Quietly
<1>6. CASE calls'.conn.nif = "Internet" /\ NativeHandler(p)
  <2>1. PICK answer \in NativeAnswers(calls'.conn = Request("Internet")) : queue' = p \o answer
    BY <1>6 DEF NativeHandler
  <2>2. /\ held' = [held EXCEPT !["Internet"] = mConnected /\ calls'.conn = Request("Internet")]
        /\ inbox' = inbox
    BY <1>6 DEF NativeHandler
  <2>3. \/ calls'.conn # Request("Internet") /\ answer = <<MsgReport("atlClosed", "Internet")>>
        \/ calls'.conn = Request("Internet") /\ answer = <<>>
        \/ calls'.conn = Request("Internet") /\ mConnected /\ answer = <<MsgReport("atlOpenSuccess", "Internet")>>
        \/ calls'.conn = Request("Internet") /\ ~mConnected /\ answer = <<MsgReport("atlOpenFailed", "Internet")>>
    BY <1>1, <2>1 DEF NativeAnswers
  <2>4. /\ held'["Internet"] = (mConnected /\ calls'.conn = Request("Internet"))
        /\ \A k \in Nif \ {"Internet"} : held'[k] = held[k]
    BY <1>1, <2>2 DEF Nif
  <2>5. ASSUME NEW m \in Opens("Internet") \cup Fails("Internet") \cup Closes("Internet"), answer = <<m>>
        PROVE  queue' = Append(p, m) /\ m \in Msgs
    <3>1. m \in Msgs
      BY ReportKinds DEF Nif
    <3> QED  BY <2>1, <2>5, <3>1
  <2>a. answer = <<>> => queue' = p
    BY <2>1
  <2>6. Quietly("AGNSS")
    BY <1>4, <1>6
  <2>7. CASE n = "Internet"
    <3>1. ~Quietly(n)
      BY <1>4, <1>6, <2>7
    <3>2. calls'.conn = Request(n) => Asked(p, n)
      BY <2>3, <2>4, <2>5, <2>a, <2>7 DEF Asked, Opens, Fails
    <3>3. calls'.conn = Release(n) => GivenUp(p, n)
      BY <1>4, <2>3, <2>4, <2>5, <2>7 DEF GivenUp, Closes, Nif
    <3> QED  BY <2>2, <2>6, <3>1, <3>2, <3>3
  <2>8. CASE n # "Internet"
    <3>1. Quietly(n) /\ held'[n] = held[n]
      BY <1>4, <1>6, <2>4, <2>8
    <3>2. ASSUME NEW m \in Opens("Internet") \cup Fails("Internet") \cup Closes("Internet"), answer = <<m>>
          PROVE  SameView(queue', p, n)
      <4>1. queue' = Append(p, m) /\ m \in Msgs
        BY <2>5, <3>2
      <4>2. m \notin Answers(n) \cup Closes(n)
        BY <2>8, <3>2, ReportKinds DEF Answers, Nif
      <4> QED  BY <4>1, <4>2, ReportAppend
    <3>5. SameView(queue', p, n)
      BY <1>2, <2>3, <2>a, <3>2 DEF Opens, Fails, Closes
    <3> QED  BY <2>2, <2>6, <3>1, <3>5 DEF Quietly
  <2> QED  BY <2>7, <2>8
<1>7. CASE /\ calls'.conn.nif = "AGNSS"
           /\ inbox' = Append(inbox, calls'.conn.conn)
           /\ queue' = p
           /\ UNCHANGED held
  BY <1>2, <1>4, <1>7 DEF Asked, GivenUp
<1> QED  BY <1>5, <1>6, <1>7 DEF CarryOut

LEMMA AdapterFits ==
  ASSUME OrderlyState, queue # <<>>, CarryOut(Tail(queue)), calls' \in Calls, NEW n \in Nif, Moved(n)
  PROVE  ConnFits(n)'
<1> DEFINE p == Tail(queue)
           m == Head(queue)
           One(q) == AtMostOne(q, Answers(n))
           O(q) == Comes(q, Opens(n))
           F(q) == Comes(q, Fails(n))
           E(q) == EndsWith(q, Closes(n), Answers(n))
<1>1. queue \in Seq(Msgs) /\ p \in Seq(Msgs) /\ m \in Msgs /\ SysTypeOK
  BY DEF OrderlyState, SysIInv, SysTypeOK
<1>2. /\ One(queue) => One(p)
      /\ O(queue) <=> m \in Opens(n) \/ O(p)
      /\ F(queue) <=> m \in Fails(n) \/ F(p)
      /\ m \in Answers(n) /\ One(queue) => ~O(p) /\ ~F(p)
      /\ m \in Closes(n) /\ ~O(p) /\ ~F(p) => E(queue)
      /\ m \notin Closes(n) \/ O(p) \/ F(p) => (E(p) <=> E(queue))
      /\ E(p) => E(queue)
  BY <1>1, ReportTail
<1>3. /\ One(queue)
      /\ O(queue) \/ F(queue) => mState[n] = "PENDING"
      /\ mState[n] = "ACQUIRED" \/ O(queue) => (held[n] <=> ~E(queue))
      /\ mState[n] = "RELEASED" \/ F(queue) => ~held[n]
      /\ mState[n] = "RELEASING" /\ E(queue) => ~held[n]
  BY FitsIs DEF OrderlyState, ConnFits
<1>4. /\ Quietly(n) => SameView(queue', p, n) /\ held'[n] = held[n]
      /\ calls'.conn = Request(n) => Asked(p, n)
      /\ calls'.conn = Release(n) => GivenUp(p, n)
  BY <1>1, Carries
<1>5. SameView(queue', p, n) => /\ One(p) => One(queue')
                                /\ O(queue') <=> O(p)
                                /\ F(queue') <=> F(p)
                                /\ E(queue') <=> E(p)
  BY DEF SameView
<1>6. (m \in Opens(n) => m \notin Closes(n) /\ m \in Answers(n)) /\ (m \in Fails(n) => m \notin Closes(n) /\ m \in Answers(n))
      /\ (m \in Closes(n) => m \notin Opens(n) /\ m \notin Fails(n) /\ m \notin Answers(n))
      /\ (m \in Answers(n) => m \in Opens(n) \/ m \in Fails(n))
  BY ReportKinds DEF Answers
<1>7. ASSUME ~O(p), ~F(p), Asked(p, n), mState'[n] = "PENDING", One(p) PROVE ConnFits(n)'
  <2>1. CASE queue' = p
    BY <1>7, <2>1, FitsIs DEF ConnFits
  <2>2. ASSUME held'[n], NEW a \in Opens(n), queue' = Append(p, a) PROVE ConnFits(n)'
    <3>1. a \in Msgs /\ a \in Answers(n) /\ a \notin Fails(n) /\ ~Comes(p, Answers(n))
      BY <1>7, <2>2, ReportKinds, AnswersCome DEF Answers
    <3> HIDE DEF p
    <3>2. One(queue') /\ O(queue') /\ ~F(queue') /\ ~E(queue')
      BY <1>1, <2>2, <3>1, ReportAppend
    <3> QED  BY <1>7, <2>2, <3>2, FitsIs DEF ConnFits
  <2>3. ASSUME ~held'[n], NEW a \in Fails(n), queue' = Append(p, a) PROVE ConnFits(n)'
    <3>1. a \in Msgs /\ a \in Answers(n) /\ a \notin Opens(n) /\ ~Comes(p, Answers(n))
      BY <1>7, <2>3, ReportKinds, AnswersCome DEF Answers
    <3> HIDE DEF p
    <3>2. One(queue') /\ ~O(queue') /\ F(queue') /\ ~E(queue')
      BY <1>1, <2>3, <3>1, ReportAppend
    <3> QED  BY <1>7, <2>3, <3>2, FitsIs DEF ConnFits
  <2> QED  BY <1>7, <2>1, <2>2, <2>3 DEF Asked
<1>8. ASSUME ~O(p), ~F(p), GivenUp(p, n), mState'[n] = "RELEASING", E(p) => ~held[n], One(p) PROVE ConnFits(n)'
  <2>1. CASE queue' = p /\ held'[n] = held[n]
    BY <1>8, <2>1, FitsIs DEF ConnFits
  <2>2. ASSUME ~held'[n], NEW a \in Closes(n), queue' = Append(p, a) PROVE ConnFits(n)'
    <3>1. a \in Msgs
      BY <2>2, ReportKinds
    <3>2. One(queue') /\ ~O(queue') /\ ~F(queue')
      BY <1>1, <1>8, <2>2, <3>1, ReportAppend
    <3> QED  BY <1>8, <2>2, <3>2, FitsIs DEF ConnFits
  <2> QED  BY <1>8, <2>1, <2>2 DEF GivenUp
<1>9. ConnFits(n)' <=> /\ One(queue')
                       /\ O(queue') \/ F(queue') => mState'[n] = "PENDING"
                       /\ mState'[n] = "ACQUIRED" \/ O(queue') => (held'[n] <=> ~E(queue'))
                       /\ mState'[n] = "RELEASED" \/ F(queue') => ~held'[n]
                       /\ mState'[n] = "RELEASING" /\ E(queue') => ~held'[n]
  BY FitsIs DEF ConnFits
<1> HIDE DEF p, m, One, O, F, E
<1>10. CASE Stays(n)
  <2>1. /\ mState'[n] = mState[n] /\ Quietly(n) /\ m \notin Answers(n)
        /\ m \in Closes(n) => mState[n] \in {"RELEASED", "PENDING"}
    BY <1>10 DEF Stays, m
  <2>2. (O(queue) <=> O(p)) /\ (F(queue) <=> F(p))
    BY <1>2, <1>6, <2>1
  <2>3. (O(queue') <=> O(p)) /\ (F(queue') <=> F(p)) /\ One(queue') /\ (E(queue') <=> E(p)) /\ held'[n] = held[n]
    BY <1>2, <1>3, <1>4, <1>5, <2>1
  <2>4. CASE m \in Closes(n) /\ ~O(p) /\ ~F(p)
    BY <1>3, <1>9, <2>1, <2>2, <2>3, <2>4
  <2>5. CASE m \notin Closes(n) \/ O(p) \/ F(p)
    BY <1>2, <1>3, <1>9, <2>1, <2>2, <2>3, <2>5
  <2> QED  BY <2>4, <2>5
<1>11. CASE Opens1(n)
  BY <1>2, <1>3, <1>4, <1>7, <1>11 DEF Opens1, Moves
<1>12. CASE Closes1(n)
  BY <1>2, <1>3, <1>4, <1>8, <1>12 DEF Closes1, Moves
<1>13. CASE IsGranted(n) \/ IsDenied(n)
  <2>1. m \in Answers(n) /\ m \notin Closes(n) /\ Quietly(n) /\ mState[n] = "PENDING"
        /\ ((m \in Opens(n) /\ mState'[n] = "ACQUIRED") \/ (m \in Fails(n) /\ mState'[n] = "RELEASED"))
    BY <1>6, <1>13 DEF IsGranted, IsDenied, Moves, m
  <2> QED  BY <1>2, <1>3, <1>4, <1>5, <1>9, <2>1
<1>14. CASE IsClosed(n)
  <2>1. m \in Closes(n) /\ Quietly(n) /\ mState[n] \in {"ACQUIRED", "RELEASING"} /\ mState'[n] = "RELEASED"
    BY <1>14 DEF IsClosed, m
  <2> QED  BY <1>2, <1>3, <1>4, <1>5, <1>6, <1>9, <2>1
<1>15. CASE IsReopened(n)
  <2>1. m \in Closes(n) /\ calls'.conn = Request(n) /\ mState[n] = "RELEASING" /\ mState'[n] = "PENDING"
    BY <1>15 DEF IsReopened, Moves, m
  <2> QED  BY <1>2, <1>3, <1>4, <1>6, <1>7, <2>1
<1> QED  BY <1>10, <1>11, <1>12, <1>13, <1>14, <1>15 DEF Moved

InboxMsg == {"request", "release"}

LEMMA InboxTakes ==
  ASSUME NEW q \in Seq(InboxMsg), AtMostOne(q, {"request"})
  PROVE  /\ q # <<>> => /\ AtMostOne(Tail(q), {"request"})
                        /\ Comes(q, {"request"}) <=> Head(q) = "request" \/ Comes(Tail(q), {"request"})
                        /\ Head(q) = "request" => ~Comes(Tail(q), {"request"})
         /\ \A x \in InboxMsg : /\ x # "request" \/ ~Comes(q, {"request"}) => AtMostOne(Append(q, x), {"request"})
                                /\ x # "request" => (Comes(Append(q, x), {"request"}) <=> Comes(q, {"request"}))
<1> DEFINE A == {"request"}
<1>1. A \cap {} = {} /\ \A x : x \in A <=> x = "request"
  OBVIOUS
<1> HIDE DEF A
<1>2. q # <<>> => /\ AtMostOne(q, A) => AtMostOne(Tail(q), A)
                  /\ Comes(q, A) <=> Head(q) \in A \/ Comes(Tail(q), A)
                  /\ Head(q) \in A /\ AtMostOne(q, A) => ~Comes(Tail(q), A)
  BY <1>1, TailView
<1>3. ASSUME NEW x \in InboxMsg
      PROVE  /\ x \notin A => /\ AtMostOne(q, A) => AtMostOne(Append(q, x), A)
                              /\ Comes(Append(q, x), A) <=> Comes(q, A)
             /\ x \in A /\ ~Comes(q, A) => AtMostOne(Append(q, x), A)
  BY <1>1, AppendView
<1>4. AtMostOne(q, A)
  BY DEF A
<1>5. /\ q # <<>> => /\ AtMostOne(Tail(q), A)
                     /\ Comes(q, A) <=> Head(q) = "request" \/ Comes(Tail(q), A)
                     /\ Head(q) = "request" => ~Comes(Tail(q), A)
      /\ \A x \in InboxMsg : /\ x # "request" \/ ~Comes(q, A) => AtMostOne(Append(q, x), A)
                             /\ x # "request" => (Comes(Append(q, x), A) <=> Comes(q, A))
  BY <1>1, <1>2, <1>3, <1>4
<1> QED  BY <1>5 DEF A

LEMMA AdapterFitsInbox ==
  ASSUME OrderlyState, InboxFits, queue # <<>>, CarryOut(Tail(queue)), calls' \in Calls, Moved("AGNSS")
  PROVE  InboxFits'
<1> DEFINE n == "AGNSS"
           p == Tail(queue)
           Ans(q) == Comes(q, Opens(n)) \/ Comes(q, Fails(n))
<1>1. /\ n \in Nif /\ p \in Seq(Msgs) /\ queue \in Seq(Msgs) /\ SysTypeOK /\ inbox \in Seq(InboxMsg)
      /\ \A q : Comes(q, Answers(n)) <=> Ans(q)
  BY AnswersCome DEF Nif, OrderlyState, SysIInv, SysTypeOK, InboxMsg
<1>2. AtMostOne(inbox, {"request"}) /\ (Comes(inbox, {"request"}) => mState[n] = "PENDING" /\ ~Ans(queue))
  BY <1>1 DEF InboxFits
<1>3. InboxFits' <=> /\ AtMostOne(inbox', {"request"})
                     /\ Comes(inbox', {"request"}) => mState'[n] = "PENDING" /\ ~Ans(queue')
  BY <1>1 DEF InboxFits
<1>4. /\ Quietly(n) => SameView(queue', p, n) /\ inbox' = inbox
      /\ ~Quietly(n) => queue' = p /\ inbox' = Append(inbox, calls'.conn.conn)
  BY <1>1, Carries
<1>5. /\ Ans(p) => Ans(queue)
      /\ Head(queue) \in Opens(n) \/ Head(queue) \in Fails(n) => Ans(queue)
      /\ SameView(queue', p, n) => (Ans(queue') <=> Ans(p))
  BY <1>1, ReportTail DEF SameView
<1>6. Ans(queue) => mState[n] = "PENDING"
  BY <1>1, FitsIs DEF OrderlyState, ConnFits
<1> HIDE DEF Ans, p
<1>7. CASE Quietly(n)
  <2>1. /\ inbox' = inbox /\ (Ans(queue') => Ans(queue))
    BY <1>4, <1>5, <1>7
  <2>2. mState[n] = "PENDING" => mState'[n] = "PENDING" \/ Ans(queue)
    BY <1>5, <1>7 DEF Moved, Moves, Quietly, Stays, Opens1, Closes1, IsGranted, IsDenied, IsClosed, IsReopened
  <2> QED  BY <1>2, <1>3, <2>1, <2>2
<1>8. CASE calls'.conn = Request(n)
  <2>1. inbox' = Append(inbox, "request") /\ queue' = p
    BY <1>4, <1>8 DEF Quietly, Request
  <2>2. mState[n] # "PENDING" /\ mState'[n] = "PENDING"
    BY <1>8 DEF Moved, Moves, Quietly, Stays, Opens1, Closes1, IsGranted, IsDenied, IsClosed, IsReopened, Request, Release
  <2>3. AtMostOne(inbox', {"request"})
    BY <1>1, <1>2, <2>1, <2>2, InboxTakes DEF InboxMsg
  <2> QED  BY <1>2, <1>3, <1>5, <1>6, <2>1, <2>2, <2>3
<1>9. CASE calls'.conn = Release(n)
  <2>1. inbox' = Append(inbox, "release")
    BY <1>4, <1>9 DEF Quietly, Release
  <2>2. mState[n] # "PENDING"
    BY <1>9 DEF Moved, Moves, Quietly, Stays, Opens1, Closes1, IsGranted, IsDenied, IsClosed, IsReopened, Request, Release
  <2>3. AtMostOne(inbox', {"request"}) /\ ~Comes(inbox', {"request"})
    BY <1>1, <1>2, <2>1, <2>2, InboxTakes DEF InboxMsg
  <2> QED  BY <1>3, <2>3
<1> QED  BY <1>7, <1>8, <1>9 DEF Quietly

\* A handle is not asked for again, and only a request of its own makes it active.
LEMMA AdapterOrderly ==
  ASSUME OrderlyState, NEW h \in Handle, Adapter, IInv'
  PROVE  OrderlyHandle(h)'
<1>1. SysTypeOK /\ IInv /\ HandleInv(h) /\ OrderlyHandle(h) /\ Typed
      /\ session[h] \in {"idle", "opening", "open", "closing"}
  BY IInvIsPointwise DEF OrderlyState, SysIInv, SysTypeOK, SessionState
<1>2. queue # <<>> /\ Handled /\ Taken(h) /\ NotifyModem /\ Head(queue) \in Msgs
  BY <1>1, AdapterTakes, AdapterHandles
<1>3. SUFFICES ASSUME session'[h] = "closing"
               PROVE  ~Comes(queue', Asks(h)) /\ \A n \in Nif : h \in Active(n)' => mState'[n] = "ACQUIRED"
  BY DEF OrderlyHandle
<1>4. session[h] = "closing"
  BY <1>1, <1>2, <1>3 DEF NotifyModem
<1>5. ~Comes(queue, Asks(h)) /\ \A n \in Nif : h \in Active(n) => mState[n] = "ACQUIRED"
  BY <1>1, <1>4 DEF OrderlyHandle
<1>6. ~Comes(queue', Asks(h)) /\ Head(queue) \notin Asks(h)
  BY <1>2, <1>5 DEF Taken
<1>7. ASSUME NEW n \in Nif, h \in Active(n)'
      PROVE  h \in Active(n) /\ (mState[n] = "ACQUIRED" => mState'[n] = "ACQUIRED")
  <2>0. mSubscribers'[n] # {} /\ mState'[n] # "RELEASED"
    BY <1>7 DEF Active, IInv, ListedIffBusy
  <2> USE <1>1 DEF Typed, Active, TransitionState, DeleteSubscribers, machines
  <2>1. ASSUME UNCHANGED machines PROVE h \in Active(n) /\ mState'[n] = mState[n]
    BY <1>7, <2>1
  <2>2. ASSUME NEW g \in Handle, NEW t \in AgpsType, RequestATL(g, t), Head(queue) = MsgRequest(g, t)
        PROVE  h \in Active(n) /\ (mState[n] = "ACQUIRED" => mState'[n] = "ACQUIRED")
    <3>1. g # h
      BY <1>6, <2>2 DEF Asks
    <3>2. NifOf(t) \in Nif
      BY DEF AgpsType, NifOf, Nif
    <3>3. CASE UNCHANGED machines
      BY <2>1, <3>3
    <3>4. CASE Subscribe(NifOf(t), g)
      BY <1>7, <3>1, <3>2, <3>4 DEF Subscribe, AddSubscriber
    <3> QED  BY <2>2, <3>3, <3>4 DEF RequestATL
  <2>3. ASSUME NEW g \in Handle, ReleaseATL(g), Head(queue) = MsgRelease(g)
        PROVE  h \in Active(n) /\ (mState[n] = "ACQUIRED" => mState'[n] = "ACQUIRED")
    <3>1. ASSUME NEW k \in Nif, Unsubscribe(k, g) PROVE h \in Active(n) /\ (mState[n] = "ACQUIRED" => mState'[n] = "ACQUIRED")
      <4>1. mSubscribers' = mSubscribers /\ \A m \in Nif : mInactive[m] \subseteq mInactive'[m]
        BY <3>1 DEF Unsubscribe
      <4>2. h \in Active(n)
        BY <1>7, <4>1
      <4>3. CASE mState' = mState
        BY <4>2, <4>3
      <4>4. CASE Active(k) \subseteq {g} /\ TransitionState(k, "RELEASING")
        <5>1. g \in mInactive'[k]
          BY <3>1 DEF Unsubscribe
        <5>2. k # n
          BY <1>7, <4>2, <4>4, <5>1
        <5> QED  BY <4>2, <4>4, <5>2
      <4> QED  BY <3>1, <4>3, <4>4 DEF Unsubscribe
    <3> QED  BY <2>1, <2>3, <3>1 DEF ReleaseATL, Nif
  <2>4. ASSUME NEW k \in Nif, ReportAtlOpenSuccess(k) \/ ReportAtlOpenFailed(k) \/ ReportAtlClosed(k)
        PROVE  h \in Active(n) /\ (mState[n] = "ACQUIRED" => mState'[n] = "ACQUIRED")
    <3>1. CASE UNCHANGED machines
      BY <2>1, <3>1
    <3>2. CASE Granted(k)
      BY <1>7, <3>2 DEF Granted
    <3>3. CASE FinishRelease(k)
      BY <1>7, <2>0, <3>3 DEF FinishRelease
    <3>4. CASE (Released(k) \/ Denied(k)) /\ ~FinishRelease(k)
      BY <1>7, <2>0, <3>4 DEF Released, Denied
    <3> QED  BY <2>4, <3>1, <3>2, <3>3, <3>4, ReportIsEvent
  <2>5. ASSUME NEW N, CreateStateMachines(N)
        PROVE  h \in Active(n) /\ (mState[n] = "ACQUIRED" => mState'[n] = "ACQUIRED")
    BY <2>1, <2>5 DEF CreateStateMachines
  <2> QED  BY <1>2, <2>2, <2>3, <2>4, <2>5 DEF Handled
<1> QED  BY <1>5, <1>6, <1>7

Pdn(n) == {MsgReport("atlPdn", n)}

\* Nobody posts a PDN type when nobody asks for it.
LEMMA NoPdn ==
  ASSUME SysTypeOK, NoQueries, NEW n \in Nif
  PROVE  /\ queue # <<>> => ~Comes(Tail(queue), Pdn(n))
         /\ \A q \in Seq(Msgs), m \in Msgs :
               m.kind # "atlPdn" /\ ~Comes(q, Pdn(n)) => ~Comes(Append(q, m), Pdn(n))
<1>1. queue \in Seq(Msgs) /\ Pdn(n) \cap {} = {} /\ ~Comes(queue, Pdn(n))
  BY DEF SysTypeOK, NoQueries, InQueue, Comes, Pdn
<1>2. \A m \in Msgs : m.kind # "atlPdn" => m \notin Pdn(n)
  BY DEF Pdn, MsgReport
<1>3. queue # <<>> => ~Comes(Tail(queue), Pdn(n))
  BY <1>1, TailView
<1>4. ASSUME NEW q \in Seq(Msgs), NEW m \in Msgs, m.kind # "atlPdn", ~Comes(q, Pdn(n))
      PROVE  ~Comes(Append(q, m), Pdn(n))
  BY <1>1, <1>2, <1>4, AppendView
<1> QED  BY <1>3, <1>4

LEMMA NoPdnPosted ==
  ASSUME SysTypeOK, NoQueries, UNCHANGED wds,
         \/ UNCHANGED queue
         \/ queue # <<>> /\ queue' = Tail(queue)
         \/ \E m \in Msgs : m.kind # "atlPdn" /\ queue' = Append(queue, m)
         \/ \E m \in Msgs : m.kind # "atlPdn" /\ queue # <<>> /\ queue' = Append(Tail(queue), m)
  PROVE  NoQueries'
<1>1. ASSUME NEW n \in Nif PROVE ~Comes(queue', Pdn(n))
  <2>1. ~Comes(queue, Pdn(n)) /\ queue \in Seq(Msgs) /\ (queue # <<>> => Tail(queue) \in Seq(Msgs))
    BY DEF SysTypeOK, NoQueries, InQueue, Comes, Pdn
  <2> QED  BY <2>1, NoPdn
<1> QED  BY <1>1 DEF NoQueries, InQueue, Comes, Pdn

LEMMA AdapterStep ==
  ASSUME OrderlyState, InboxFits, ~WdsQuery, Adapter, IInv'
  PROVE  NoQueries' /\ InboxFits' /\ (\A h \in Handle : OrderlyHandle(h)') /\ \A n \in Nif : ConnFits(n)'
<1>1. /\ queue # <<>> /\ CarryOut(Tail(queue)) /\ Tail(queue) \in Seq(Msgs) /\ UNCHANGED wds /\ SysTypeOK /\ NoQueries
  BY AdapterHandles DEF OrderlyState, SysIInv
<1>2. calls' \in Calls
  BY DEF IInv, TypeOK
<1>3. \A n \in Nif : Moved(n)
  BY AdapterMoves
<1>4. NoQueries'
  <2>1. queue' = Tail(queue) \/ \E m \in NativeReports : queue' = Append(Tail(queue), m)
    BY <1>1, <1>2, CarriedOut
  <2>2. \A m \in NativeReports : m \in Msgs /\ m.kind # "atlPdn"
    <3>1. \A m \in NativeReports : m \in Msgs
      BY DEF NativeReports, Msgs, Reports, Nif
    <3>2. \A m \in NativeReports : m.kind # "atlPdn"
      BY DEF NativeReports, MsgReport
    <3> QED  BY <3>1, <3>2
  <2> QED  BY <1>1, <2>1, <2>2, NoPdnPosted
<1>5. "AGNSS" \in Nif
  BY DEF Nif
<1> QED  BY <1>1, <1>2, <1>3, <1>4, <1>5, AdapterFits, AdapterFitsInbox, AdapterOrderly

\* A step that posts at most one message, which is about no connection.
LEMMA UnrelatedKeepsFits ==
  ASSUME OrderlyState, InboxFits, UNCHANGED <<machines, platform>>,
         UNCHANGED queue \/ \E m \in Msgs : m.kind \notin Reports /\ queue' = Append(queue, m)
  PROVE  InboxFits' /\ \A n \in Nif : ConnFits(n)'
<1>1. queue \in Seq(Msgs)
  BY DEF OrderlyState, SysIInv, SysTypeOK
<1>2. ASSUME NEW n \in Nif PROVE SameView(queue', queue, n)
  <2>1. CASE UNCHANGED queue
    BY <2>1 DEF SameView
  <2>2. ASSUME NEW m \in Msgs, m.kind \notin Reports, queue' = Append(queue, m) PROVE SameView(queue', queue, n)
    <3>1. m \notin Answers(n) \cup Closes(n)
      BY <2>2, ReportKinds DEF Reports, Answers
    <3> QED  BY <1>1, <2>2, <3>1, ReportAppend
  <2> QED  BY <2>1, <2>2
<1>3. ASSUME NEW n \in Nif PROVE ConnFits(n)' /\ (Comes(queue', Answers(n)) <=> Comes(queue, Answers(n)))
  <2>1. ConnFits(n)
    BY DEF OrderlyState
  <2> QED  BY <1>2, <2>1, FitsIs, AnswersCome DEF ConnFits, SameView, machines, platform
<1>4. InboxFits'
  <2>1. "AGNSS" \in Nif
    BY DEF Nif
  <2> QED  BY <1>3, <2>1 DEF InboxFits, machines, platform
<1> QED  BY <1>3, <1>4

\* A step that leaves the machines, the sessions and the handles' messages alone.
LEMMA ElsewhereOrderly ==
  ASSUME OrderlyState, UNCHANGED <<machines, session>>, Elsewhere, NEW h \in Handle
  PROVE  OrderlyHandle(h)'
<1>1. ViewKept(h) /\ OrderlyHandle(h)
  BY ElsewhereKeepsView DEF OrderlyState, SysIInv
<1> QED  BY <1>1 DEF OrderlyHandle, ViewKept, machines, Active

LEMMA ModemOrderly ==
  ASSUME OrderlyState, InboxFits, NEW g \in Handle, (\E t \in ReqType : ModemRequest(g, t)) \/ ModemRelease(g),
         ~releaseEarly
  PROVE  NoQueries' /\ InboxFits' /\ (\A h \in Handle : OrderlyHandle(h)') /\ \A n \in Nif : ConnFits(n)'
<1>1. /\ SysTypeOK /\ NoQueries /\ queue \in Seq(Msgs) /\ session \in [Handle -> SessionState]
  BY DEF OrderlyState, SysIInv, SysTypeOK
<1>2. /\ UNCHANGED <<machines, platform, wds>>
      /\ \/ \E t \in ReqType : /\ queue' = Append(queue, MsgRequest(g, t)) /\ session[g] = "idle"
                               /\ session' = [session EXCEPT ![g] = "opening"]
         \/ /\ queue' = Append(queue, MsgRelease(g)) /\ session[g] = "open"
            /\ session' = [session EXCEPT ![g] = "closing"]
  BY DEF ModemRequest, ModemRelease, Post, vars, machines
<1>3. /\ \A t \in ReqType : MsgRequest(g, t) \in Msgs /\ MsgRequest(g, t).kind = "requestATL" /\ MsgRequest(g, t).handle = g
      /\ MsgRelease(g) \in Msgs /\ MsgRelease(g).kind = "releaseATL" /\ MsgRelease(g).handle = g
  <2>1. (\A t \in ReqType : MsgRequest(g, t) \in Msgs) /\ MsgRelease(g) \in Msgs
    BY AgpsSystemAssumption DEF AgpsSystemAssumption, Msgs
  <2>2. /\ \A t \in ReqType : MsgRequest(g, t).kind = "requestATL" /\ MsgRequest(g, t).handle = g
        /\ MsgRelease(g).kind = "releaseATL" /\ MsgRelease(g).handle = g
    BY DEF MsgRequest, MsgRelease
  <2> QED  BY <2>1, <2>2
<1>4. PICK m \in Msgs : /\ queue' = Append(queue, m) /\ m.kind \in {"requestATL", "releaseATL"} /\ m.handle = g
                        /\ \/ m.kind = "requestATL" /\ session[g] = "idle" /\ session' = [session EXCEPT ![g] = "opening"]
                           \/ m.kind = "releaseATL" /\ session[g] = "open" /\ session' = [session EXCEPT ![g] = "closing"]
  BY <1>2, <1>3
<1>5. m.kind \notin Reports /\ m.kind # "atlPdn"
  BY <1>4 DEF Reports
<1>6. NoQueries' /\ InboxFits' /\ \A n \in Nif : ConnFits(n)'
  BY <1>1, <1>2, <1>4, <1>5, NoPdnPosted, UnrelatedKeepsFits
<1>7. ASSUME NEW h \in Handle PROVE OrderlyHandle(h)'
  <2>1. OrderlyHandle(h) /\ HandleInv(h)
    BY DEF OrderlyState, SysIInv
  <2>2. m \in Asks(h) => session'[h] = "opening"
    BY <1>1, <1>4, MsgAbout
  <2>3. m \notin Asks(h) => (Comes(queue', Asks(h)) <=> Comes(queue, Asks(h)))
    <3>1. Asks(h) \cap {} = {}
      OBVIOUS
    <3> QED  BY <1>1, <1>4, <3>1, AppendView
  <2>4. session'[h] = "closing" => session[h] \in {"closing", "open"}
    BY <1>1, <1>4
  <2>5. session[h] = "open" => ~Comes(queue, Asks(h)) /\ \A n \in Nif : h \in Active(n) => mState[n] = "ACQUIRED"
    BY <2>1 DEF HandleInv, Active
  <2> QED  BY <1>2, <2>1, <2>2, <2>3, <2>4, <2>5 DEF OrderlyHandle, machines, Active
<1> QED  BY <1>6, <1>7

\* The platform answers, or loses the connection.
LEMMA PlatformFits ==
  ASSUME OrderlyState, InboxFits, FwOpen \/ FwFail \/ FwClose \/ FwLost
  PROVE  NoQueries' /\ InboxFits' /\ \A n \in Nif : ConnFits(n)'
<1> DEFINE a == "AGNSS"
           Ans(q) == Comes(q, Opens(a)) \/ Comes(q, Fails(a))
<1>1. /\ SysTypeOK /\ NoQueries /\ queue \in Seq(Msgs) /\ inbox \in Seq(InboxMsg) /\ a \in Nif
      /\ held \in [Nif -> BOOLEAN] /\ ConnFits(a)
      /\ \A q : Comes(q, Answers(a)) <=> Ans(q)
  BY AnswersCome DEF OrderlyState, SysIInv, SysTypeOK, Nif, InboxMsg
<1>2. /\ UNCHANGED <<machines, wds>>
      /\ \/ /\ inbox # <<>> /\ Head(inbox) = "request" /\ inbox' = Tail(inbox)
            /\ \/ queue' = Append(queue, MsgReport("atlOpenSuccess", a)) /\ held' = [held EXCEPT ![a] = TRUE]
               \/ queue' = Append(queue, MsgReport("atlOpenFailed", a)) /\ held' = [held EXCEPT ![a] = FALSE]
         \/ /\ queue' = Append(queue, MsgReport("atlClosed", a)) /\ held' = [held EXCEPT ![a] = FALSE]
            /\ \/ inbox # <<>> /\ Head(inbox) = "release" /\ inbox' = Tail(inbox)
               \/ inbox' = inbox
  BY DEF FwOpen, FwFail, FwClose, FwLost, FwAnswer, Post, vars, machines
<1>3. PICK m \in Msgs :
         /\ queue' = Append(queue, m) /\ m.kind # "atlPdn"
         /\ \/ /\ inbox # <<>> /\ Head(inbox) = "request" /\ inbox' = Tail(inbox)
               /\ \/ m \in Opens(a) /\ held'[a]
                  \/ m \in Fails(a) /\ ~held'[a]
            \/ /\ m \in Closes(a) /\ ~held'[a]
               /\ \/ inbox # <<>> /\ Head(inbox) = "release" /\ inbox' = Tail(inbox)
                  \/ inbox' = inbox
  <2>1. \A k \in {"atlOpenSuccess", "atlOpenFailed", "atlClosed"} :
           MsgReport(k, a) \in Msgs /\ MsgReport(k, a).kind # "atlPdn"
    <3>1. \A k \in {"atlOpenSuccess", "atlOpenFailed", "atlClosed"} : MsgReport(k, a) \in Msgs
      BY <1>1 DEF Msgs, Reports
    <3>2. \A k \in {"atlOpenSuccess", "atlOpenFailed", "atlClosed"} : MsgReport(k, a).kind # "atlPdn"
      BY DEF MsgReport
    <3> QED  BY <3>1, <3>2
  <2>2. MsgReport("atlOpenSuccess", a) \in Opens(a) /\ MsgReport("atlOpenFailed", a) \in Fails(a)
        /\ MsgReport("atlClosed", a) \in Closes(a)
    BY DEF Opens, Fails, Closes
  <2> QED  BY <1>1, <1>2, <2>1, <2>2
<1>4. \A n \in Nif \ {a} : held'[n] = held[n]
  BY <1>1, <1>2
<1>5. m \in Answers(a) \/ m \in Closes(a)
  BY <1>3 DEF Answers
<1>6. NoQueries'
  BY <1>1, <1>2, <1>3, NoPdnPosted
<1>7. ASSUME NEW n \in Nif, n # a PROVE ConnFits(n)'
  <2>1. m \notin Answers(n) \cup Closes(n)
    BY <1>1, <1>5, <1>7, ReportKinds DEF Answers
  <2>2. SameView(queue', queue, n)
    BY <1>1, <1>3, <2>1, ReportAppend
  <2>3. ConnFits(n) /\ mState'[n] = mState[n] /\ held'[n] = held[n]
    BY <1>2, <1>4, <1>7 DEF OrderlyState, machines
  <2> QED  BY <2>2, <2>3, FitsIs DEF ConnFits, SameView
<1>8. /\ AtMostOne(queue, Answers(a))
      /\ Ans(queue) => mState[a] = "PENDING"
      /\ mState[a] = "ACQUIRED" \/ Comes(queue, Opens(a)) => (held[a] <=> ~EndsWith(queue, Closes(a), Answers(a)))
      /\ mState[a] = "RELEASED" \/ Comes(queue, Fails(a)) => ~held[a]
      /\ mState[a] = "RELEASING" /\ EndsWith(queue, Closes(a), Answers(a)) => ~held[a]
  BY <1>1, FitsIs DEF ConnFits
<1>9. AtMostOne(inbox, {"request"}) /\ (Comes(inbox, {"request"}) => mState[a] = "PENDING" /\ ~Ans(queue))
  BY <1>1 DEF InboxFits
<1>10. mState' = mState
  BY <1>2 DEF machines
<1>11. InboxFits' <=> /\ AtMostOne(inbox', {"request"})
                      /\ Comes(inbox', {"request"}) => mState'[a] = "PENDING" /\ ~Ans(queue')
  BY <1>1 DEF InboxFits
<1>12. ConnFits(a)' <=> /\ AtMostOne(queue', Answers(a))
                        /\ Ans(queue') => mState'[a] = "PENDING"
                        /\ mState'[a] = "ACQUIRED" \/ Comes(queue', Opens(a)) =>
                              (held'[a] <=> ~EndsWith(queue', Closes(a), Answers(a)))
                        /\ mState'[a] = "RELEASED" \/ Comes(queue', Fails(a)) => ~held'[a]
                        /\ mState'[a] = "RELEASING" /\ EndsWith(queue', Closes(a), Answers(a)) => ~held'[a]
  BY FitsIs DEF ConnFits
<1>13. CASE /\ inbox # <<>> /\ Head(inbox) = "request" /\ inbox' = Tail(inbox)
            /\ \/ m \in Opens(a) /\ held'[a]
               \/ m \in Fails(a) /\ ~held'[a]
  <2>1. Comes(inbox, {"request"}) /\ ~Comes(inbox', {"request"}) /\ AtMostOne(inbox', {"request"})
    BY <1>1, <1>9, <1>13, InboxTakes
  <2>2. mState[a] = "PENDING" /\ ~Ans(queue)
    BY <1>9, <2>1
  <2>3. m \in Answers(a) /\ ~Comes(queue, Answers(a))
    BY <1>1, <1>13, <2>2 DEF Answers
  <2>4. /\ AtMostOne(queue', Answers(a))
        /\ Comes(queue', Opens(a)) <=> m \in Opens(a)
        /\ Comes(queue', Fails(a)) <=> m \in Fails(a)
        /\ ~EndsWith(queue', Closes(a), Answers(a))
    BY <1>1, <1>3, <2>3, ReportAppend
  <2>5. m \in Opens(a) => m \notin Fails(a)
    BY <1>1, ReportKinds
  <2>6. ConnFits(a)'
    BY <1>10, <1>12, <1>13, <2>2, <2>4, <2>5
  <2> QED  BY <1>6, <1>7, <1>11, <2>1, <2>6
<1>14. CASE /\ m \in Closes(a) /\ ~held'[a]
            /\ \/ inbox # <<>> /\ Head(inbox) = "release" /\ inbox' = Tail(inbox)
               \/ inbox' = inbox
  <2>1. /\ AtMostOne(queue', Answers(a))
        /\ Comes(queue', Opens(a)) <=> Comes(queue, Opens(a))
        /\ Comes(queue', Fails(a)) <=> Comes(queue, Fails(a))
        /\ EndsWith(queue', Closes(a), Answers(a))
    BY <1>1, <1>3, <1>8, <1>14, ReportAppend
  <2>2. AtMostOne(inbox', {"request"}) /\ (Comes(inbox', {"request"}) <=> Comes(inbox, {"request"}))
    BY <1>1, <1>9, <1>14, InboxTakes
  <2>3. ConnFits(a)'
    BY <1>8, <1>10, <1>12, <1>14, <2>1
  <2> QED  BY <1>6, <1>7, <1>9, <1>10, <1>11, <2>1, <2>2, <2>3
<1> QED  BY <1>3, <1>13, <1>14

\* The framework reports a bad APN: the machine that asked stays PENDING, with a connection up.
LEMMA BadApnFits ==
  ASSUME OrderlyState, InboxFits, FwOpenBadApn
  PROVE  /\ UNCHANGED <<machines, session>> /\ NoQueries' /\ InboxFits' /\ \A n \in Nif : ConnFits(n)'
<1> DEFINE a == "AGNSS"
<1>1. /\ SysTypeOK /\ NoQueries /\ inbox \in Seq(InboxMsg) /\ a \in Nif /\ held \in [Nif -> BOOLEAN]
      /\ session \in [Handle -> SessionState]
  BY DEF OrderlyState, SysIInv, SysTypeOK, Nif, InboxMsg
<1>2. /\ ReportAtlClosed(a) /\ NotifyModem /\ UNCHANGED <<queue, wds>>
      /\ inbox # <<>> /\ Head(inbox) = "request" /\ held' = [held EXCEPT ![a] = TRUE]
      /\ inbox' = Tail(inbox) \o (IF calls'.conn = NoConn THEN <<>> ELSE <<calls'.conn.conn>>)
  BY DEF FwOpenBadApn
<1>3. AtMostOne(inbox, {"request"})
  BY DEF InboxFits
<1>4. Comes(inbox, {"request"}) /\ ~Comes(Tail(inbox), {"request"}) /\ AtMostOne(Tail(inbox), {"request"})
  BY <1>1, <1>2, <1>3, InboxTakes
<1>5. mState[a] = "PENDING" /\ ~Comes(queue, Answers(a))
  BY <1>4 DEF InboxFits
<1>6. UNCHANGED machines /\ calls' = Quiet
  BY <1>2, <1>5 DEF ReportAtlClosed, Report, Released, FinishRelease, machines
<1>7. inbox' = Tail(inbox) /\ session' = session
  <2>1. calls'.conn = NoConn /\ calls'.failed = {} /\ calls'.closed = {} /\ calls'.opened = {}
    BY <1>6 DEF Quiet, Call
  <2>2. inbox' = Tail(inbox)
    <3>1. inbox' = Tail(inbox) \o <<>> /\ Tail(inbox) \in Seq(InboxMsg)
      BY <1>1, <1>2, <2>1
    <3> QED  BY <3>1
  <2> QED  BY <1>1, <1>2, <2>1, <2>2 DEF NotifyModem
<1>8. NoQueries'
  BY <1>1, <1>2, NoPdnPosted
<1>9. InboxFits'
  BY <1>4, <1>7 DEF InboxFits
<1>10. ASSUME NEW n \in Nif PROVE ConnFits(n)'
  <2>1. ConnFits(n) /\ mState'[n] = mState[n] /\ queue' = queue
    BY <1>2, <1>6 DEF OrderlyState, machines
  <2>2. CASE n = a
    BY <1>5, <2>1, <2>2, FitsIs, AnswersCome DEF ConnFits
  <2>3. CASE n # a
    <3>1. held'[n] = held[n]
      BY <1>1, <1>2, <2>3
    <3> QED  BY <2>1, <3>1 DEF ConnFits
  <2> QED  BY <2>2, <2>3
<1> QED  BY <1>6, <1>7, <1>8, <1>9, <1>10

LEMMA OrderlyStarts == ASSUME SysInit PROVE OrderlyIInv
<1>1. SysIInv
  BY SysStarts
<1> DEFINE m == MsgInit({"Internet"})
<1>2. m \in Msgs /\ m.kind = "init" /\ queue = <<m>>
  <2>1. m \in Msgs
    BY DEF Msgs, Nif
  <2> QED  BY <2>1 DEF MsgInit, SysInit
<1> HIDE DEF m
<1>3. Len(queue) = 1 /\ queue[1] = m
  BY <1>2
<1>4. ASSUME NEW n \in Nif PROVE ConnFits(n) /\ ~InQueue(MsgReport("atlPdn", n))
  <2>1. m \notin Opens(n) /\ m \notin Fails(n) /\ m \notin Answers(n) /\ m # MsgReport("atlPdn", n)
    <3>1. MsgReport("atlPdn", n).kind = "atlPdn"
      BY DEF MsgReport
    <3> QED  BY <1>2, <3>1, ReportKinds DEF Answers
  <2>2. AtMostOne(queue, Answers(n)) /\ ~Comes(queue, Opens(n)) /\ ~Comes(queue, Fails(n))
        /\ ~InQueue(MsgReport("atlPdn", n))
    BY <1>3, <2>1 DEF AtMostOne, Comes, InQueue
  <2>3. mState[n] = "RELEASED" /\ ~held[n]
    BY DEF SysInit, Init
  <2> QED  BY <2>2, <2>3, FitsIs DEF ConnFits
<1>5. InboxFits
  <2>1. inbox = <<>>
    BY DEF SysInit
  <2> QED  BY <2>1 DEF InboxFits, AtMostOne, Comes
<1>6. \A h \in Handle : OrderlyHandle(h)
  BY DEF OrderlyHandle, SysInit
<1> QED  BY <1>4, <1>5, <1>6 DEF OrderlyIInv, NoQueries, SysInit

LEMMA OrderlyStepKeeps ==
  ASSUME ~WdsQuery, SysIInv, OrderlyIInv, [SysNext]_sysVars PROVE OrderlyIInv'
<1>1. releaseEarly' = releaseEarly
  BY DEF SysNext, sysVars
<1>2. SUFFICES ASSUME ~releaseEarly
               PROVE  /\ \A h \in Handle : OrderlyHandle(h)'
                      /\ \A n \in Nif : ConnFits(n)'
                      /\ InboxFits' /\ NoQueries'
  BY <1>1 DEF OrderlyIInv
<1>3. OrderlyState /\ InboxFits /\ NoQueries
  BY <1>2 DEF OrderlyIInv, OrderlyState
<1>4. IInv' /\ SysTypeOK
  BY SysStepIsNext DEF SysIInv
<1>5. CASE Adapter
  BY <1>3, <1>4, <1>5, AdapterStep
<1>6. CASE FwOpen \/ FwFail \/ FwClose \/ FwLost
  <2>1. UNCHANGED <<machines, session>> /\ Elsewhere
    BY <1>4, <1>6, FwPostsReports DEF FwPosts, vars, machines
  <2> QED  BY <1>3, <1>6, <2>1, PlatformFits, ElsewhereOrderly
<1>7. CASE FwSetCallback \/ NetworkChange \/ UNCHANGED sysVars
  <2>1. UNCHANGED <<machines, session, platform, wds>>
        /\ (UNCHANGED queue \/ queue' = Append(queue, MsgInit({"AGNSS"})))
    BY <1>7 DEF FwSetCallback, NetworkChange, Post, vars, machines, sysVars, platform
  <2>2. MsgInit({"AGNSS"}) \in Msgs /\ MsgInit({"AGNSS"}).kind = "init"
    <3>1. MsgInit({"AGNSS"}) \in Msgs
      BY DEF Msgs, Nif
    <3> QED  BY <3>1 DEF MsgInit
  <2>3. UNCHANGED queue \/ \E m \in Msgs : /\ m.kind \notin Reports \cup {"requestATL", "releaseATL", "atlPdn"}
                                           /\ queue' = Append(queue, m)
    BY <2>1, <2>2 DEF Reports
  <2>4. Elsewhere
    BY <2>3 DEF Elsewhere
  <2> QED  BY <1>3, <1>4, <2>1, <2>3, <2>4, NoPdnPosted, UnrelatedKeepsFits, ElsewhereOrderly
<1>8. CASE \E g \in Handle : ModemRelease(g) \/ \E t \in ReqType : ModemRequest(g, t)
  BY <1>2, <1>3, <1>8, ModemOrderly
<1>9. ~WdsAnswer
  BY <1>3 DEF NoQueries, WdsAnswer
<1>10. CASE FwOpenBadApn
  <2>1. Elsewhere
    BY <1>10 DEF FwOpenBadApn, Elsewhere
  <2> QED  BY <1>3, <1>10, <2>1, BadApnFits, ElsewhereOrderly
<1> QED  BY <1>5, <1>6, <1>7, <1>8, <1>9, <1>10 DEF SysNext, Framework

LEMMA OrderlyIsSafe == ASSUME SysIInv, OrderlyIInv PROVE OrderlyConnections
<1> SUFFICES ASSUME ~releaseEarly, NEW n \in Nif
             PROVE  /\ mState[n] = "ACQUIRED" => held[n] \/ InQueue(MsgReport("atlClosed", n))
                    /\ ~(held[n] /\ mState[n] = "RELEASED")
  BY DEF OrderlyConnections, OrderlyGrantMeansConnection, GrantMeansConnection, OrderlyNoConnectionLeaked
<1>1. ConnFits(n)
  BY DEF OrderlyIInv
<1>2. EndsWith(queue, Closes(n), Answers(n)) => InQueue(MsgReport("atlClosed", n))
  BY DEF EndsWith, Closes, InQueue
<1> QED  BY <1>1, <1>2, FitsIs DEF ConnFits

\* With a modem that releases only what it was granted, a machine that tells handles they have a
\* connection has one, or will read that it is gone, and one that went back to RELEASED leaves
\* none up.  Without libloc_api_wds.so: with it, the answer to a PDN type query can be handled
\* after the report that the connection it is about was lost.
THEOREM ConnectionsAgree ==
  ASSUME ~WdsQuery PROVE SysSpec => []OrderlyConnections
<1>1. SysInit => SysIInv /\ OrderlyIInv
  BY SysStarts, OrderlyStarts
<1>2. SysIInv /\ OrderlyIInv /\ [SysNext]_sysVars => SysIInv' /\ OrderlyIInv'
  BY SysStepKeeps, OrderlyStepKeeps
<1>3. SysIInv /\ OrderlyIInv => OrderlyConnections
  BY OrderlyIsSafe
<1> QED  BY <1>1, <1>2, <1>3, PTL DEF SysSpec
=============================================================================
