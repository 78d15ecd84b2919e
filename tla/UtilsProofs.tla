------------------------------ MODULE UtilsProofs ------------------------------
(***************************************************************************)
(* Proofs about the threads of gps/utils, for any number of each.          *)
(* MsgQueue: the queue of a MsgTask is never used after it was freed and   *)
(* no message is lost.  Whether the queue is freed depends on the          *)
(* references to the runnable, and who may still use it on where the       *)
(* thread and the destructor are, so the inductive invariant ties the two. *)
(* LocTimer: the delegates are accounted for, the timerfd or somebody who  *)
(* has seen it fire looks after the heap, and how a delegate ended is      *)
(* decided once.                                                           *)
(***************************************************************************)
EXTENDS MsgQueue, LocTimer, FiniteSetTheorems, FunctionTheorems, SequenceTheorems, TLAPS

-----------------------------------------------------------------------------
(* MsgQueue *)

\* The thread has its reference until it ends, and the destructor of the delegate has one
\* between its lock and its release; without any the queue is gone.
RefsCounted ==
    /\ runnableRefs \subseteq {"thread", "stopper"}
    /\ "thread" \in runnableRefs <=> taskPc # "ended"
    /\ "stopper" \in runnableRefs <=> stopPc \in {"interrupt", "release"}
    /\ freed = (runnableRefs = {})

\* The thread only ends because its queue was unblocked, which is up to the destructor.
EndsWhenUnblocked ==
    /\ waiting => taskPc = "run"
    /\ taskPc \in {"ending", "ended"} => unblocked
    /\ unblocked => stopPc \in {"release", "stopped"}

QueueIInv ==
    /\ taskPc \in {"run", "proc", "ending", "ended"}
    /\ stopPc \in {"none", "interrupt", "release", "stopped"}
    /\ unblocked \in BOOLEAN /\ waiting \in BOOLEAN /\ freed \in BOOLEAN
    /\ RefsCounted
    /\ EndsWhenUnblocked
    /\ ~usedFreed

LEMMA QueueInitInv == QueueInit => QueueIInv
  BY DEF QueueInit, QueueIInv, RefsCounted, EndsWhenUnblocked

\* Whoever holds a reference finds the queue.
LEMMA HolderFindsQueue ==
  ASSUME QueueIInv, Touch, runnableRefs # {}
  PROVE  ~usedFreed'
  BY DEF QueueIInv, RefsCounted, Touch

\* What the release of a reference leaves.
LEMMA ReleaseCounts ==
  ASSUME QueueIInv, NEW holder, holder \in runnableRefs, Release(holder)
  PROVE  /\ runnableRefs' = runnableRefs \ {holder}
         /\ freed' \in BOOLEAN
         /\ freed' = (runnableRefs' = {})
<1>1. ~freed
  BY DEF QueueIInv, RefsCounted
<1> QED  BY <1>1 DEF Release, QueueIInv, RefsCounted

LEMMA QueueStepInv == QueueIInv /\ [QueueNext]_queueVars => QueueIInv'
<1> SUFFICES ASSUME QueueIInv, [QueueNext]_queueVars
             PROVE  QueueIInv'
  OBVIOUS
<1> USE DEF QueueIInv, RefsCounted, EndsWhenUnblocked
<1>1. CASE \E s \in Sender \cup {"thread"} : MsgQSnd(s)
  <2> PICK s \in Sender \cup {"thread"} : MsgQSnd(s)
    BY <1>1
  <2>1. taskPc # "ended"
    BY DEF MsgQSnd
  <2>2. ~usedFreed'
    BY <2>1, HolderFindsQueue DEF MsgQSnd
  <2> QED  BY <2>2 DEF MsgQSnd
<1>2. CASE MsgQRcv
  <2>1. ~usedFreed'
    BY <1>2, HolderFindsQueue DEF MsgQRcv
  <2>2. CASE unblocked
    BY <1>2, <2>1, <2>2 DEF MsgQRcv
  <2>3. CASE ~unblocked /\ msgList = <<>>
    BY <1>2, <2>1, <2>3 DEF MsgQRcv
  <2>4. CASE ~unblocked /\ msgList # <<>>
    BY <1>2, <2>1, <2>4 DEF MsgQRcv, Receive
  <2> QED  BY <2>2, <2>3, <2>4
<1>3. CASE WakeUp
  <2>1. ~usedFreed'
    BY <1>3, HolderFindsQueue DEF WakeUp
  <2>2. CASE msgList = <<>> /\ ~unblocked
    BY <1>3, <2>1, <2>2 DEF WakeUp
  <2>3. CASE ~(msgList = <<>> /\ ~unblocked)
    BY <1>3, <2>1, <2>3 DEF WakeUp, Receive
  <2> QED  BY <2>2, <2>3
<1>4. CASE ProcDone
  BY <1>4 DEF ProcDone
<1>5. CASE ThreadEnds
  <2>1. "thread" \in runnableRefs
    BY <1>5 DEF ThreadEnds
  <2>2. /\ runnableRefs' = runnableRefs \ {"thread"}
        /\ freed' \in BOOLEAN
        /\ freed' = (runnableRefs' = {})
    BY <1>5, <2>1, ReleaseCounts DEF ThreadEnds
  <2> QED  BY <1>5, <2>2 DEF ThreadEnds
<1>6. CASE StopLock
  BY <1>6 DEF StopLock
<1>7. CASE MsgQUnblock
  <2>1. ~usedFreed'
    BY <1>7, HolderFindsQueue DEF MsgQUnblock
  <2> QED  BY <1>7, <2>1 DEF MsgQUnblock
<1>8. CASE StopRelease
  <2>1. "stopper" \in runnableRefs
    BY <1>8 DEF StopRelease
  <2>2. /\ runnableRefs' = runnableRefs \ {"stopper"}
        /\ freed' \in BOOLEAN
        /\ freed' = (runnableRefs' = {})
    BY <1>8, <2>1, ReleaseCounts DEF StopRelease
  <2> QED  BY <1>8, <2>2 DEF StopRelease
<1>9. CASE UNCHANGED queueVars
  BY <1>9 DEF queueVars
<1> QED  BY <1>1, <1>2, <1>3, <1>4, <1>5, <1>6, <1>7, <1>8, <1>9 DEF QueueNext, TaskStep

-----------------------------------------------------------------------------
(* Where the messages are *)

\* What was handled, what is handled now and what is queued come in the order of sending.
Ordered ==
    /\ \A i, j \in 1..Len(handled) : i < j => handled[i] < handled[j]
    /\ \A i, j \in 1..Len(msgList) : i < j => msgList[i] < msgList[j]
    /\ \A i \in 1..Len(handled) : /\ handled[i] \in Sent
                                  /\ taskMsg # 0 => handled[i] < taskMsg
                                  /\ \A j \in 1..Len(msgList) : handled[i] < msgList[j]
    /\ taskMsg # 0 => \A j \in 1..Len(msgList) : taskMsg < msgList[j]

\* Each message sent is deleted, lost, handled now or queued, and only one of these.
Accounted ==
    /\ deleted \subseteq Sent /\ lost \subseteq Sent /\ deleted \cap lost = {}
    /\ \A j \in 1..Len(msgList) : msgList[j] \in Sent \ (deleted \cup lost)
    /\ taskMsg # 0 => taskMsg \in Sent \ (deleted \cup lost)
    /\ \A m \in Sent \ (deleted \cup lost) : m = taskMsg \/ \E j \in 1..Len(msgList) : msgList[j] = m
    /\ \A m \in lost : unblocked /\ sentBy[m] = "thread"

MessageInv ==
    /\ sentBy \in Seq(Sender \cup {"thread"})
    /\ msgList \in Seq(Nat) /\ handled \in Seq(Nat) /\ taskMsg \in Nat
    /\ taskPc = "proc" <=> taskMsg # 0
    /\ freed => msgList = <<>>
    /\ Ordered
    /\ Accounted

LEMMA MessageInitInv == QueueInit => MessageInv
  BY DEF QueueInit, MessageInv, Ordered, Accounted, Sent

\* Receive takes the first message from a list that has one.
LEMMA ReceiveTakesFirst ==
  ASSUME msgList \in Seq(Nat), msgList # <<>>, Receive
  PROVE  /\ taskPc' = "proc" /\ taskMsg' = msgList[1]
         /\ Len(msgList) > 0
         /\ msgList' \in Seq(Nat) /\ Len(msgList') = Len(msgList) - 1
         /\ \A i \in 1..Len(msgList') : msgList'[i] = msgList[i + 1]
<1>1. taskPc' = "proc" /\ taskMsg' = Head(msgList) /\ msgList' = Tail(msgList)
  BY DEF Receive
<1>2. Head(msgList) = msgList[1] /\ Len(msgList) \in Nat \ {0}
  BY EmptySeq
<1> QED  BY <1>1, <1>2, HeadTailProperties

\* So the messages stay accounted for: the first one is now the thread's.
LEMMA ReceiveKeepsMessages ==
  ASSUME MessageInv, taskPc # "proc", msgList # <<>>, Receive, ~freed,
         UNCHANGED <<unblocked, freed, sentBy, handled, deleted, lost>>
  PROVE  MessageInv'
<1> USE DEF MessageInv
<1>1. /\ taskPc' = "proc" /\ taskMsg' = msgList[1]
      /\ Len(msgList) > 0
      /\ msgList' \in Seq(Nat) /\ Len(msgList') = Len(msgList) - 1
      /\ \A i \in 1..Len(msgList') : msgList'[i] = msgList[i + 1]
  BY ReceiveTakesFirst
<1>2. Len(msgList) \in Nat /\ 1 \in 1..Len(msgList)
  BY <1>1
<1>3. \A i \in 1..Len(msgList') : i + 1 \in 1..Len(msgList)
  BY <1>1, <1>2
<1>4. msgList[1] \in Sent /\ msgList[1] # 0 /\ msgList[1] \in Nat
  BY <1>2 DEF Accounted, Sent
<1>5. Ordered'
  <2>1. ASSUME NEW i \in 1..Len(msgList'), NEW j \in 1..Len(msgList'), i < j
        PROVE  msgList'[i] < msgList'[j]
    <3>1. i + 1 \in 1..Len(msgList) /\ j + 1 \in 1..Len(msgList) /\ i + 1 < j + 1
      BY <1>1, <1>2, <2>1
    <3> QED  BY <1>1, <3>1 DEF Ordered
  <2>2. ASSUME NEW i \in 1..Len(handled)
        PROVE  /\ handled[i] \in Sent
               /\ handled[i] < taskMsg'
               /\ \A j \in 1..Len(msgList') : handled[i] < msgList'[j]
    BY <1>1, <1>2, <1>3 DEF Ordered
  <2>3. ASSUME NEW j \in 1..Len(msgList')
        PROVE  taskMsg' < msgList'[j]
    <3>1. j + 1 \in 1..Len(msgList) /\ 1 < j + 1
      BY <1>1, <1>2
    <3> QED  BY <1>1, <1>2, <3>1 DEF Ordered
  <2> QED  BY <2>1, <2>2, <2>3 DEF Ordered, Sent
<1>6. Accounted'
  <2>1. ASSUME NEW m \in Sent \ (deleted \cup lost)
        PROVE  m = taskMsg' \/ \E j \in 1..Len(msgList') : msgList'[j] = m
    <3>1. PICK j \in 1..Len(msgList) : msgList[j] = m
      BY <1>2 DEF Accounted, Sent
    <3>2. CASE j = 1
      BY <1>1, <3>1, <3>2
    <3>3. CASE j # 1
      <4>1. j - 1 \in 1..Len(msgList') /\ (j - 1) + 1 = j
        BY <1>1, <1>2, <3>3
      <4> QED  BY <1>1, <3>1, <4>1
    <3> QED  BY <3>2, <3>3
  <2> QED  BY <1>1, <1>2, <1>3, <2>1 DEF Accounted, Sent
<1> QED  BY <1>1, <1>4, <1>5, <1>6

\* The release of a reference deletes what is queued, if it was the last one.
LEMMA ReleaseKeepsMessages ==
  ASSUME MessageInv, taskMsg = 0, NEW holder, Release(holder), taskPc' # "proc",
         UNCHANGED <<unblocked, taskMsg, sentBy, handled, lost>>
  PROVE  MessageInv'
<1> USE DEF MessageInv
<1>1. CASE runnableRefs' = {}
  <2>1. msgList' = <<>> /\ deleted' = deleted \cup {msgList[i] : i \in 1..Len(msgList)}
    BY <1>1 DEF Release
  <2>2. Ordered'
    BY <2>1 DEF Ordered, Sent
  <2>3. Accounted'
    <3>1. \A m \in deleted' : m \in deleted \/ \E j \in 1..Len(msgList) : msgList[j] = m
      BY <2>1
    <3>2. deleted' \subseteq Sent /\ deleted' \cap lost = {}
      BY <3>1 DEF Accounted
    <3>3. Sent \ (deleted' \cup lost) = {}
      BY <2>1 DEF Accounted, Sent
    <3> QED  BY <2>1, <3>2, <3>3 DEF Accounted, Sent
  <2> QED  BY <2>1, <2>2, <2>3
<1>2. CASE runnableRefs' # {}
  BY <1>2 DEF Release, Ordered, Accounted, Sent
<1> QED  BY <1>1, <1>2

\* A message that is sent comes last.
LEMMA SendKeepsMessages ==
  ASSUME QueueIInv, MessageInv, NEW s \in Sender \cup {"thread"}, MsgQSnd(s)
  PROVE  MessageInv'
<1> USE DEF MessageInv
<1>1. /\ sentBy' = Append(sentBy, s) /\ Len(sentBy) \in Nat
      /\ Len(sentBy') = Len(sentBy) + 1
      /\ sentBy' \in Seq(Sender \cup {"thread"})
      /\ \A m \in Sent : sentBy'[m] = sentBy[m]
      /\ sentBy'[Len(sentBy')] = s
  BY DEF MsgQSnd, Sent
<1>2. Sent' = Sent \cup {Len(sentBy')} /\ Len(sentBy') \notin Sent /\ Len(sentBy') \in Nat
  BY <1>1 DEF Sent
<1>3. \A m \in Sent : m \in Nat /\ m < Len(sentBy')
  BY <1>1 DEF Sent
<1>4. ~freed
  BY DEF QueueIInv, RefsCounted, EndsWhenUnblocked, MsgQSnd
<1>5. UNCHANGED <<unblocked, freed, taskPc, taskMsg, handled, deleted>>
  BY DEF MsgQSnd
<1>6. CASE unblocked
  <2>1. msgList' = msgList /\ lost' = lost \cup {Len(sentBy')}
    BY <1>6 DEF MsgQSnd
  <2>2. s = "thread"
    BY <1>6 DEF MsgQSnd, QueueIInv, EndsWhenUnblocked
  <2>3. Ordered'
    BY <1>2, <1>5, <2>1 DEF Ordered
  <2>4. Accounted'
    <3>1. \A m \in lost' : sentBy'[m] = "thread"
      BY <1>1, <2>1, <2>2 DEF Accounted
    <3>2. /\ deleted' \subseteq Sent' /\ lost' \subseteq Sent' /\ deleted' \cap lost' = {}
          /\ \A j \in 1..Len(msgList') : msgList'[j] \in Sent' \ (deleted' \cup lost')
          /\ taskMsg' # 0 => taskMsg' \in Sent' \ (deleted' \cup lost')
      BY <1>2, <1>5, <2>1 DEF Accounted
    <3>3. Sent' \ (deleted' \cup lost') = Sent \ (deleted \cup lost)
      BY <1>2, <1>5, <2>1 DEF Accounted
    <3> QED  BY <1>5, <1>6, <2>1, <3>1, <3>2, <3>3 DEF Accounted
  <2> QED  BY <1>1, <1>4, <1>5, <2>1, <2>3, <2>4
<1>7. CASE ~unblocked
  <2>1. /\ msgList' = Append(msgList, Len(sentBy')) /\ lost' = lost
        /\ Len(msgList) \in Nat /\ Len(msgList') = Len(msgList) + 1
        /\ msgList' \in Seq(Nat)
        /\ \A j \in 1..Len(msgList) : msgList'[j] = msgList[j]
        /\ msgList'[Len(msgList')] = Len(sentBy')
    <3>1. msgList' = Append(msgList, Len(sentBy')) /\ lost' = lost
      BY <1>7 DEF MsgQSnd
    <3> QED  BY <1>2, <3>1, AppendProperties, LenProperties
  <2>2. \A j \in 1..Len(msgList') : \/ j \in 1..Len(msgList)
                                    \/ j = Len(msgList') /\ j \notin 1..Len(msgList)
    BY <2>1
  <2>3. Ordered'
    <3>1. ASSUME NEW i \in 1..Len(msgList'), NEW j \in 1..Len(msgList'), i < j
          PROVE  msgList'[i] < msgList'[j]
      <4>1. i \in 1..Len(msgList)
        BY <2>1, <3>1
      <4>2. CASE j \in 1..Len(msgList)
        BY <2>1, <3>1, <4>1, <4>2 DEF Ordered
      <4>3. CASE j = Len(msgList')
        BY <1>3, <2>1, <4>1, <4>3 DEF Accounted
      <4> QED  BY <2>2, <4>2, <4>3
    <3>2. ASSUME NEW j \in 1..Len(msgList')
          PROVE  /\ \A i \in 1..Len(handled) : handled[i] < msgList'[j]
                 /\ taskMsg # 0 => taskMsg < msgList'[j]
      <4>1. CASE j \in 1..Len(msgList)
        BY <2>1, <4>1 DEF Ordered
      <4>2. CASE j = Len(msgList')
        BY <1>3, <2>1, <4>2 DEF Ordered, Accounted
      <4> QED  BY <2>2, <4>1, <4>2
    <3> QED  BY <1>2, <1>5, <3>1, <3>2 DEF Ordered
  <2>4. Accounted'
    <3>1. \A j \in 1..Len(msgList') : msgList'[j] \in Sent' \ (deleted' \cup lost')
      BY <1>2, <1>5, <2>1, <2>2 DEF Accounted
    <3>2. Len(msgList') \in 1..Len(msgList') /\ 1..Len(msgList) \subseteq 1..Len(msgList')
      BY <2>1
    <3>3. \A m \in Sent' \ (deleted' \cup lost') :
              m = taskMsg' \/ \E j \in 1..Len(msgList') : msgList'[j] = m
      BY <1>2, <1>5, <2>1, <3>2 DEF Accounted
    <3> QED  BY <1>1, <1>2, <1>5, <2>1, <3>1, <3>3 DEF Accounted
  <2> QED  BY <1>1, <1>4, <1>5, <2>1, <2>3, <2>4
<1> QED  BY <1>6, <1>7

LEMMA MessageStepInv == QueueIInv /\ MessageInv /\ [QueueNext]_queueVars => MessageInv'
<1> SUFFICES ASSUME QueueIInv, MessageInv, [QueueNext]_queueVars
             PROVE  MessageInv'
  OBVIOUS
<1>1. CASE \E s \in Sender \cup {"thread"} : MsgQSnd(s)
  BY <1>1, SendKeepsMessages
<1>2. CASE MsgQRcv \/ WakeUp
  <2>1. /\ taskPc = "run" /\ ~freed
        /\ UNCHANGED <<unblocked, freed, sentBy, handled, deleted, lost>>
    BY <1>2 DEF MsgQRcv, WakeUp, QueueIInv, RefsCounted, EndsWhenUnblocked
  <2>2. CASE Receive /\ msgList # <<>>
    BY <2>1, <2>2, ReceiveKeepsMessages
  <2>3. CASE ~(Receive /\ msgList # <<>>)
    <3>1. UNCHANGED <<msgList, taskMsg>> /\ taskPc' # "proc"
      BY <1>2, <2>1, <2>3 DEF MsgQRcv, WakeUp, Receive
    <3> QED  BY <2>1, <3>1 DEF MessageInv, Ordered, Accounted, Sent
  <2> QED  BY <2>2, <2>3
<1>3. CASE ProcDone
  <2> USE <1>3 DEF ProcDone, MessageInv
  <2>1. taskMsg \in Sent /\ taskMsg # 0 /\ taskMsg \in Nat
    BY DEF Accounted
  <2>2. /\ handled' \in Seq(Nat) /\ Len(handled) \in Nat /\ Len(handled') = Len(handled) + 1
        /\ \A i \in 1..Len(handled) : handled'[i] = handled[i]
        /\ handled'[Len(handled')] = taskMsg
        /\ \A i \in 1..Len(handled') : \/ i \in 1..Len(handled)
                                       \/ i = Len(handled') /\ i \notin 1..Len(handled)
    BY <2>1
  <2>3. Ordered'
    <3>1. ASSUME NEW i \in 1..Len(handled'), NEW j \in 1..Len(handled'), i < j
          PROVE  handled'[i] < handled'[j]
      <4>1. i \in 1..Len(handled)
        BY <2>2, <3>1
      <4>2. CASE j \in 1..Len(handled)
        BY <2>2, <3>1, <4>1, <4>2 DEF Ordered
      <4>3. CASE j = Len(handled')
        BY <2>1, <2>2, <4>1, <4>3 DEF Ordered
      <4> QED  BY <2>2, <4>2, <4>3
    <3>2. \A i \in 1..Len(handled') :
              handled'[i] \in Sent /\ \A j \in 1..Len(msgList) : handled'[i] < msgList[j]
      BY <2>1, <2>2 DEF Ordered
    <3> QED  BY <3>1, <3>2 DEF Ordered, Sent
  <2>4. Accounted'
    <3>1. \A j \in 1..Len(msgList) : msgList[j] # taskMsg
      BY <2>1 DEF Ordered, Accounted, Sent
    <3> QED  BY <2>1, <3>1 DEF Accounted, Sent
  <2> QED  BY <2>2, <2>3, <2>4
<1>4. CASE ThreadEnds
  <2>1. taskMsg = 0 /\ taskPc' # "proc"
    BY <1>4 DEF ThreadEnds, MessageInv
  <2> QED  BY <1>4, <2>1, ReleaseKeepsMessages DEF ThreadEnds
<1>5. CASE StopLock
  BY <1>5 DEF StopLock, MessageInv, Ordered, Accounted, Sent
<1>6. CASE MsgQUnblock
  BY <1>6 DEF MsgQUnblock, MessageInv, Ordered, Accounted, Sent
<1>7. CASE StopRelease
  <2>1. CASE runnableRefs' = {}
    <3>1. taskPc = "ended"
      BY <1>7, <2>1 DEF StopRelease, Release, QueueIInv, RefsCounted
    <3>2. taskMsg = 0 /\ taskPc' # "proc"
      BY <1>7, <3>1 DEF StopRelease, MessageInv
    <3> QED  BY <1>7, <3>2, ReleaseKeepsMessages DEF StopRelease
  <2>2. CASE runnableRefs' # {}
    BY <1>7, <2>2 DEF StopRelease, Release, MessageInv, Ordered, Accounted, Sent
  <2> QED  BY <2>1, <2>2
<1>8. CASE UNCHANGED queueVars
  BY <1>8 DEF queueVars, MessageInv, Ordered, Accounted, Sent
<1> QED  BY <1>1, <1>2, <1>3, <1>4, <1>5, <1>6, <1>7, <1>8 DEF QueueNext, TaskStep

\* The queue is not used after it was freed (msg_q.c, MsgTask.cpp, LocThread.cpp): not by a
\* sender, not by the thread that runs on detached, not by the destructor that stops it;
\* and of all messages sent only those that an unblocked queue refused are not deleted.
THEOREM QueueIsSafe == QueueSpec => []QueueSafe
<1>1. QueueIInv => NoUseAfterFree
  BY DEF QueueIInv, NoUseAfterFree
<1>2. QueueIInv /\ MessageInv => MessagesAccounted
  <2> SUFFICES ASSUME QueueIInv, MessageInv
               PROVE  MessagesAccounted
    OBVIOUS
  <2>1. freed => deleted = Sent \ lost
    <3> SUFFICES ASSUME freed
                 PROVE  deleted = Sent \ lost
      OBVIOUS
    <3>1. taskMsg = 0 /\ msgList = <<>> /\ 0 \notin Sent
      <4>1. taskPc = "ended"
        BY DEF QueueIInv, RefsCounted
      <4>2. taskMsg = 0 /\ msgList = <<>>
        BY <4>1 DEF MessageInv
      <4>3. 0 \notin Sent
        BY DEF Sent, MessageInv
      <4> QED  BY <4>2, <4>3
    <3>2. 1..Len(msgList) = {}
      BY <3>1
    <3>3. Sent \ (deleted \cup lost) = {}
      BY <3>1, <3>2 DEF MessageInv, Accounted
    <3> QED  BY <3>3 DEF MessageInv, Accounted
  <2> QED  BY <2>1 DEF MessageInv, Ordered, Accounted, MessagesAccounted
<1> QED  BY <1>1, <1>2, QueueInitInv, QueueStepInv, MessageInitInv, MessageStepInv, PTL
         DEF QueueSpec, QueueSafe

-----------------------------------------------------------------------------
(* LocTimer: how often a message is in a queue *)

Count(q, m) == Cardinality({i \in 1..Len(q) : q[i] = m})

LEMMA CountType ==
  ASSUME NEW S, NEW q \in Seq(S), NEW m
  PROVE  /\ IsFiniteSet({i \in 1..Len(q) : q[i] = m})
         /\ Count(q, m) \in Nat
         /\ Count(q, m) = 0 <=> \A i \in 1..Len(q) : q[i] # m
<1> DEFINE Places == {i \in 1..Len(q) : q[i] = m}
<1>1. IsFiniteSet(1..Len(q))
  BY FS_Interval
<1>2. IsFiniteSet(Places)
  BY <1>1, FS_Subset
<1>3. Cardinality(Places) \in Nat /\ (Cardinality(Places) = 0 <=> Places = {})
  BY <1>2, FS_CardinalityType, FS_EmptySet
<1> QED  BY <1>2, <1>3 DEF Count

LEMMA CountAppend ==
  ASSUME NEW S, NEW q \in Seq(S), NEW x \in S, NEW m
  PROVE  Count(Append(q, x), m) = Count(q, m) + (IF x = m THEN 1 ELSE 0)
<1> DEFINE Places == {i \in 1..Len(q) : q[i] = m}
           After == {i \in 1..Len(Append(q, x)) : Append(q, x)[i] = m}
<1>1. IsFiniteSet(Places) /\ Cardinality(Places) \in Nat
  BY CountType DEF Count
<1>2. After = IF x = m THEN Places \cup {Len(q) + 1} ELSE Places
  OBVIOUS
<1>3. Len(q) + 1 \notin Places
  OBVIOUS
<1>0. Count(q, m) = Cardinality(Places) /\ Count(Append(q, x), m) = Cardinality(After)
  BY DEF Count
<1> HIDE DEF Places, After
<1>4. CASE x = m
  <2>1. Cardinality(Places \cup {Len(q) + 1}) = Cardinality(Places) + 1
    BY <1>1, <1>3, FS_AddElement
  <2> QED  BY <1>0, <1>2, <1>4, <2>1
<1>5. CASE x # m
  BY <1>0, <1>1, <1>2, <1>5
<1> QED  BY <1>4, <1>5

LEMMA CountTail ==
  ASSUME NEW S, NEW q \in Seq(S), q # <<>>, NEW m
  PROVE  Count(q, m) = Count(Tail(q), m) + (IF Head(q) = m THEN 1 ELSE 0)
<1> DEFINE Places == {i \in 1..Len(q) : q[i] = m}
           Later == Places \ {1}
           After == {i \in 1..Len(Tail(q)) : Tail(q)[i] = m}
           Shift == [i \in After |-> i + 1]
<1>1. IsFiniteSet(Places) /\ Cardinality(Places) \in Nat
  BY CountType DEF Count
<1>2. Tail(q) \in Seq(S) /\ Len(Tail(q)) = Len(q) - 1
       /\ \A i \in 1..Len(Tail(q)) : Tail(q)[i] = q[i + 1]
  OBVIOUS
<1>3. IsFiniteSet(After) /\ Cardinality(After) \in Nat
  BY <1>2, CountType DEF Count
<1>4. Shift \in Bijection(After, Later)
  <2>1. Shift \in [After -> Later]
    BY <1>2
  <2>2. \A i, j \in After : Shift[i] = Shift[j] => i = j
    OBVIOUS
  <2>3. \A k \in Later : \E i \in After : Shift[i] = k
    <3> TAKE k \in Later
    <3>1. k - 1 \in After /\ k = (k - 1) + 1
      BY <1>2
    <3> QED  BY <3>1
  <2> QED  BY <2>1, <2>2, <2>3, Fun_IsBij
<1>5. Cardinality(Later) = Cardinality(After)
  BY <1>3, <1>4, FS_Bijection DEF ExistsBijection
<1>6. 1 \in Places <=> Head(q) = m
  OBVIOUS
<1>7. Cardinality(Later) = IF 1 \in Places THEN Cardinality(Places) - 1 ELSE Cardinality(Places)
  BY <1>1, FS_RemoveElement
<1>0. Count(q, m) = Cardinality(Places) /\ Count(Tail(q), m) = Cardinality(After)
  BY DEF Count
<1> HIDE DEF Places, After, Later
<1> QED  BY <1>0, <1>1, <1>3, <1>5, <1>6, <1>7

-----------------------------------------------------------------------------
(* The inductive invariant *)

TimerMsg == {PushMsg(d) : d \in Delegate} \cup {RemoveMsg(d) : d \in Delegate} \cup {ExpireMsg}

TaskState == [at : {"idle", "popped", "read", "stopped", "next"},
              timer : Delegate \cup {NoTimer}, since : Nat]

Outcome == {"not", "stopped", "fired", "early"}

Typed ==
    /\ now \in Nat
    /\ mTimer \in [Timer -> Delegate \cup {NoTimer}]
    /\ starts \in 0..MaxStarts
    /\ alive \subseteq Delegate /\ mClient \subseteq alive
    /\ mFutureTime \in [Delegate -> Nat]
    /\ timerQueue \in Seq(TimerMsg)
    /\ armed \in Nat /\ polled \in BOOLEAN
    /\ poll \in {"wait", "woken", "disarmed"}
    /\ task \in TaskState
    /\ task.at = "idle" => task = Idle
    /\ task.at \in {"popped", "read"} => task.timer \in Delegate
    /\ ended \in [Delegate -> Outcome]

\* The heap holds allocated delegates, and its first one is there unless it is empty.
HeapInv ==
    /\ heap \subseteq alive
    /\ top = NoTimer <=> heap = {}
    /\ heap # {} => top \in heap

\* A timer that has a delegate has one of its own that knows it.
TimersLinked == \A t \in Timer :
    mTimer[t] # NoTimer => mTimer[t] \in mClient /\ Owner(mTimer[t]) = t

\* Nothing is known of a delegate before it is created, and it ends when it loses its client.
BornOnce == \A d \in Delegate :
    /\ d \in alive => d[2] <= starts /\ mFutureTime[d] > 0
    /\ ended[d] # "not" => d[2] <= starts /\ d \notin mClient

\* A delegate is pushed before it is removed.
PushedFirst(d) == \A i, j \in 1..Len(timerQueue) :
    timerQueue[i] = PushMsg(d) /\ timerQueue[j] = RemoveMsg(d) => i < j

Running(d) ==
    /\ Times(RemoveMsg(d)) = 0
    /\ mTimer[Owner(d)] = d
    /\ \/ Times(PushMsg(d)) = 1 /\ d \notin heap /\ ~ InHand(d)
       \/ Times(PushMsg(d)) = 0 /\ (d \in heap <=> ~ InHand(d))

Ended(d) ==
    /\ Times(RemoveMsg(d)) = 1 /\ Times(PushMsg(d)) \in {0, 1}
    /\ PushedFirst(d)
    /\ mTimer[Owner(d)] # d

Gone(d) == Times(PushMsg(d)) = 0 /\ Times(RemoveMsg(d)) = 0 /\ ~ InHand(d)

Placed(d) == /\ d \in mClient => Running(d)
             /\ d \in alive \ mClient => Ended(d)
             /\ d \notin alive => Gone(d)

AllPlaced == \A d \in Delegate : Placed(d)

TimerIInv == Typed /\ HeapInv /\ TimersLinked /\ BornOnce /\ AllPlaced

-----------------------------------------------------------------------------
(* Messages and the queue *)

LEMMA NoTimerIsNone == NoTimer \notin Delegate
  BY DEF NoTimer, Delegate

LEMMA MessagesDiffer ==
  ASSUME NEW d, NEW e
  PROVE  /\ PushMsg(d) = PushMsg(e) => d = e
         /\ RemoveMsg(d) = RemoveMsg(e) => d = e
         /\ PushMsg(d) # RemoveMsg(e)
         /\ PushMsg(d) # ExpireMsg /\ RemoveMsg(d) # ExpireMsg
<1>1. PushMsg(d).timer = d /\ PushMsg(e).timer = e /\ PushMsg(d).kind = "push"
  BY DEF PushMsg
<1>2. RemoveMsg(d).timer = d /\ RemoveMsg(e).timer = e
       /\ RemoveMsg(d).kind = "remove" /\ RemoveMsg(e).kind = "remove"
  BY DEF RemoveMsg
<1>3. ExpireMsg.kind = "expire"
  BY DEF ExpireMsg
<1> QED  BY <1>1, <1>2, <1>3

LEMMA ExpireDiffers ==
  ASSUME NEW d
  PROVE  PushMsg(d) # ExpireMsg /\ RemoveMsg(d) # ExpireMsg
  BY MessagesDiffer

\* What a message of a kind is.
LEMMA MessageOfKind ==
  ASSUME NEW m \in TimerMsg
  PROVE  /\ m.kind = "push" => m.timer \in Delegate /\ m = PushMsg(m.timer)
         /\ m.kind = "remove" => m.timer \in Delegate /\ m = RemoveMsg(m.timer)
         /\ m.kind = "expire" => m = ExpireMsg
  BY DEF TimerMsg, PushMsg, RemoveMsg, ExpireMsg

LEMMA TimesType ==
  ASSUME timerQueue \in Seq(TimerMsg), NEW m
  PROVE  /\ Times(m) \in Nat
         /\ Times(m) = 0 <=> \A i \in 1..Len(timerQueue) : timerQueue[i] # m
  BY CountType DEF Times, Count

LEMMA TimesPosted ==
  ASSUME timerQueue \in Seq(TimerMsg), NEW x \in TimerMsg,
         timerQueue' = Append(timerQueue, x), NEW m
  PROVE  Times(m)' = Times(m) + (IF x = m THEN 1 ELSE 0)
<1>1. Times(m) = Count(timerQueue, m) /\ Times(m)' = Count(timerQueue', m)
  BY DEF Times, Count
<1> QED  BY <1>1, CountAppend

LEMMA TimesTaken ==
  ASSUME timerQueue \in Seq(TimerMsg), timerQueue # <<>>,
         timerQueue' = Tail(timerQueue), NEW m
  PROVE  /\ Times(m)' \in Nat
         /\ Times(m) = Times(m)' + (IF Head(timerQueue) = m THEN 1 ELSE 0)
<1>1. Times(m) = Count(timerQueue, m) /\ Times(m)' = Count(timerQueue', m)
  BY DEF Times, Count
<1>2. Tail(timerQueue) \in Seq(TimerMsg)
  OBVIOUS
<1>3. Count(Tail(timerQueue), m) \in Nat
  BY <1>2, CountType
<1>4. Count(timerQueue, m) = Count(Tail(timerQueue), m)
                             + (IF Head(timerQueue) = m THEN 1 ELSE 0)
  BY CountTail
<1> QED  BY <1>1, <1>3, <1>4

LEMMA TimesSame ==
  ASSUME UNCHANGED timerQueue, NEW m
  PROVE  Times(m)' = Times(m)
  BY DEF Times

\* A message to remove a delegate that is posted comes after all others.
LEMMA PushedFirstPosted ==
  ASSUME timerQueue \in Seq(TimerMsg), NEW x \in TimerMsg,
         timerQueue' = Append(timerQueue, x), NEW d \in Delegate,
         x # PushMsg(d), x = RemoveMsg(d) \/ PushedFirst(d),
         x = RemoveMsg(d) => Times(RemoveMsg(d)) = 0
  PROVE  PushedFirst(d)'
<1> SUFFICES ASSUME NEW i \in 1..Len(timerQueue'), NEW j \in 1..Len(timerQueue'),
                    timerQueue'[i] = PushMsg(d), timerQueue'[j] = RemoveMsg(d)
             PROVE  i < j
  BY DEF PushedFirst
<1>1. /\ Len(timerQueue') = Len(timerQueue) + 1
      /\ timerQueue'[Len(timerQueue) + 1] = x
      /\ \A k \in 1..Len(timerQueue) : timerQueue'[k] = timerQueue[k]
  OBVIOUS
<1>2. i \in 1..Len(timerQueue) /\ timerQueue[i] = PushMsg(d)
  BY <1>1
<1>3. CASE j = Len(timerQueue) + 1
  BY <1>2, <1>3
<1>4. CASE j \in 1..Len(timerQueue)
  <2>1. timerQueue[j] = RemoveMsg(d)
    BY <1>1, <1>4
  <2>2. Times(RemoveMsg(d)) # 0
    BY <1>4, <2>1, TimesType
  <2> QED  BY <1>2, <1>4, <2>1, <2>2 DEF PushedFirst
<1> QED  BY <1>1, <1>3, <1>4

LEMMA PushedFirstTaken ==
  ASSUME timerQueue \in Seq(TimerMsg), timerQueue # <<>>,
         timerQueue' = Tail(timerQueue), NEW d \in Delegate, PushedFirst(d)
  PROVE  PushedFirst(d)'
<1>1. /\ Len(timerQueue') = Len(timerQueue) - 1
      /\ \A k \in 1..Len(timerQueue') : timerQueue'[k] = timerQueue[k + 1]
  OBVIOUS
<1> QED  BY <1>1 DEF PushedFirst

\* What is removed has no message to push it behind.
LEMMA RemovedIsNotPushed ==
  ASSUME timerQueue \in Seq(TimerMsg), timerQueue # <<>>, NEW d \in Delegate,
         Head(timerQueue) = RemoveMsg(d), PushedFirst(d)
  PROVE  Times(PushMsg(d)) = 0
<1>1. timerQueue[1] = RemoveMsg(d) /\ 1 \in 1..Len(timerQueue)
  OBVIOUS
<1>2. \A i \in 1..Len(timerQueue) : timerQueue[i] # PushMsg(d)
  BY <1>1 DEF PushedFirst
<1> QED  BY <1>2, TimesType

-----------------------------------------------------------------------------
(* The heap and the timerfd *)

LEMMA PushKeepsFirst ==
  ASSUME Typed, HeapInv, NEW d \in Delegate, HeapPush(d)
  PROVE  /\ heap' = heap \cup {d}
         /\ top' \in heap' /\ top' # NoTimer
         /\ top' # top => /\ top' = d
                          /\ top = NoTimer \/ mFutureTime[d] < mFutureTime[top]
  BY NoTimerIsNone DEF Typed, HeapInv, HeapPush

LEMMA RemoveKeepsFirst ==
  ASSUME Typed, HeapInv, NEW d \in heap, HeapRemove(d)
  PROVE  /\ heap' = heap \ {d}
         /\ top' = NoTimer <=> heap' = {}
         /\ heap' # {} => top' \in heap'
         /\ d # top => top' = top
<1>1. heap' = heap \ {d} /\ heap' \subseteq Delegate
  BY DEF HeapRemove, Typed, HeapInv
<1>2. CASE d # top
  BY <1>1, <1>2, NoTimerIsNone DEF HeapRemove, HeapInv
<1>3. CASE d = top
  BY <1>1, <1>3, NoTimerIsNone DEF HeapRemove, Soonest
<1> QED  BY <1>2, <1>3

LEMMA TimerfdTyped ==
  ASSUME Typed, NEW prior, UpdateSoonestTime(prior), top' \in Delegate \cup {NoTimer}
  PROVE  armed' \in Nat /\ polled' \in BOOLEAN
<1>1. CASE UNCHANGED timerfd
  BY <1>1 DEF Typed, timerfd
<1>2. CASE armed' = 0 /\ polled' = FALSE
  BY <1>2
<1>3. CASE top' # NoTimer /\ armed' = mFutureTime[top'] /\ polled' = TRUE
  BY <1>3 DEF Typed
<1> QED  BY <1>1, <1>2, <1>3 DEF UpdateSoonestTime

-----------------------------------------------------------------------------
(* The delegates that messages name *)

LEMMA HeadIsPush ==
  ASSUME Typed, AllPlaced, NextMsg("push"), NEW d, d = Head(timerQueue).timer
  PROVE  d \in alive /\ Head(timerQueue) = PushMsg(d) /\ Times(PushMsg(d)) # 0
<1>1. d \in Delegate /\ Head(timerQueue) = PushMsg(d)
  BY MessageOfKind DEF NextMsg, Typed
<1>2. timerQueue[1] = PushMsg(d) /\ 1 \in 1..Len(timerQueue)
  BY <1>1 DEF NextMsg, Typed
<1>3. Times(PushMsg(d)) # 0
  BY <1>2, TimesType DEF Typed
<1> QED  BY <1>1, <1>3 DEF AllPlaced, Placed, Gone

LEMMA HeadIsRemove ==
  ASSUME Typed, AllPlaced, NextMsg("remove"), NEW d, d = Head(timerQueue).timer
  PROVE  d \in alive \ mClient /\ Head(timerQueue) = RemoveMsg(d) /\ Ended(d)
<1>1. d \in Delegate /\ Head(timerQueue) = RemoveMsg(d)
  BY MessageOfKind DEF NextMsg, Typed
<1>2. timerQueue[1] = RemoveMsg(d) /\ 1 \in 1..Len(timerQueue)
  BY <1>1 DEF NextMsg, Typed
<1>3. Times(RemoveMsg(d)) # 0
  BY <1>2, TimesType DEF Typed
<1> QED  BY <1>1, <1>3 DEF AllPlaced, Placed, Gone, Running

-----------------------------------------------------------------------------
(* Types *)

LEMMA StopTyped ==
  ASSUME Typed, TimersLinked, NEW t \in Timer, NEW how \in Outcome, Stop(t, how),
         task' \in TaskState, task'.at = "idle" => task' = Idle,
         task'.at \in {"popped", "read"} => task'.timer \in Delegate
  PROVE  Typed'
<1>1. mTimer[t] \in Delegate
  BY DEF Typed, Stop
<1>2. timerQueue' \in Seq(TimerMsg)
  <2>1. RemoveMsg(mTimer[t]) \in TimerMsg
    BY <1>1 DEF TimerMsg
  <2> QED  BY <2>1 DEF Stop, Typed
<1>3. ended' \in [Delegate -> Outcome] /\ mTimer' \in [Timer -> Delegate \cup {NoTimer}]
  BY <1>1 DEF Stop, Typed
<1> QED  BY <1>2, <1>3 DEF Stop, Typed, timerfd

LEMMA StepTyped ==
  ASSUME TimerIInv, TimerNext
  PROVE  Typed'
<1>0. Typed /\ HeapInv /\ TimersLinked /\ AllPlaced
  BY DEF TimerIInv
<1> USE <1>0 DEF clients, timerfd
<1>1. ASSUME NEW t \in Timer, ClientStop(t)  PROVE Typed'
  BY <1>1, StopTyped DEF ClientStop, Typed, Outcome
<1>2. ASSUME NEW t \in Timer, NEW delay \in Delay, Start(t, delay)  PROVE Typed'
  <2> DEFINE d == <<t, starts + 1>>
  <2>1. starts + 1 \in 1..MaxStarts /\ starts' = starts + 1
    BY <1>2, LocTimerAssumption DEF Start, Typed
  <2>2. d \in Delegate
    BY <2>1 DEF Delegate
  <2>3. PushMsg(d) \in TimerMsg
    BY <2>2 DEF TimerMsg
  <2>4. now + delay \in Nat
    BY LocTimerAssumption DEF Typed
  <2>5. /\ mTimer' = [mTimer EXCEPT ![t] = d]
        /\ alive' = alive \cup {d} /\ mClient' = mClient \cup {d}
        /\ mFutureTime' = [mFutureTime EXCEPT ![d] = now + delay]
        /\ timerQueue' = Append(timerQueue, PushMsg(d))
        /\ UNCHANGED <<now, armed, polled, poll, task, ended>>
    BY <1>2 DEF Start
  <2> HIDE DEF d
  <2>6. mFutureTime' \in [Delegate -> Nat]
    BY <2>4, <2>5 DEF Typed
  <2>7. timerQueue' \in Seq(TimerMsg)
    BY <2>3, <2>5 DEF Typed
  <2>8. mTimer' \in [Timer -> Delegate \cup {NoTimer}]
    BY <2>2, <2>5 DEF Typed
  <2> QED  BY <2>1, <2>2, <2>5, <2>6, <2>7, <2>8 DEF Typed
<1>3. ASSUME timerQueue # <<>>, timerQueue' = Tail(timerQueue)
      PROVE  timerQueue' \in Seq(TimerMsg)
  BY <1>3 DEF Typed
<1>4. CASE ProcPush
  <2>1. Head(timerQueue).timer \in Delegate
    BY <1>4, HeadIsPush DEF ProcPush, Typed
  <2>2. top' \in Delegate
    BY <1>4, <2>1, PushKeepsFirst DEF ProcPush, Typed, HeapInv
  <2>3. armed' \in Nat /\ polled' \in BOOLEAN
    BY <1>4, <2>2, TimerfdTyped DEF ProcPush
  <2>4. timerQueue' \in Seq(TimerMsg)
    BY <1>3, <1>4 DEF ProcPush, NextMsg
  <2> QED  BY <1>4, <2>3, <2>4 DEF ProcPush, Typed
<1>5. CASE ProcRemove
  <2> DEFINE d == Head(timerQueue).timer
  <2>1. d \in alive \ mClient
    BY <1>5, HeadIsRemove DEF ProcRemove
  <2>2. top' \in Delegate \cup {NoTimer}
    <3>1. CASE d \in heap
      <4>1. HeapRemove(d)
        BY <1>5, <3>1 DEF ProcRemove
      <4> QED  BY <3>1, <4>1, RemoveKeepsFirst DEF Typed, HeapInv
    <3>2. CASE d \notin heap
      BY <1>5, <3>2 DEF ProcRemove, Typed, HeapInv
    <3> QED  BY <3>1, <3>2
  <2>3. armed' \in Nat /\ polled' \in BOOLEAN
    BY <1>5, <2>2, TimerfdTyped DEF ProcRemove, Typed
  <2>4. /\ alive' = alive \ {d}
        /\ mFutureTime' = [mFutureTime EXCEPT ![d] = 0]
        /\ UNCHANGED <<now, mTimer, starts, mClient, poll, task, ended>>
    BY <1>5 DEF ProcRemove
  <2>5. timerQueue' \in Seq(TimerMsg)
    BY <1>3, <1>5 DEF ProcRemove, NextMsg
  <2> HIDE DEF d
  <2>6. mFutureTime' \in [Delegate -> Nat]
    BY <2>4 DEF Typed
  <2> QED  BY <2>1, <2>3, <2>4, <2>5, <2>6 DEF Typed
<1>6. ASSUME NEW since \in Nat, heap # {}, Pop(since)
      PROVE  /\ armed' \in Nat /\ polled' \in BOOLEAN
             /\ task' \in TaskState /\ task'.at = "popped" /\ task'.timer \in Delegate
  BY <1>6 DEF Pop, At, TaskState, Typed, HeapInv
<1>7. ASSUME EndExpire
      PROVE  /\ armed' \in Nat /\ polled' \in BOOLEAN
             /\ task' \in TaskState /\ task' = Idle /\ task'.at = "idle"
  <2>1. top' \in Delegate \cup {NoTimer}
    BY <1>7 DEF EndExpire, Typed, HeapInv
  <2>2. armed' \in Nat /\ polled' \in BOOLEAN
    BY <1>7, <2>1, TimerfdTyped DEF EndExpire
  <2> QED  BY <1>7, <2>2 DEF EndExpire, Idle, TaskState
<1>8. CASE ProcExpire
  <2>1. timerQueue' \in Seq(TimerMsg)
    BY <1>3, <1>8 DEF ProcExpire, NextMsg
  <2>2. now \in Nat
    BY DEF Typed
  <2> QED  BY <1>6, <1>7, <1>8, <2>1, <2>2 DEF ProcExpire, Typed
<1>9. CASE ExpireNext
  <2>1. task.since \in Nat
    BY DEF Typed, TaskState
  <2> QED  BY <1>6, <1>7, <1>9, <2>1 DEF ExpireNext, Typed
<1>10. CASE ExpireReadClient
  BY <1>10 DEF ExpireReadClient, Go, Typed, TaskState
<1>11. CASE ExpireStop
  <2>1. /\ task' \in TaskState /\ task'.at \in {"stopped", "next"}
    BY <1>11 DEF ExpireStop, Go, Typed, TaskState
  <2>2. Owner(task.timer) \in Timer
    BY <1>11 DEF ExpireStop, Typed, Delegate, Owner
  <2>3. ASSUME NEW how \in Outcome, Stop(Owner(task.timer), how)  PROVE Typed'
    BY <2>1, <2>2, <2>3, StopTyped
  <2> QED  BY <1>11, <2>1, <2>3 DEF ExpireStop, Outcome, Typed
<1>12. CASE ExpireCallback
  BY <1>12 DEF ExpireCallback, Go, Typed, TaskState
<1>13. CASE PollWake
  BY <1>13 DEF PollWake, PollRest, Typed
<1>14. CASE PollDisarm
  BY <1>14 DEF PollDisarm, PollRest, Typed
<1>15. CASE PollPost
  <2>1. timerQueue' \in Seq(TimerMsg) /\ polled' = FALSE
    BY <1>15 DEF PollPost, Typed, TimerMsg
  <2> QED  BY <1>15, <2>1 DEF PollPost, PollRest, Typed
<1>16. CASE Tick
  BY <1>16 DEF Tick, Typed
<1> QED  BY <1>1, <1>2, <1>4, <1>5, <1>8, <1>9, <1>10, <1>11, <1>12, <1>13, <1>14, <1>15, <1>16,
         TimerNext DEF TimerNext, MsgTask, PollTask

-----------------------------------------------------------------------------
(* The heap, the timers and the births *)

\* Every step keeps the heap well formed.
LEMMA StepHeap ==
  ASSUME TimerIInv, TimerNext
  PROVE  HeapInv'
<1>0. Typed /\ HeapInv /\ AllPlaced
  BY DEF TimerIInv
<1> USE <1>0
<1>1. CASE ProcPush
  <2> DEFINE d == Head(timerQueue).timer
  <2>1. d \in alive /\ HeapPush(d) /\ alive' = alive
    BY <1>1, HeadIsPush DEF ProcPush
  <2>2. heap' = heap \cup {d} /\ top' \in heap' /\ top' # NoTimer
    BY <2>1, PushKeepsFirst DEF Typed
  <2> QED  BY <2>1, <2>2 DEF HeapInv
<1>2. CASE ProcRemove
  <2> DEFINE d == Head(timerQueue).timer
  <2>1. alive' = alive \ {d}
    BY <1>2 DEF ProcRemove
  <2>2. CASE d \in heap
    <3>1. HeapRemove(d)
      BY <1>2, <2>2 DEF ProcRemove
    <3> QED  BY <2>1, <2>2, <3>1, RemoveKeepsFirst DEF HeapInv
  <2>3. CASE d \notin heap
    BY <1>2, <2>1, <2>3 DEF ProcRemove, HeapInv
  <2> QED  BY <2>2, <2>3
<1>3. ASSUME NEW since, heap # {}, Pop(since), UNCHANGED alive  PROVE HeapInv'
  <2>1. top \in heap /\ HeapRemove(top)
    BY <1>3 DEF Pop, HeapInv
  <2> QED  BY <1>3, <2>1, RemoveKeepsFirst DEF HeapInv
<1>4. CASE UNCHANGED <<heap, top>> /\ alive \subseteq alive'
  BY <1>4 DEF HeapInv
<1>5. CASE ProcExpire
  BY <1>3, <1>4, <1>5 DEF ProcExpire, EndExpire
<1>6. CASE ExpireNext
  BY <1>3, <1>4, <1>6 DEF ExpireNext, EndExpire
<1> QED  BY <1>1, <1>2, <1>4, <1>5, <1>6, TimerNext
         DEF TimerNext, MsgTask, PollTask, ClientStop, Start, Stop, ExpireReadClient, ExpireStop,
             ExpireCallback, PollWake, PollDisarm, PollPost, PollRest, Tick

\* What stop() does to the timer's delegate, whoever calls it.
LEMMA StopEnds ==
  ASSUME Typed, TimersLinked, NEW t \in Timer, NEW how, Stop(t, how)
  PROVE  /\ mTimer[t] \in mClient /\ mTimer[t] \in Delegate /\ Owner(mTimer[t]) = t
         /\ mTimer'[t] = NoTimer /\ \A u \in Timer \ {t} : mTimer'[u] = mTimer[u]
         /\ mClient' = mClient \ {mTimer[t]}
         /\ ended'[mTimer[t]] = how
         /\ \A d \in Delegate \ {mTimer[t]} : ended'[d] = ended[d]
  BY DEF Stop, Typed, TimersLinked

\* What start() does: the delegate it creates has not existed before.
LEMMA StartCreates ==
  ASSUME Typed, BornOnce, NEW t \in Timer, NEW delay \in Delay, Start(t, delay),
         NEW d, d = <<t, starts + 1>>
  PROVE  /\ d \in Delegate \ alive /\ Owner(d) = t /\ d[2] = starts + 1 /\ ended[d] = "not"
         /\ starts' = starts + 1 /\ starts \in Nat
         /\ mTimer[t] = NoTimer
         /\ mTimer'[t] = d /\ \A u \in Timer \ {t} : mTimer'[u] = mTimer[u]
         /\ alive' = alive \cup {d} /\ mClient' = mClient \cup {d}
         /\ mFutureTime'[d] > 0
         /\ \A e \in Delegate \ {d} : mFutureTime'[e] = mFutureTime[e]
         /\ timerQueue' = Append(timerQueue, PushMsg(d))
         /\ UNCHANGED <<heap, top, task, ended>>
<1>1. starts + 1 \in 1..MaxStarts /\ starts \in Nat
  BY LocTimerAssumption DEF Start, Typed
<1>2. d \in Delegate /\ d[1] = t /\ d[2] = starts + 1
  BY <1>1 DEF Delegate
<1>3. d \notin alive /\ ended[d] = "not"
  BY <1>1, <1>2 DEF BornOnce
<1>4. now + delay \in Nat /\ now + delay > 0
  BY LocTimerAssumption DEF Typed
<1>5. /\ mTimer[t] = NoTimer
      /\ mTimer' = [mTimer EXCEPT ![t] = d]
      /\ alive' = alive \cup {d} /\ mClient' = mClient \cup {d}
      /\ mFutureTime' = [mFutureTime EXCEPT ![d] = now + delay]
      /\ timerQueue' = Append(timerQueue, PushMsg(d))
      /\ starts' = starts + 1
      /\ UNCHANGED <<heap, top, task, ended>>
  BY DEF Start
<1>6. mTimer'[t] = d /\ \A u \in Timer \ {t} : mTimer'[u] = mTimer[u]
  BY <1>5 DEF Typed
<1>7. mFutureTime'[d] > 0 /\ \A e \in Delegate \ {d} : mFutureTime'[e] = mFutureTime[e]
  BY <1>2, <1>4, <1>5 DEF Typed
<1> QED  BY <1>1, <1>2, <1>3, <1>5, <1>6, <1>7 DEF Owner

LEMMA StepLinked ==
  ASSUME TimerIInv, TimerNext
  PROVE  TimersLinked'
<1>0. Typed /\ TimersLinked /\ BornOnce
  BY DEF TimerIInv
<1> USE <1>0
<1>1. ASSUME NEW t \in Timer, NEW how, Stop(t, how)  PROVE TimersLinked'
  BY <1>1, StopEnds DEF TimersLinked
<1>2. ASSUME NEW t \in Timer, NEW delay \in Delay, Start(t, delay)  PROVE TimersLinked'
  <2> DEFINE d == <<t, starts + 1>>
  <2>1. d = <<t, starts + 1>>
    OBVIOUS
  <2> HIDE DEF d
  <2> QED  BY <1>2, <2>1, StartCreates DEF TimersLinked
<1>3. CASE UNCHANGED <<mTimer, mClient>>
  BY <1>3 DEF TimersLinked
<1>4. CASE ExpireStop
  <2>1. Owner(task.timer) \in Timer
    BY <1>4 DEF ExpireStop, Typed, Delegate, Owner
  <2> QED  BY <1>1, <1>3, <1>4, <2>1 DEF ExpireStop, clients
<1> QED  BY <1>1, <1>2, <1>3, <1>4, TimerNext
         DEF TimerNext, MsgTask, PollTask, ClientStop, ProcPush, ProcRemove, ProcExpire,
             ExpireNext, ExpireReadClient, ExpireCallback, PollWake, PollDisarm, PollPost,
             PollRest, Tick, clients

LEMMA StepBorn ==
  ASSUME TimerIInv, TimerNext
  PROVE  BornOnce'
<1>0. Typed /\ TimersLinked /\ BornOnce /\ AllPlaced
  BY DEF TimerIInv
<1> USE <1>0
<1>1. ASSUME NEW t \in Timer, NEW how, Stop(t, how)  PROVE BornOnce'
  <2>1. UNCHANGED <<alive, starts, mFutureTime>>
    BY <1>1 DEF Stop
  <2>2. mTimer[t] \in alive
    BY <1>1, StopEnds DEF Typed
  <2> QED  BY <1>1, <2>1, <2>2, StopEnds DEF BornOnce
<1>2. ASSUME NEW t \in Timer, NEW delay \in Delay, Start(t, delay)  PROVE BornOnce'
  <2> DEFINE d == <<t, starts + 1>>
  <2>1. d = <<t, starts + 1>>
    OBVIOUS
  <2>2. \A e \in Delegate : e[2] \in Nat
    BY DEF Delegate
  <2> HIDE DEF d
  <2> QED  BY <1>2, <2>1, <2>2, StartCreates DEF BornOnce
<1>3. CASE UNCHANGED <<alive, starts, mClient, mFutureTime, ended>>
  BY <1>3 DEF BornOnce
<1>4. CASE ExpireStop
  <2>1. Owner(task.timer) \in Timer
    BY <1>4 DEF ExpireStop, Typed, Delegate, Owner
  <2> QED  BY <1>1, <1>3, <1>4, <2>1 DEF ExpireStop, clients
<1>5. CASE ProcRemove
  BY <1>5 DEF ProcRemove, BornOnce, Typed
<1> QED  BY <1>1, <1>2, <1>3, <1>4, <1>5, TimerNext
         DEF TimerNext, MsgTask, PollTask, ClientStop, ProcPush, ProcExpire, Pop, EndExpire,
             ExpireNext, ExpireReadClient, ExpireCallback, PollWake, PollDisarm, PollPost,
             PollRest, Tick, clients

-----------------------------------------------------------------------------
(* Where the delegates are *)

\* A step that leaves the queue, the heap and the timers alone, and does not end or begin
\* to expire a running delegate.
LEMMA RestPlaced ==
  ASSUME AllPlaced, UNCHANGED <<mTimer, alive, mClient, heap, timerQueue>>,
         \A d \in mClient : InHand(d)' <=> InHand(d),
         \A d \in Delegate : InHand(d)' => InHand(d)
  PROVE  AllPlaced'
<1>1. \A d \in Delegate : /\ Times(PushMsg(d))' = Times(PushMsg(d))
                          /\ Times(RemoveMsg(d))' = Times(RemoveMsg(d))
  BY TimesSame
<1> QED  BY <1>1 DEF AllPlaced, Placed, Running, Ended, Gone, PushedFirst

\* stop() posts one message for the delegate that ends, and the others stay where they are.
LEMMA StopPlaced ==
  ASSUME Typed, TimersLinked, AllPlaced, NEW t \in Timer, NEW how, Stop(t, how),
         \A d \in mClient \ {mTimer[t]} : InHand(d)' <=> InHand(d),
         \A d \in Delegate : InHand(d)' => InHand(d)
  PROVE  AllPlaced'
<1> DEFINE s == mTimer[t]
<1>1. /\ s \in mClient /\ s \in Delegate /\ Owner(s) = t /\ s # NoTimer
      /\ mTimer'[t] = NoTimer /\ \A u \in Timer \ {t} : mTimer'[u] = mTimer[u]
      /\ mClient' = mClient \ {s}
  BY StopEnds, NoTimerIsNone
<1>2. /\ UNCHANGED <<alive, heap>>
      /\ timerQueue' = Append(timerQueue, RemoveMsg(s))
      /\ RemoveMsg(s) \in TimerMsg /\ timerQueue \in Seq(TimerMsg)
  BY <1>1 DEF Stop, Typed, TimerMsg
<1> HIDE DEF s
<1> SUFFICES ASSUME NEW d \in Delegate PROVE Placed(d)'
  BY DEF AllPlaced
<1>3. Owner(d) \in Timer /\ Placed(d) /\ Running(s)
  BY <1>1 DEF Owner, Delegate, AllPlaced, Placed
<1>4. Times(PushMsg(d))' = Times(PushMsg(d)) /\ Times(PushMsg(d)) \in Nat
  BY <1>2, MessagesDiffer, TimesPosted, TimesType
<1>5. CASE d = s
  <2>1. Times(RemoveMsg(d))' = 1
    BY <1>2, <1>3, <1>5, TimesPosted DEF Running
  <2>2. PushedFirst(d)'
    BY <1>2, <1>3, <1>5, MessagesDiffer, PushedFirstPosted DEF Running
  <2>3. d \in alive' \ mClient'
    BY <1>1, <1>2, <1>5 DEF Typed
  <2>4. Times(PushMsg(d))' \in {0, 1}
    BY <1>3, <1>4, <1>5 DEF Running
  <2>5. Ended(d)'
    BY <1>1, <1>5, <2>1, <2>2, <2>4 DEF Ended
  <2> QED  BY <2>3, <2>5 DEF Placed
<1>6. CASE d # s
  <2>1. Times(RemoveMsg(d))' = Times(RemoveMsg(d))
    BY <1>2, <1>6, MessagesDiffer, TimesPosted, TimesType
  <2>2. Ended(d) => PushedFirst(d)'
    BY <1>2, <1>6, MessagesDiffer, PushedFirstPosted DEF Ended
  <2>3. d \in mClient => Running(d)'
    <3> SUFFICES ASSUME d \in mClient PROVE Running(d)'
      OBVIOUS
    <3>1. mTimer[Owner(d)] = d
      BY <1>3 DEF Placed, Running
    <3>2. mTimer'[Owner(d)] = d
      BY <1>1, <1>3, <1>6, <3>1 DEF s
    <3>3. InHand(d)' <=> InHand(d)
      BY <1>6 DEF s
    <3> QED  BY <1>2, <1>3, <1>4, <2>1, <3>2, <3>3 DEF Placed, Running
  <2>4. d \in alive \ mClient => Ended(d)'
    <3> SUFFICES ASSUME d \in alive \ mClient PROVE Ended(d)'
      OBVIOUS
    <3>1. mTimer'[Owner(d)] # d
      BY <1>1, <1>3, NoTimerIsNone DEF Placed, Ended
    <3> QED  BY <1>3, <1>4, <2>1, <2>2, <3>1 DEF Placed, Ended
  <2>5. d \notin alive => Gone(d)'
    BY <1>3, <1>4, <2>1 DEF Placed, Gone
  <2> QED  BY <1>1, <1>2, <1>6, <2>3, <2>4, <2>5 DEF Placed
<1> QED  BY <1>5, <1>6

LEMMA StartPlaced ==
  ASSUME Typed, HeapInv, BornOnce, AllPlaced, TimersLinked,
         NEW t \in Timer, NEW delay \in Delay, Start(t, delay)
  PROVE  AllPlaced'
<1> DEFINE s == <<t, starts + 1>>
<1>0. s = <<t, starts + 1>>
  OBVIOUS
<1> HIDE DEF s
<1>1. /\ s \in Delegate \ alive /\ Owner(s) = t
      /\ mTimer[t] = NoTimer
      /\ mTimer'[t] = s /\ \A u \in Timer \ {t} : mTimer'[u] = mTimer[u]
      /\ alive' = alive \cup {s} /\ mClient' = mClient \cup {s}
      /\ timerQueue' = Append(timerQueue, PushMsg(s))
      /\ UNCHANGED <<heap, top, task, ended>>
  BY <1>0, StartCreates
<1>2. PushMsg(s) \in TimerMsg /\ timerQueue \in Seq(TimerMsg)
  BY <1>1 DEF TimerMsg, Typed
<1> SUFFICES ASSUME NEW d \in Delegate PROVE Placed(d)'
  BY DEF AllPlaced
<1>3. Owner(d) \in Timer /\ Placed(d) /\ Placed(s) /\ (InHand(d)' <=> InHand(d))
  BY <1>1 DEF Owner, Delegate, AllPlaced, InHand
<1>4. /\ Times(RemoveMsg(d))' = Times(RemoveMsg(d))
      /\ d # s => Times(PushMsg(d))' = Times(PushMsg(d))
      /\ d = s => Times(PushMsg(d))' = Times(PushMsg(d)) + 1
  BY <1>1, <1>2, MessagesDiffer, TimesPosted, TimesType
<1>5. CASE d = s
  <2>1. Gone(d) /\ d \notin heap
    BY <1>1, <1>3, <1>5 DEF Placed, HeapInv
  <2>2. Running(d)'
    BY <1>1, <1>3, <1>4, <1>5, <2>1 DEF Running, Gone
  <2> QED  BY <1>1, <1>5, <2>2 DEF Placed
<1>6. CASE d # s
  <2>1. d \in mClient => Running(d)'
    <3> SUFFICES ASSUME d \in mClient PROVE Running(d)'
      OBVIOUS
    <3>1. mTimer[Owner(d)] = d /\ d # NoTimer
      BY <1>3, NoTimerIsNone DEF Placed, Running
    <3>2. mTimer'[Owner(d)] = d
      BY <1>1, <1>3, <3>1
    <3> QED  BY <1>1, <1>3, <1>4, <1>6, <3>2 DEF Placed, Running
  <2>2. d \in alive \ mClient => Ended(d)'
    <3> SUFFICES ASSUME d \in alive \ mClient PROVE Ended(d)'
      OBVIOUS
    <3>1. PushedFirst(d)'
      BY <1>1, <1>2, <1>3, <1>6, MessagesDiffer, PushedFirstPosted DEF Placed, Ended
    <3>2. mTimer'[Owner(d)] # d
      BY <1>1, <1>3, <1>6 DEF Placed, Ended
    <3> QED  BY <1>3, <1>4, <1>6, <3>1, <3>2 DEF Placed, Ended
  <2>3. d \notin alive => Gone(d)'
    BY <1>3, <1>4, <1>6 DEF Placed, Gone
  <2> QED  BY <1>1, <1>6, <2>1, <2>2, <2>3 DEF Placed
<1> QED  BY <1>5, <1>6

LEMMA ProcPushPlaced ==
  ASSUME Typed, HeapInv, AllPlaced, ProcPush
  PROVE  AllPlaced'
<1> DEFINE s == Head(timerQueue).timer
<1>1. s \in alive /\ Head(timerQueue) = PushMsg(s) /\ s \in Delegate
  BY HeadIsPush DEF ProcPush, Typed
<1>2. /\ timerQueue # <<>> /\ timerQueue' = Tail(timerQueue) /\ timerQueue \in Seq(TimerMsg)
      /\ heap' = heap \cup {s}
      /\ task = Idle
      /\ UNCHANGED <<mTimer, alive, mClient, task>>
  BY DEF ProcPush, NextMsg, HeapPush, Typed, clients
<1> HIDE DEF s
<1> SUFFICES ASSUME NEW d \in Delegate PROVE Placed(d)'
  BY DEF AllPlaced
<1>3. Placed(d) /\ ~ InHand(d) /\ ~ InHand(d)'
  BY <1>2 DEF AllPlaced, InHand, Idle
<1>4. /\ Times(RemoveMsg(d))' = Times(RemoveMsg(d)) /\ Times(RemoveMsg(d)) \in Nat
      /\ Times(PushMsg(d))' \in Nat
      /\ d # s => Times(PushMsg(d))' = Times(PushMsg(d))
      /\ d = s => Times(PushMsg(d)) = Times(PushMsg(d))' + 1
  BY <1>1, <1>2, MessagesDiffer, TimesTaken, TimesType
<1>5. PushedFirst(d) => PushedFirst(d)'
  BY <1>2, PushedFirstTaken
<1>6. d \in mClient => Running(d)'
  BY <1>2, <1>3, <1>4 DEF Placed, Running
<1>7. d \in alive \ mClient => Ended(d)'
  BY <1>2, <1>3, <1>4, <1>5 DEF Placed, Ended
<1>8. d \notin alive => Gone(d)'
  BY <1>1, <1>3, <1>4 DEF Placed, Gone
<1> QED  BY <1>2, <1>6, <1>7, <1>8 DEF Placed

LEMMA ProcRemovePlaced ==
  ASSUME Typed, HeapInv, AllPlaced, ProcRemove
  PROVE  AllPlaced'
<1> DEFINE s == Head(timerQueue).timer
<1>1. s \in alive \ mClient /\ Head(timerQueue) = RemoveMsg(s) /\ Ended(s) /\ s \in Delegate
  BY HeadIsRemove DEF ProcRemove, Typed
<1>2. /\ timerQueue # <<>> /\ timerQueue' = Tail(timerQueue) /\ timerQueue \in Seq(TimerMsg)
      /\ heap' = heap \ {s}
      /\ task = Idle
      /\ alive' = alive \ {s}
      /\ UNCHANGED <<mTimer, mClient, task>>
  BY DEF ProcRemove, NextMsg, HeapRemove, Typed
<1> HIDE DEF s
<1> SUFFICES ASSUME NEW d \in Delegate PROVE Placed(d)'
  BY DEF AllPlaced
<1>3. Placed(d) /\ ~ InHand(d) /\ ~ InHand(d)'
  BY <1>2 DEF AllPlaced, InHand, Idle
<1>4. /\ Times(PushMsg(d))' = Times(PushMsg(d)) /\ Times(PushMsg(d)) \in Nat
      /\ Times(RemoveMsg(d))' \in Nat
      /\ d # s => Times(RemoveMsg(d))' = Times(RemoveMsg(d))
      /\ d = s => Times(RemoveMsg(d)) = Times(RemoveMsg(d))' + 1
  BY <1>1, <1>2, MessagesDiffer, TimesTaken, TimesType
<1>5. CASE d = s
  <2>1. Times(PushMsg(d)) = 0
    BY <1>1, <1>2, <1>5, RemovedIsNotPushed DEF Ended
  <2>2. Gone(d)'
    BY <1>1, <1>3, <1>4, <1>5, <2>1 DEF Ended, Gone
  <2> QED  BY <1>1, <1>2, <1>5, <2>2 DEF Placed
<1>6. CASE d # s
  <2>1. PushedFirst(d) => PushedFirst(d)'
    BY <1>2, PushedFirstTaken
  <2>2. d \in mClient => Running(d)'
    BY <1>2, <1>3, <1>4, <1>6 DEF Placed, Running
  <2>3. d \in alive \ mClient => Ended(d)'
    BY <1>2, <1>3, <1>4, <1>6, <2>1 DEF Placed, Ended
  <2>4. d \notin alive => Gone(d)'
    BY <1>3, <1>4, <1>6 DEF Placed, Gone
  <2> QED  BY <1>2, <1>6, <2>2, <2>3, <2>4 DEF Placed
<1> QED  BY <1>5, <1>6

\* The first delegate of the heap is popped: it is in the thread's hands now.
LEMMA PopPlaced ==
  ASSUME Typed, HeapInv, AllPlaced, heap # {}, NEW since, Pop(since),
         \A d \in Delegate : ~ InHand(d),
         UNCHANGED <<mTimer, alive, mClient>>,
         \A d \in Delegate : /\ Times(PushMsg(d))' = Times(PushMsg(d))
                             /\ Times(RemoveMsg(d))' = Times(RemoveMsg(d))
                             /\ PushedFirst(d) => PushedFirst(d)'
  PROVE  AllPlaced'
<1>1. top \in heap /\ top \in alive /\ top \in Delegate
  BY DEF Typed, HeapInv
<1>2. heap' = heap \ {top} /\ task' = At("popped", top, since)
  BY DEF Pop, HeapRemove
<1> SUFFICES ASSUME NEW d \in Delegate PROVE Placed(d)'
  BY DEF AllPlaced
<1>3. InHand(d)' <=> d = top
  BY <1>2 DEF InHand, At
<1>4. Placed(d) /\ ~ InHand(d)
  BY DEF AllPlaced
<1>5. d \in mClient => Running(d)'
  BY <1>1, <1>2, <1>3, <1>4 DEF Placed, Running
<1>6. d \in alive \ mClient => Ended(d)'
  BY <1>4 DEF Placed, Ended
<1>7. d \notin alive => Gone(d)'
  BY <1>1, <1>3, <1>4 DEF Placed, Gone
<1> QED  BY <1>5, <1>6, <1>7 DEF Placed

LEMMA StepPlaced ==
  ASSUME TimerIInv, TimerNext
  PROVE  AllPlaced'
<1>0. Typed /\ HeapInv /\ TimersLinked /\ BornOnce /\ AllPlaced
  BY DEF TimerIInv
<1> USE <1>0
<1>1. ASSUME NEW t \in Timer, ClientStop(t)  PROVE AllPlaced'
  BY <1>1, StopPlaced DEF ClientStop, InHand
<1>2. ASSUME NEW t \in Timer, NEW delay \in Delay, Start(t, delay)  PROVE AllPlaced'
  BY <1>2, StartPlaced
<1>3. CASE ProcPush
  BY <1>3, ProcPushPlaced
<1>4. CASE ProcRemove
  BY <1>4, ProcRemovePlaced
<1>5. CASE ProcExpire
  <2>1. \A d \in Delegate : ~ InHand(d)
    BY <1>5 DEF ProcExpire, NextMsg, Idle, InHand
  <2>2. timerQueue # <<>> /\ timerQueue' = Tail(timerQueue) /\ timerQueue \in Seq(TimerMsg)
    BY <1>5 DEF ProcExpire, NextMsg, Typed
  <2>3. Head(timerQueue) \in TimerMsg /\ Head(timerQueue) = ExpireMsg
    BY <1>5, <2>2, MessageOfKind DEF ProcExpire, NextMsg
  <2>4. ASSUME NEW d \in Delegate
        PROVE  /\ Times(PushMsg(d))' = Times(PushMsg(d))
               /\ Times(RemoveMsg(d))' = Times(RemoveMsg(d))
               /\ PushedFirst(d) => PushedFirst(d)'
    BY <2>2, <2>3, MessagesDiffer, TimesTaken, PushedFirstTaken
  <2>5. UNCHANGED <<mTimer, alive, mClient>>
    BY <1>5 DEF ProcExpire, clients
  <2>6. CASE heap # {}
    BY <1>5, <2>1, <2>4, <2>5, <2>6, PopPlaced DEF ProcExpire
  <2>7. CASE heap = {}
    <3>1. heap' = heap /\ \A d \in Delegate : ~ InHand(d)'
      BY <1>5, <2>7 DEF ProcExpire, EndExpire, Idle, InHand
    <3> QED  BY <2>1, <2>4, <2>5, <3>1 DEF AllPlaced, Placed, Running, Ended, Gone
  <2> QED  BY <2>6, <2>7
<1>6. CASE ExpireNext
  <2>1. \A d \in Delegate : ~ InHand(d)
    BY <1>6 DEF ExpireNext, InHand
  <2>2. UNCHANGED <<mTimer, alive, mClient, timerQueue>>
    BY <1>6 DEF ExpireNext, clients
  <2>3. CASE EndExpire
    BY <2>1, <2>2, <2>3, RestPlaced DEF EndExpire, Idle, InHand, Typed
  <2>4. CASE heap # {} /\ Pop(task.since)
    <3>1. ASSUME NEW d \in Delegate
          PROVE  /\ Times(PushMsg(d))' = Times(PushMsg(d))
                 /\ Times(RemoveMsg(d))' = Times(RemoveMsg(d))
                 /\ PushedFirst(d) => PushedFirst(d)'
      BY <2>2, TimesSame DEF PushedFirst
    <3> QED  BY <2>1, <2>2, <2>4, <3>1, PopPlaced
  <2> QED  BY <1>6, <2>3, <2>4 DEF ExpireNext
<1>7. CASE ExpireReadClient
  BY <1>7, RestPlaced DEF ExpireReadClient, Go, InHand, clients, Typed, TaskState
<1>8. CASE ExpireStop
  <2> DEFINE client == Owner(task.timer)
  <2>1. client \in Timer /\ task.timer \in Delegate /\ Placed(task.timer)
    BY <1>8 DEF ExpireStop, Typed, Delegate, Owner, AllPlaced
  <2>2. \A d \in Delegate : ~ InHand(d)'
    BY <1>8 DEF ExpireStop, Go, InHand, Typed, TaskState
  <2>3. \A d \in mClient : InHand(d) => d = mTimer[client]
    BY <2>1 DEF InHand, Placed, Running
  <2>4. mClient \subseteq Delegate
    BY DEF Typed
  <2>5. ASSUME NEW how, Stop(client, how)  PROVE AllPlaced'
    BY <2>1, <2>2, <2>3, <2>4, <2>5, StopPlaced
  <2>6. CASE mTimer[client] = NoTimer /\ UNCHANGED <<mTimer, alive, mClient, heap, timerQueue>>
    BY <2>2, <2>3, <2>4, <2>6, NoTimerIsNone, RestPlaced
  <2> QED  BY <1>8, <2>5, <2>6 DEF ExpireStop, clients
<1>9. CASE ExpireCallback
  BY <1>9, RestPlaced DEF ExpireCallback, Go, InHand, clients, Typed, TaskState
<1>10. CASE PollWake \/ PollDisarm
  BY <1>10, RestPlaced DEF PollWake, PollDisarm, PollRest, InHand, clients
<1>11. CASE PollPost
  <2>1. timerQueue' = Append(timerQueue, ExpireMsg) /\ ExpireMsg \in TimerMsg
         /\ timerQueue \in Seq(TimerMsg)
    BY <1>11 DEF PollPost, TimerMsg, Typed
  <2>2. UNCHANGED <<mTimer, alive, mClient, heap, task>>
    BY <1>11 DEF PollPost, PollRest, clients
  <2>3. ASSUME NEW d \in Delegate
        PROVE  /\ Times(PushMsg(d))' = Times(PushMsg(d))
               /\ Times(RemoveMsg(d))' = Times(RemoveMsg(d))
               /\ PushedFirst(d) => PushedFirst(d)'
    BY <2>1, MessagesDiffer, TimesPosted, TimesType, PushedFirstPosted
  <2> QED  BY <2>2, <2>3 DEF AllPlaced, Placed, Running, Ended, Gone, InHand
<1>12. CASE Tick
  BY <1>12, RestPlaced DEF Tick, InHand
<1> QED  BY <1>1, <1>2, <1>3, <1>4, <1>5, <1>6, <1>7, <1>8, <1>9, <1>10, <1>11, <1>12,
         TimerNext DEF TimerNext, MsgTask, PollTask

LEMMA TimerInitInv == TimerInit => TimerIInv
<1> SUFFICES ASSUME TimerInit PROVE TimerIInv
  OBVIOUS
<1>1. Typed
  <2>1. /\ mTimer \in [Timer -> Delegate \cup {NoTimer}]
        /\ mFutureTime \in [Delegate -> Nat]
        /\ ended \in [Delegate -> Outcome]
    BY DEF TimerInit, Outcome
  <2>2. task \in TaskState /\ task = Idle /\ task.at = "idle"
    BY DEF TimerInit, TaskState, Idle
  <2>3. starts \in 0..MaxStarts /\ now \in Nat /\ armed \in Nat
    BY LocTimerAssumption DEF TimerInit
  <2>4. timerQueue \in Seq(TimerMsg)
    BY DEF TimerInit
  <2> QED  BY <2>1, <2>2, <2>3, <2>4 DEF TimerInit, Typed
<1>2. HeapInv /\ BornOnce
  BY DEF TimerInit, HeapInv, BornOnce
<1>3. TimersLinked
  BY DEF TimerInit, TimersLinked
<1>4. AllPlaced
  <2>1. \A m : Times(m) = 0
    BY <1>1, TimesType DEF TimerInit, Typed
  <2>2. \A d \in Delegate : ~ InHand(d)
    BY DEF TimerInit, InHand, Idle
  <2> QED  BY <2>1, <2>2 DEF TimerInit, AllPlaced, Placed, Gone
<1> QED  BY <1>1, <1>2, <1>3, <1>4 DEF TimerIInv

LEMMA TimerStepInv == TimerIInv /\ [TimerNext]_timerVars => TimerIInv'
<1> SUFFICES ASSUME TimerIInv, [TimerNext]_timerVars PROVE TimerIInv'
  OBVIOUS
<1>1. CASE TimerNext
  BY <1>1, StepTyped, StepHeap, StepLinked, StepBorn, StepPlaced DEF TimerIInv
<1>2. CASE UNCHANGED timerVars
  <2>1. AllPlaced'
    BY <1>2, RestPlaced DEF timerVars, TimerIInv, InHand
  <2> QED  BY <1>2, <2>1 DEF timerVars, TimerIInv, Typed, HeapInv, TimersLinked, BornOnce
<1> QED  BY <1>1, <1>2

LEMMA TimerInvHolds == TimerSpec => []TimerIInv
  BY TimerInitInv, TimerStepInv, PTL DEF TimerSpec

\* However clients start and stop their timers while these expire, and in whatever order the
\* messages reach the MsgTask: a running delegate is on its way into the heap, in it or being
\* expired, an ended one will be deleted once, and nothing points to a deleted one.
THEOREM NoDelegateIsLost == TimerSpec => []DelegateAccounted
<1>1. TimerIInv => DelegateAccounted
  <2> SUFFICES ASSUME TimerIInv PROVE DelegateAccounted
    OBVIOUS
  <2>1. heap \subseteq alive /\ alive \subseteq Delegate /\ \A d \in Delegate : Placed(d)
    BY DEF TimerIInv, HeapInv, Typed, AllPlaced
  <2> QED  BY <2>1 DEF DelegateAccounted, Placed, Running, Ended, Gone
<1> QED  BY <1>1, TimerInvHolds, PTL

\* stop() ends a delegate for the client or for expire(), and for nobody after that.
THEOREM TimersEndOnce == TimerSpec => EndsOnce
<1> DEFINE Once == \A d \in Delegate : ended[d] # "not" => ended'[d] = ended[d]
<1>1. ASSUME TimerIInv, TimerNext PROVE Once
  <2>0. Typed /\ TimersLinked /\ BornOnce
    BY <1>1 DEF TimerIInv
  <2>1. ASSUME NEW t \in Timer, NEW how, Stop(t, how)  PROVE Once
    BY <2>0, <2>1, StopEnds DEF BornOnce
  <2>2. CASE UNCHANGED ended
    BY <2>2
  <2>3. CASE ExpireStop
    <3>1. Owner(task.timer) \in Timer
      BY <2>0, <2>3 DEF ExpireStop, Typed, Delegate, Owner
    <3> QED  BY <2>1, <2>2, <2>3, <3>1 DEF ExpireStop
  <2> HIDE DEF Once
  <2> QED  BY <1>1, <2>1, <2>2, <2>3
           DEF TimerNext, MsgTask, PollTask, ClientStop, Start, ProcPush, ProcRemove,
               ProcExpire, ExpireNext, ExpireReadClient, ExpireCallback, PollWake, PollDisarm,
               PollPost, PollRest, Tick
<1>2. TimerIInv /\ [TimerNext]_timerVars => [Once]_timerVars
  BY <1>1
<1> QED  BY <1>2, TimerInvHolds, PTL DEF TimerSpec, EndsOnce

-----------------------------------------------------------------------------
(* Somebody looks after the heap *)

\* The timerfd will fire in time for the first delegate.
Watched == polled /\ armed # 0 /\ armed <= mFutureTime[top]

LEMMA TimerfdWatches ==
  ASSUME Typed, NEW prior, UpdateSoonestTime(prior), top' \in Delegate, mFutureTime[top'] > 0,
         prior = NoTimer \/ (prior # top' => mFutureTime[top'] < mFutureTime[prior])
  PROVE  \/ UNCHANGED timerfd /\ top' = prior
         \/ polled' /\ armed' # 0 /\ armed' = mFutureTime[top']
<1>1. top' # NoTimer
  BY NoTimerIsNone
<1> QED  BY <1>1 DEF UpdateSoonestTime, Typed

LEMMA StepWatched ==
  ASSUME TimerIInv, WakeupPending, TimerNext
  PROVE  WakeupPending'
<1>0. /\ Typed /\ HeapInv /\ BornOnce /\ AllPlaced
      /\ Typed' /\ HeapInv' /\ BornOnce'
  BY TimerStepInv DEF TimerIInv
<1> USE <1>0
<1> SUFFICES ASSUME heap' # {}
             PROVE  Watched' \/ poll' # "wait" \/ Times(ExpireMsg)' > 0 \/ task' # Idle
  BY DEF WakeupPending, Watched
<1>1. top' \in heap' /\ top' \in Delegate /\ mFutureTime'[top'] > 0
  BY DEF HeapInv, Typed, BornOnce
<1>2. ASSUME UNCHANGED <<heap, top, timerfd, poll, task>>,
             mFutureTime'[top] = mFutureTime[top],
             Times(ExpireMsg) > 0 => Times(ExpireMsg)' > 0
      PROVE  Watched' \/ poll' # "wait" \/ Times(ExpireMsg)' > 0 \/ task' # Idle
  BY <1>2 DEF WakeupPending, Watched, timerfd
<1>3. ASSUME NEW t \in Timer, ClientStop(t)
      PROVE  Watched' \/ poll' # "wait" \/ Times(ExpireMsg)' > 0 \/ task' # Idle
  <2>1. RemoveMsg(mTimer[t]) \in TimerMsg
    BY <1>3 DEF ClientStop, Stop, Typed, TimerMsg
  <2>2. Times(ExpireMsg)' = Times(ExpireMsg)
    BY <1>3, <2>1, ExpireDiffers, TimesPosted, TimesType DEF ClientStop, Stop, Typed
  <2> QED  BY <1>2, <1>3, <2>2 DEF ClientStop, Stop
<1>4. ASSUME NEW t \in Timer, NEW delay \in Delay, Start(t, delay)
      PROVE  Watched' \/ poll' # "wait" \/ Times(ExpireMsg)' > 0 \/ task' # Idle
  <2> DEFINE s == <<t, starts + 1>>
  <2>0. s = <<t, starts + 1>>
    OBVIOUS
  <2> HIDE DEF s
  <2>1. /\ s \in Delegate \ alive /\ timerQueue' = Append(timerQueue, PushMsg(s))
        /\ \A e \in Delegate \ {s} : mFutureTime'[e] = mFutureTime[e]
        /\ UNCHANGED <<heap, top, task>>
    BY <1>4, <2>0, StartCreates
  <2>2. PushMsg(s) \in TimerMsg
    BY <2>1 DEF TimerMsg
  <2>3. Times(ExpireMsg)' = Times(ExpireMsg)
    BY <2>1, <2>2, ExpireDiffers, TimesPosted, TimesType DEF Typed
  <2>4. top # s /\ top \in Delegate
    BY <1>1, <2>1 DEF HeapInv
  <2> QED  BY <1>2, <1>4, <2>1, <2>3, <2>4 DEF Start
<1>5. CASE ProcPush
  <2> DEFINE s == Head(timerQueue).timer
  <2>1. /\ s \in Delegate /\ HeapPush(s) /\ UpdateSoonestTime(top)
        /\ Head(timerQueue) = PushMsg(s)
        /\ timerQueue # <<>> /\ timerQueue' = Tail(timerQueue)
        /\ UNCHANGED <<mFutureTime, poll, task>>
    BY <1>5, HeadIsPush DEF ProcPush, NextMsg, Typed, clients
  <2> HIDE DEF s
  <2>2. top' # top => top = NoTimer \/ mFutureTime[top'] < mFutureTime[top]
    BY <2>1, PushKeepsFirst
  <2>3. \/ UNCHANGED timerfd /\ top' = top
        \/ polled' /\ armed' # 0 /\ armed' = mFutureTime[top']
    BY <1>1, <2>1, <2>2, TimerfdWatches
  <2>4. Times(ExpireMsg)' = Times(ExpireMsg)
    BY <2>1, ExpireDiffers, TimesTaken, TimesType DEF Typed
  <2>5. CASE UNCHANGED timerfd /\ top' = top
    <3>1. heap # {}
      BY <1>1, <2>5, NoTimerIsNone DEF HeapInv
    <3> QED  BY <2>1, <2>4, <2>5, <3>1 DEF WakeupPending, Watched, timerfd
  <2>6. CASE polled' /\ armed' # 0 /\ armed' = mFutureTime[top']
    BY <1>1, <2>1, <2>6 DEF Watched, Typed
  <2> QED  BY <2>3, <2>5, <2>6
<1>6. CASE ProcRemove
  <2> DEFINE s == Head(timerQueue).timer
             removed == IF s \in heap THEN s ELSE NoTimer
  <2>1. /\ s \in Delegate /\ Head(timerQueue) = RemoveMsg(s)
        /\ IF s \in heap THEN HeapRemove(s) ELSE UNCHANGED <<heap, top>>
        /\ IF top = removed THEN UpdateSoonestTime(NoTimer) ELSE UNCHANGED timerfd
        /\ timerQueue # <<>> /\ timerQueue' = Tail(timerQueue)
        /\ mFutureTime' = [mFutureTime EXCEPT ![s] = 0]
        /\ UNCHANGED <<poll, task>>
    BY <1>6, HeadIsRemove DEF ProcRemove, NextMsg, Typed
  <2> HIDE DEF s
  <2>2. Times(ExpireMsg)' = Times(ExpireMsg)
    BY <2>1, ExpireDiffers, TimesTaken, TimesType DEF Typed
  <2>3. heap' = heap \ {s} /\ (s # top => top' = top)
    BY <2>1, RemoveKeepsFirst
  <2>4. mFutureTime'[top'] = mFutureTime[top']
    BY <1>1, <2>1, <2>3 DEF Typed
  <2>5. CASE top # s
    <3>1. heap # {} /\ top \in Delegate
      BY <1>1, <2>3, <2>5
    <3>2. top # removed
      BY <2>5, <3>1, NoTimerIsNone
    <3>3. UNCHANGED timerfd /\ top' = top
      BY <2>1, <2>3, <2>5, <3>2
    <3> QED  BY <2>1, <2>2, <2>4, <3>1, <3>3 DEF WakeupPending, Watched, timerfd
  <2>6. CASE top = s
    <3>1. s \in heap /\ top = removed
      BY <1>1, <2>1, <2>3, <2>6, NoTimerIsNone DEF HeapInv
    <3>2. UpdateSoonestTime(NoTimer)
      BY <2>1, <3>1
    <3>3. \/ UNCHANGED timerfd /\ top' = NoTimer
          \/ polled' /\ armed' # 0 /\ armed' = mFutureTime[top']
      BY <1>1, <2>4, <3>2, TimerfdWatches
    <3> QED  BY <1>1, <2>4, <3>3, NoTimerIsNone DEF Watched, Typed
  <2> QED  BY <2>5, <2>6
<1>7. ASSUME NEW since, Pop(since)  PROVE task' # Idle
  BY <1>7 DEF Pop, At, Idle
<1>8. ASSUME EndExpire, UNCHANGED mFutureTime  PROVE Watched'
  <2>1. \/ UNCHANGED timerfd /\ top' = NoTimer
        \/ polled' /\ armed' # 0 /\ armed' = mFutureTime[top']
    BY <1>1, <1>8, TimerfdWatches DEF EndExpire
  <2> QED  BY <1>1, <1>8, <2>1, NoTimerIsNone DEF Watched, Typed
<1>9. CASE ProcExpire
  BY <1>7, <1>8, <1>9 DEF ProcExpire, clients
<1>10. CASE ExpireNext
  BY <1>7, <1>8, <1>10 DEF ExpireNext, clients
<1>11. CASE ExpireReadClient
  BY <1>11 DEF ExpireReadClient, Go, Idle, Typed, TaskState
<1>12. CASE ExpireStop
  BY <1>12 DEF ExpireStop, Go, Idle, Typed, TaskState
<1>13. CASE ExpireCallback
  BY <1>13 DEF ExpireCallback, Go, Idle, Typed, TaskState
<1>14. CASE PollWake \/ PollDisarm
  BY <1>14 DEF PollWake, PollDisarm
<1>15. CASE PollPost
  <2>1. Times(ExpireMsg)' = Times(ExpireMsg) + 1 /\ Times(ExpireMsg) \in Nat
    BY <1>15, TimesPosted, TimesType DEF PollPost, Typed, TimerMsg
  <2> QED  BY <2>1
<1>16. CASE Tick
  <2>1. Times(ExpireMsg)' = Times(ExpireMsg)
    BY <1>16, TimesSame DEF Tick
  <2> QED  BY <1>2, <1>16, <2>1 DEF Tick
<1> QED  BY <1>3, <1>4, <1>5, <1>6, <1>9, <1>10, <1>11, <1>12, <1>13, <1>14, <1>15, <1>16,
         TimerNext DEF TimerNext, MsgTask, PollTask

\* As long as a delegate is in the heap the timerfd is armed for it in time, or has fired and
\* the poll thread or the MsgTask is on its way to the heap: no timer is slept through.
THEOREM NoTimerIsSleptThrough == TimerSpec => []WakeupPending
<1>1. TimerInit => WakeupPending
  BY DEF TimerInit, WakeupPending
<1>2. TimerIInv /\ WakeupPending /\ [TimerNext]_timerVars => WakeupPending'
  <2>1. CASE UNCHANGED timerVars
    <3>1. UNCHANGED timerVars => Times(ExpireMsg)' = Times(ExpireMsg)
      BY TimesSame DEF timerVars
    <3> QED  BY <2>1, <3>1 DEF timerVars, WakeupPending
  <2> QED  BY <2>1, StepWatched
<1> QED  BY <1>1, <1>2, TimerInvHolds, PTL DEF TimerSpec
=============================================================================
