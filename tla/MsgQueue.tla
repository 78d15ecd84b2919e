------------------------------- MODULE MsgQueue -------------------------------
(***************************************************************************)
(* The queue of messages of a MsgTask (gps/utils/msg_q.c) and the thread   *)
(* that works it off (MsgTask.cpp, LocThread.cpp).  A thread is stopped by *)
(* unblocking its queue; it then ends by itself, detached, and the last    *)
(* reference to its runnable flushes and frees the queue.  The sections    *)
(* under list_mutex are single steps.                                      *)
(***************************************************************************)
EXTENDS Naturals, Sequences, FiniteSets

CONSTANTS Sender,          \* threads other than the MsgTask's that send
          MaxSent          \* bound: messages

Message == 1..MaxSent

VARIABLES
    msgList,               \* msg_list
    unblocked,
    freed,                 \* msg_q_destroy has run
    waiting,               \* the thread is in pthread_cond_wait
    signalled,             \* ... and has been woken
    taskPc,                \* where the thread is
    taskMsg,               \* the message it has received, 0 for none
    runnableRefs,          \* who holds a shared_ptr of the runnable
    stopPc,                \* where the destructor of the LocThreadDelegate is
    sentBy,                \* who sent each message
    handled,               \* the messages whose proc() has run, in order
    deleted,               \* the messages that were deleted
    lost,                  \* the messages that an unblocked queue did not take
    usedFreed              \* the queue was used after it was freed

queueVars == <<msgList, unblocked, freed, waiting, signalled, taskPc, taskMsg, runnableRefs,
               stopPc, sentBy, handled, deleted, lost, usedFreed>>

QueueInit ==
    /\ msgList = <<>> /\ unblocked = FALSE /\ freed = FALSE
    /\ waiting = FALSE /\ signalled = FALSE
    /\ taskPc = "run" /\ taskMsg = 0
    /\ runnableRefs = {"thread"}
    /\ stopPc = "none"
    /\ sentBy = <<>> /\ handled = <<>> /\ deleted = {} /\ lost = {}
    /\ usedFreed = FALSE

Sent == 1..Len(sentBy)
Touch == usedFreed' = (usedFreed \/ freed)

\* msg_q_snd: refused once the queue is unblocked; MsgTask::sendMsg does not look at the
\* result.  The owner of the MsgTask sends nothing once it deletes it, but a message that
\* is being handled may.
MsgQSnd(s) ==
    /\ Len(sentBy) < MaxSent
    /\ IF s = "thread" THEN taskPc = "proc" ELSE stopPc = "none"
    /\ sentBy' = Append(sentBy, s)
    /\ IF unblocked THEN lost' = lost \cup {Len(sentBy')} /\ UNCHANGED <<msgList, signalled>>
       ELSE /\ msgList' = Append(msgList, Len(sentBy'))
            /\ signalled' = (signalled \/ waiting)
            /\ UNCHANGED lost
    /\ Touch
    /\ UNCHANGED <<unblocked, freed, waiting, taskPc, taskMsg, runnableRefs, stopPc, handled, deleted>>

\* linked_list_remove at the end of msg_q_rcv, and what run() makes of its result.
Receive ==
    IF msgList = <<>> THEN taskPc' = "ending" /\ UNCHANGED <<msgList, taskMsg>>
    ELSE taskPc' = "proc" /\ taskMsg' = Head(msgList) /\ msgList' = Tail(msgList)

\* msg_q_rcv up to the wait; the thread waits while the list is empty.
MsgQRcv ==
    /\ taskPc = "run" /\ ~waiting
    /\ IF unblocked THEN taskPc' = "ending" /\ UNCHANGED <<waiting, signalled, msgList, taskMsg>>
       ELSE IF msgList = <<>>
       THEN waiting' = TRUE /\ signalled' = FALSE /\ UNCHANGED <<taskPc, msgList, taskMsg>>
       ELSE Receive /\ UNCHANGED <<waiting, signalled>>
    /\ Touch
    /\ UNCHANGED <<unblocked, freed, runnableRefs, stopPc, sentBy, handled, deleted, lost>>

\* The wait ends and the loop tests again.  A wake-up without a signal finds nothing new.
WakeUp ==
    /\ waiting /\ signalled
    /\ signalled' = FALSE
    /\ IF msgList = <<>> /\ ~unblocked THEN UNCHANGED <<waiting, taskPc, msgList, taskMsg>>
       ELSE waiting' = FALSE /\ Receive
    /\ Touch
    /\ UNCHANGED <<unblocked, freed, runnableRefs, stopPc, sentBy, handled, deleted, lost>>

\* proc() has returned and the message is deleted.
ProcDone ==
    /\ taskPc = "proc"
    /\ taskPc' = "run" /\ taskMsg' = 0
    /\ handled' = Append(handled, taskMsg)
    /\ deleted' = deleted \cup {taskMsg}
    /\ UNCHANGED <<msgList, unblocked, freed, waiting, signalled, runnableRefs, stopPc, sentBy, lost, usedFreed>>

\* Mutant: whoever lets go frees the queue, as with a plain pointer.
MutReleaseFrees(holder) ==
    /\ runnableRefs' = runnableRefs \ {holder}
    /\ deleted' = deleted \cup {msgList[i] : i \in 1..Len(msgList)}
    /\ msgList' = <<>> /\ freed' = TRUE

\* ~MTRunnable, run by who lets go of the last reference: msg_q_flush and msg_q_destroy.
Release(holder) ==
    /\ runnableRefs' = runnableRefs \ {holder}
    /\ IF runnableRefs' = {}
       THEN /\ deleted' = deleted \cup {msgList[i] : i \in 1..Len(msgList)}
            /\ msgList' = <<>> /\ freed' = TRUE
       ELSE UNCHANGED <<deleted, msgList, freed>>

\* The thread's function returns, and its copy of the shared_ptr goes.
ThreadEnds ==
    /\ taskPc = "ending"
    /\ taskPc' = "ended"
    /\ Release("thread")
    /\ UNCHANGED <<unblocked, waiting, signalled, taskMsg, stopPc, sentBy, handled, lost, usedFreed>>

\* ~LocThreadDelegate, when the MsgTask is deleted: lock the weak_ptr ...
StopLock ==
    /\ stopPc = "none"
    /\ IF runnableRefs = {} THEN stopPc' = "stopped" /\ UNCHANGED runnableRefs
       ELSE stopPc' = "interrupt" /\ runnableRefs' = runnableRefs \cup {"stopper"}
    /\ UNCHANGED <<msgList, unblocked, freed, waiting, signalled, taskPc, taskMsg, sentBy, handled,
                   deleted, lost, usedFreed>>

\* Mutant: the thread that waits is not woken.
MutMsgQUnblockSilent ==
    /\ stopPc = "interrupt"
    /\ stopPc' = "release"
    /\ unblocked' = TRUE
    /\ Touch
    /\ UNCHANGED <<msgList, freed, waiting, signalled, taskPc, taskMsg, runnableRefs, sentBy, handled,
                   deleted, lost>>

\* ... interrupt(), which is msg_q_unblock ...
MsgQUnblock ==
    /\ stopPc = "interrupt"
    /\ stopPc' = "release"
    /\ unblocked' = TRUE
    /\ signalled' = (signalled \/ waiting)
    /\ Touch
    /\ UNCHANGED <<msgList, freed, waiting, taskPc, taskMsg, runnableRefs, sentBy, handled, deleted, lost>>

\* ... and let go of the runnable.
StopRelease ==
    /\ stopPc = "release"
    /\ stopPc' = "stopped"
    /\ Release("stopper")
    /\ UNCHANGED <<unblocked, waiting, signalled, taskPc, taskMsg, sentBy, handled, lost, usedFreed>>

TaskStep == MsgQRcv \/ WakeUp \/ ProcDone \/ ThreadEnds

QueueNext == \/ \E s \in Sender \cup {"thread"} : MsgQSnd(s)
             \/ TaskStep
             \/ StopLock \/ MsgQUnblock \/ StopRelease

QueueFairness == WF_queueVars(TaskStep) /\ WF_queueVars(MsgQUnblock \/ StopRelease)

QueueSpec == QueueInit /\ [][QueueNext]_queueVars /\ QueueFairness

QueueTypeOK ==
    /\ \A i \in 1..Len(msgList) : msgList[i] \in Sent
    /\ taskPc \in {"run", "proc", "ending", "ended"} /\ taskMsg \in {0} \cup Sent
    /\ stopPc \in {"none", "interrupt", "release", "stopped"}
    /\ runnableRefs \subseteq {"thread", "stopper"}
    /\ deleted \subseteq Sent /\ lost \subseteq Sent

\* The queue is freed by whoever is last, the thread or the one that stops it, and
\* neither uses it after that.
NoUseAfterFree == ~usedFreed

\* Messages are handled in the order they were sent, none is handled and still queued,
\* and each one is deleted once, by the thread or by the flush: the only ones that leak
\* are those an unblocked queue has refused.
MessagesAccounted ==
    /\ \A i, j \in 1..Len(handled) : i < j => handled[i] < handled[j]
    /\ freed => deleted = Sent \ lost
    /\ lost # {} => unblocked /\ \A m \in lost : sentBy[m] = "thread"

\* The queue is not used once it is gone, and no message is.
QueueSafe == NoUseAfterFree /\ MessagesAccounted

\* A MsgTask that is deleted gets rid of its thread and its queue, also when the thread
\* waits or a message is being handled: no wake-up is lost.
StoppedTaskEnds == stopPc # "none" ~> freed

\* Every message of a task that is not deleted is handled.
SentIsHandled ==
    \A m \in Message : m \in Sent ~> (stopPc # "none" \/ \E i \in 1..Len(handled) : handled[i] = m)

\* The two together.
QueueProgress == StoppedTaskEnds /\ SentIsHandled
=============================================================================
