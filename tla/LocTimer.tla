------------------------------ MODULE LocTimer ------------------------------
(***************************************************************************)
(* The timer service (gps/utils/LocTimer.cpp).  Clients start and stop     *)
(* LocTimer objects from any thread; every start creates a delegate, which *)
(* lives in a heap ordered by time.  Only the MsgTask thread touches the   *)
(* heap and deletes delegates; the poll thread waits on one timerfd that   *)
(* is armed for the soonest delegate, and tells the MsgTask when it fires. *)
(*                                                                         *)
(* One container is modelled; the alarms' container is another copy of it. *)
(***************************************************************************)
EXTENDS Naturals, Sequences, FiniteSets

CONSTANTS
    Timer,                 \* the LocTimer objects
    Delay,                 \* the delays they are started with
    MaxStarts,             \* bound: how often a LocTimer is started
    MaxTime                \* bound: the clock stops here

ASSUME LocTimerAssumption == /\ Delay \subseteq Nat \ {0}
                             /\ MaxStarts \in Nat /\ MaxTime \in Nat

Delegate == Timer \X (1..MaxStarts)
NoTimer == <<>>               \* NULL
Owner(d) == d[1]

VARIABLES
    now,                   \* CLOCK_BOOTTIME
    mTimer,                \* LocTimer::mTimer of each timer
    starts,                \* how many delegates have been created
    alive,                 \* the delegates that are allocated
    mClient,               \* those of them whose mClient and mContainer are set
    mFutureTime,           \* LocTimerDelegate::mFutureTime
    heap, top,             \* the delegates in the container, and its first one
    timerQueue,            \* the queue of the MsgTask
    armed,                 \* the time the timerfd is set to, 0 if disarmed
    polled,                \* the timerfd is in the epoll set
    poll,                  \* where the poll thread is
    task,                  \* where the MsgTask thread is
    ended                  \* how each delegate ended

clients == <<now, mTimer, starts, mFutureTime>>
timerfd == <<armed, polled>>
timerVars == <<now, mTimer, starts, alive, mClient, mFutureTime, heap, top, timerQueue,
               armed, polled, poll, task, ended>>

PushMsg(d)   == [kind |-> "push", timer |-> d]
RemoveMsg(d) == [kind |-> "remove", timer |-> d]
ExpireMsg    == [kind |-> "expire", timer |-> NoTimer]

(***************************************************************************)
(* The MsgTask thread is idle, or inside the proc() of an expire message:  *)
(* it has popped a delegate (popped), has read its mClient (read), has     *)
(* stopped the client (stopped), or is about to look for the next (next).  *)
(* since is the time read at the beginning of proc().                      *)
(***************************************************************************)
Idle == [at |-> "idle", timer |-> NoTimer, since |-> 0]
At(pc, d, t) == [at |-> pc, timer |-> d, since |-> t]

TimerInit ==
    /\ now = 0
    /\ mTimer = [t \in Timer |-> NoTimer]
    /\ starts = 0
    /\ alive = {} /\ mClient = {}
    /\ mFutureTime = [d \in Delegate |-> 0]
    /\ heap = {} /\ top = NoTimer
    /\ timerQueue = <<>>
    /\ armed = 0 /\ polled = FALSE
    /\ poll = "wait"
    /\ task = Idle
    /\ ended = [d \in Delegate |-> "not"]

-----------------------------------------------------------------------------
(* The heap, as the container uses it: LocHeap keeps the soonest first. *)

Soonest(H) == {d \in H : \A e \in H : mFutureTime[d] <= mFutureTime[e]}

HeapPush(d) == /\ heap' = heap \cup {d}
               /\ top' = IF top = NoTimer \/ mFutureTime[d] < mFutureTime[top] THEN d ELSE top

\* Which of several equally soon delegates comes up depends on the tree.
HeapRemove(d) ==
    /\ heap' = heap \ {d}
    /\ IF d # top THEN top' = top
       ELSE IF heap' = {} THEN top' = NoTimer
       ELSE top' \in Soonest(heap')

-----------------------------------------------------------------------------
(* LocTimer, called by a client's thread or by LocTimerDelegate::expire; each *)
(* call runs under the lock that the timer shares with its delegates.         *)

Start(t, delay) ==
    /\ mTimer[t] = NoTimer
    /\ starts < MaxStarts
    /\ LET d == <<t, starts + 1>>
       IN  /\ mTimer' = [mTimer EXCEPT ![t] = d]
           /\ alive' = alive \cup {d}
           /\ mClient' = mClient \cup {d}
           /\ mFutureTime' = [mFutureTime EXCEPT ![d] = now + delay]
           /\ timerQueue' = Append(timerQueue, PushMsg(d))
    /\ starts' = starts + 1
    /\ UNCHANGED <<now, heap, top, timerfd, poll, task, ended>>

\* A slip that a run must catch: stop() without mTimer = NULL.
MutStopKeepsTimer(t, how) ==
    /\ mTimer[t] # NoTimer
    /\ mClient' = mClient \ {mTimer[t]}
    /\ timerQueue' = Append(timerQueue, RemoveMsg(mTimer[t]))
    /\ ended' = [ended EXCEPT ![mTimer[t]] = how]
    /\ UNCHANGED <<now, mTimer, starts, alive, mFutureTime, heap, top, timerfd, poll>>

\* LocTimer::stop of a running timer, with LocTimerDelegate::destroyLocked.
Stop(t, how) ==
    /\ mTimer[t] # NoTimer
    /\ mTimer' = [mTimer EXCEPT ![t] = NoTimer]
    /\ mClient' = mClient \ {mTimer[t]}
    /\ timerQueue' = Append(timerQueue, RemoveMsg(mTimer[t]))
    /\ ended' = [ended EXCEPT ![mTimer[t]] = how]
    /\ UNCHANGED <<now, starts, alive, mFutureTime, heap, top, timerfd, poll>>

ClientStop(t) == Stop(t, "stopped") /\ UNCHANGED task

-----------------------------------------------------------------------------
(* LocTimerContainer, in the MsgTask thread *)

\* After the heap has changed; prior is the first delegate before the change.
UpdateSoonestTime(prior) ==
    IF top' = prior THEN UNCHANGED timerfd
    ELSE IF top' = NoTimer THEN armed' = 0 /\ polled' = FALSE
    ELSE IF prior = NoTimer \/ mFutureTime[top'] < mFutureTime[prior]
    THEN armed' = mFutureTime[top'] /\ polled' = TRUE
    ELSE UNCHANGED timerfd

NextMsg(kind) == task = Idle /\ timerQueue # <<>> /\ Head(timerQueue).kind = kind

ProcPush ==
    /\ NextMsg("push")
    /\ HeapPush(Head(timerQueue).timer)
    /\ UpdateSoonestTime(top)
    /\ timerQueue' = Tail(timerQueue)
    /\ UNCHANGED <<clients, alive, mClient, poll, task, ended>>

\* A slip: the delegate is deleted and left in the heap when it is not the first.
MutProcRemoveLeavesHeap ==
    /\ NextMsg("remove")
    /\ LET d == Head(timerQueue).timer
       IN  /\ IF d = top THEN HeapRemove(d) /\ UpdateSoonestTime(NoTimer)
                         ELSE UNCHANGED <<heap, top, timerfd>>
           /\ alive' = alive \ {d}
           /\ mFutureTime' = [mFutureTime EXCEPT ![d] = 0]
    /\ timerQueue' = Tail(timerQueue)
    /\ UNCHANGED <<now, mTimer, starts, mClient, poll, task, ended>>

\* LocHeap::remove answers NULL when the delegate is not in the heap: an empty
\* heap and a delegate already popped look like a removal of the first one.
ProcRemove ==
    /\ NextMsg("remove")
    /\ LET d == Head(timerQueue).timer
           removed == IF d \in heap THEN d ELSE NoTimer
       IN  /\ IF d \in heap THEN HeapRemove(d) ELSE UNCHANGED <<heap, top>>
           /\ IF top = removed THEN UpdateSoonestTime(NoTimer) ELSE UNCHANGED timerfd
           /\ alive' = alive \ {d}
           /\ mFutureTime' = [mFutureTime EXCEPT ![d] = 0]
    /\ timerQueue' = Tail(timerQueue)
    /\ UNCHANGED <<now, mTimer, starts, mClient, poll, task, ended>>

Pop(since) == /\ HeapRemove(top)
              /\ task' = At("popped", top, since)
              /\ UNCHANGED timerfd

\* A slip: the loop ends without updateSoonestTime(NULL).
MutEndExpireNoRearm == task' = Idle /\ UNCHANGED <<heap, top, timerfd>>

EndExpire == /\ UNCHANGED <<heap, top>>
             /\ UpdateSoonestTime(NoTimer)
             /\ task' = Idle

\* The first delegate is popped whatever its time is.
ProcExpire ==
    /\ NextMsg("expire")
    /\ timerQueue' = Tail(timerQueue)
    /\ IF heap = {} THEN EndExpire ELSE Pop(now)
    /\ UNCHANGED <<clients, alive, mClient, poll, ended>>

\* popIfOutRanks: the next one only if it is due.
ExpireNext ==
    /\ task.at = "next"
    /\ IF heap # {} /\ mFutureTime[top] <= task.since THEN Pop(task.since) ELSE EndExpire
    /\ UNCHANGED <<clients, alive, mClient, timerQueue, poll, ended>>

(* LocTimerDelegate::expire of the popped delegate *)

Go(pc) == task' = [task EXCEPT !.at = pc]

ExpireReadClient ==
    /\ task.at = "popped"
    /\ Go(IF task.timer \in mClient THEN "read" ELSE "next")
    /\ UNCHANGED <<clients, alive, mClient, heap, top, timerQueue, timerfd, poll, ended>>

\* stop() of the client that was read: it stops the delegate the client has
\* now, if it has one.
ExpireStop ==
    /\ task.at = "read"
    /\ LET client == Owner(task.timer)
       IN  \/ /\ Stop(client, IF mFutureTime[mTimer[client]] <= now THEN "fired" ELSE "early")
              /\ Go("stopped")
           \/ /\ mTimer[client] = NoTimer /\ Go("next")
              /\ UNCHANGED <<clients, alive, mClient, heap, top, timerQueue, timerfd, poll, ended>>

\* timeOutCallback(): what the client does in it are steps of its own.
ExpireCallback ==
    /\ task.at = "stopped"
    /\ Go("next")
    /\ UNCHANGED <<clients, alive, mClient, heap, top, timerQueue, timerfd, poll, ended>>

MsgTask == \/ ProcPush \/ ProcRemove \/ ProcExpire
           \/ ExpireNext \/ ExpireReadClient \/ ExpireStop \/ ExpireCallback

-----------------------------------------------------------------------------
(* The poll thread: TimerRunnable::run and LocTimerContainer::expire *)

PollRest == UNCHANGED <<clients, alive, mClient, heap, top, task, ended>>

PollWake ==
    /\ poll = "wait"
    /\ polled /\ armed # 0 /\ armed <= now
    /\ poll' = "woken"
    /\ UNCHANGED <<timerQueue, timerfd>> /\ PollRest

PollDisarm ==
    /\ poll = "woken"
    /\ armed' = 0
    /\ poll' = "disarmed"
    /\ UNCHANGED <<timerQueue, polled>> /\ PollRest

\* A slip: the poll thread stops polling and sends no message.
MutPollPostSilent ==
    /\ poll = "disarmed"
    /\ polled' = FALSE
    /\ poll' = "wait"
    /\ UNCHANGED <<timerQueue, armed>> /\ PollRest

PollPost ==
    /\ poll = "disarmed"
    /\ polled' = FALSE
    /\ timerQueue' = Append(timerQueue, ExpireMsg)
    /\ poll' = "wait"
    /\ UNCHANGED armed /\ PollRest

PollTask == PollWake \/ PollDisarm \/ PollPost

Tick ==
    /\ now < MaxTime
    /\ now' = now + 1
    /\ UNCHANGED <<mTimer, starts, alive, mClient, mFutureTime, heap, top, timerQueue,
                   timerfd, poll, task, ended>>

TimerNext == \/ \E t \in Timer : ClientStop(t) \/ \E delay \in Delay : Start(t, delay)
             \/ MsgTask \/ PollTask \/ Tick

TimerSpec == TimerInit /\ [][TimerNext]_timerVars

\* Both threads run when they have something to do, and time passes.
TimerFairSpec == TimerSpec /\ WF_timerVars(MsgTask) /\ WF_timerVars(PollTask) /\ WF_timerVars(Tick)

-----------------------------------------------------------------------------
(* Properties *)

TimerTypeOK ==
    /\ now \in 0..MaxTime
    /\ mTimer \in [Timer -> Delegate \cup {NoTimer}]
    /\ starts \in 0..MaxStarts
    /\ alive \subseteq Delegate /\ mClient \subseteq alive
    /\ mFutureTime \in [Delegate -> Nat]
    /\ heap \subseteq Delegate /\ top \in heap \cup {NoTimer}
    /\ timerQueue \in Seq([kind : {"push", "remove", "expire"}, timer : Delegate \cup {NoTimer}])
    /\ armed \in Nat /\ polled \in BOOLEAN
    /\ poll \in {"wait", "woken", "disarmed"}
    /\ task.at \in {"idle", "popped", "read", "stopped", "next"}

Times(m) == Cardinality({i \in 1..Len(timerQueue) : timerQueue[i] = m})
InHand(d) == task.timer = d /\ task.at \in {"popped", "read"}

\* A running delegate is in exactly one place, on its way into the heap, in
\* it or popped and being expired, so it can neither be lost nor expire twice;
\* an ended one is on its way to be deleted exactly once, and nothing else
\* holds it after that.
DelegateAccounted ==
    /\ heap \subseteq alive
    /\ \A d \in alive :
         IF d \in mClient
         THEN /\ Times(RemoveMsg(d)) = 0
              /\ mTimer[Owner(d)] = d
              /\ \/ Times(PushMsg(d)) = 1 /\ d \notin heap /\ ~ InHand(d)
                 \/ Times(PushMsg(d)) = 0 /\ (d \in heap <=> ~ InHand(d))
         ELSE Times(RemoveMsg(d)) = 1 /\ mTimer[Owner(d)] # d
    /\ \A d \in Delegate \ alive : /\ Times(PushMsg(d)) = 0 /\ Times(RemoveMsg(d)) = 0
                                   /\ ~ InHand(d)

\* A delegate in the heap will be looked at in time: the timerfd is armed for
\* no later than the soonest one and polled, or it has fired and the poll
\* thread or an expire message will see to it.
WakeupPending ==
    heap # {} => \/ polled /\ armed # 0 /\ armed <= mFutureTime[top]
                 \/ poll # "wait"
                 \/ Times(ExpireMsg) > 0
                 \/ task # Idle

\* How a delegate ended is decided once: stop() returns true to the client or
\* to expire(), never to both, and a stopped one is not called back.
EndsOnce == [][\A d \in Delegate : ended[d] # "not" => ended'[d] = ended[d]]_timerVars

\* Every delegate that is started ends, unless its time is past the bound.
EveryTimerEnds ==
    \A d \in Delegate :
        (d \in mClient /\ mFutureTime[d] <= MaxTime) ~> ended[d] # "not"

\* expire() calls back "only if stop() returns true, i.e. it hasn't been stopped
\* already": no client is called back before the time its running delegate has.
NeverEarly ==
    \A d \in Delegate : ended[d] # "early"
=============================================================================
