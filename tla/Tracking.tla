------------------------------ MODULE Tracking ------------------------------
(***************************************************************************)
(* The tracking sessions of GnssAdapter (gps/gnss/GnssAdapter.cpp).  Any   *)
(* number of clients run sessions of their own; the modem takes one time   *)
(* based session, so the adapter multiplexes: it asks for the smallest     *)
(* interval and power mode its sessions need.  Distance based sessions go  *)
(* to the modem one by one.                                                *)
(*                                                                         *)
(* Every handler runs in one thread, from the queue of a MsgTask; what the *)
(* modem answers comes back as one more message of that queue, and clients *)
(* and the modem move on in the meantime.                                  *)
(***************************************************************************)
EXTENDS Naturals, Sequences, FiniteSets, SequencesExt

CONSTANTS
    Client,                \* the LocationAPI objects
    Options,               \* the TrackingOptions they use
    Patient,               \* a client waits for the answer to its last call
    DistanceSupported,     \* the modem takes distance based sessions
    Fails,                 \* the requests the modem may refuse
    MaxId,                 \* bound: sessions in all
    MaxUpdates,            \* bound: updates of options in all
    MaxEngineUps,          \* bound: how often the modem comes up
    MaxPower,              \* bound: changes of the power state
    MaxBacklog             \* bound: messages in the queue when one is added from outside

Id == 1..MaxId

ASSUME TrackingAssumption ==
    /\ Options \subseteq [minInterval : Nat, powerMode : Nat \ {0}, minDistance : Nat]
    /\ {Patient, DistanceSupported} \subseteq BOOLEAN
    /\ {MaxId, MaxUpdates, MaxEngineUps, MaxPower, MaxBacklog} \subseteq Nat

Off == [minInterval |-> 0, powerMode |-> 0, minDistance |-> 0]

VARIABLES
    mClientData,           \* the clients the adapter knows
    timeBased,             \* mTimeBasedTrackingSessions, options by session id
    distanceBased,         \* mDistanceBasedTrackingSessions
    queue,                 \* the queue of the MsgTask
    mPendingMsgs,          \* messages kept until the capabilities are known
    known,                 \* isEngineCapabilitiesKnown()
    mSystemPowerState,
    requests,              \* what the modem was asked and has not done yet
    engine,                \* the time based session of the modem, or Off
    engineDistance,        \* the distance based sessions of the modem
    owner,                 \* the client of each session id handed out
    stopped,               \* the sessions whose client has asked to stop them
    updates,               \* how often options were updated
    waiting,               \* the sessions whose last call is not answered yet
    answer,                \* what responseCb said last about each session
    ups, powers            \* how often the modem came up, the power changed

sessions == <<timeBased, distanceBased>>
state    == <<mClientData, mPendingMsgs, known, mSystemPowerState>>
modem    == <<engine, engineDistance, ups>>
calls    == <<owner, stopped, updates, powers>>
told     == <<waiting, answer>>
vars     == <<sessions, state, modem, calls, told, queue, requests>>

\* A message; a LocApiResponse is one too, ok says what the modem answered.
Msg(kind, id, o) == [kind |-> kind, id |-> id, options |-> o, ok |-> TRUE]
NoReply == Msg("none", 0, Off)
Request(op, id, o, reply) ==
    [op |-> op, id |-> id, options |-> [o EXCEPT !.minDistance = 0], reply |-> reply]

Init == /\ mClientData = Client
        /\ timeBased = [id \in {} |-> Off] /\ distanceBased = [id \in {} |-> Off]
        /\ queue = <<>> /\ mPendingMsgs = <<>> /\ known = FALSE
        /\ mSystemPowerState = "unknown"
        /\ requests = <<>> /\ engine = Off /\ engineDistance = {} /\ ups = 0
        /\ owner = <<>> /\ stopped = {} /\ powers = 0
        /\ updates = 0
        /\ waiting = {} /\ answer = [id \in Id |-> "nothing"]

-----------------------------------------------------------------------------
(* The clients' calls (the ...Command functions) and the system's *)

Send(m) == Len(queue) < MaxBacklog /\ queue' = Append(queue, m)

MsgRemoveClient(c) == [kind |-> "removeClient", client |-> c]
Removed(c) == c \notin mClientData \/ \E i \in 1..Len(queue) : queue[i] = MsgRemoveClient(c)
MayCall(id) == /\ id \in DOMAIN owner /\ id \notin stopped /\ ~ Removed(owner[id])
               /\ Patient => id \notin waiting

StartTrackingCommand(c, o) ==
    /\ ~ Removed(c) /\ Len(owner) < MaxId
    /\ LET id == Len(owner) + 1          \* generateSessionId()
       IN  /\ waiting' = waiting \cup {id}
           /\ Send(Msg("start", id, o))
    /\ owner' = Append(owner, c)
    /\ UNCHANGED <<sessions, state, modem, requests, stopped, updates, powers, answer>>

UpdateTrackingOptionsCommand(id, o) ==
    /\ MayCall(id) /\ updates < MaxUpdates
    /\ updates' = updates + 1
    /\ waiting' = waiting \cup {id}
    /\ Send(Msg("update", id, o))
    /\ UNCHANGED <<sessions, state, modem, requests, owner, stopped, powers, answer>>

StopTrackingCommand(id) ==
    /\ MayCall(id)
    /\ stopped' = stopped \cup {id}
    /\ waiting' = waiting \cup {id}
    /\ Send(Msg("stop", id, Off))
    /\ UNCHANGED <<sessions, state, modem, requests, owner, updates, powers, answer>>

RemoveClientCommand(c) ==
    /\ ~ Removed(c)
    /\ Patient => \A id \in waiting : owner[id] # c
    /\ Send(MsgRemoveClient(c))
    /\ UNCHANGED <<sessions, state, modem, calls, told, requests>>

UpdateSystemPowerStateCommand(power) ==
    /\ powers < MaxPower /\ powers' = powers + 1
    /\ Send(Msg(power, 0, Off))
    /\ UNCHANGED <<sessions, state, modem, requests, owner, stopped, updates, told>>

-----------------------------------------------------------------------------
(* What the handlers are made of *)

Save(m, id, o) == [i \in DOMAIN m \cup {id} |-> IF i = id THEN o ELSE m[i]]
Erase(m, id) == Restrict(m, DOMAIN m \ {id})

SaveTrackingSession(id, o) ==
    IF o.minDistance > 0 /\ DistanceSupported
    THEN distanceBased' = Save(distanceBased, id, o) /\ UNCHANGED timeBased
    ELSE timeBased' = Save(timeBased, id, o) /\ UNCHANGED distanceBased

EraseTrackingSession(id) ==
    IF id \in DOMAIN timeBased
    THEN timeBased' = Erase(timeBased, id) /\ UNCHANGED distanceBased
    ELSE distanceBased' = Erase(distanceBased, id) /\ UNCHANGED timeBased

Ask(rs) == requests' = requests \o rs

ReportResponse(id, err) ==
    IF owner[id] \in mClientData
    THEN waiting' = waiting \ {id} /\ answer' = [answer EXCEPT ![id] = err]
    ELSE UNCHANGED told

Result(ok) == IF ok THEN "success" ELSE "error"

(***************************************************************************)
(* Options of a set of time based sessions.  The maps are ordered by id,   *)
(* and the first of several equally fast sessions is taken.                *)
(***************************************************************************)
Fastest(m) ==
    LET id == CHOOSE i \in DOMAIN m :
                \A j \in DOMAIN m :
                    \/ m[i].minInterval < m[j].minInterval
                    \/ m[i].minInterval = m[j].minInterval /\ i <= j
    IN  m[id]

LowestPowerMode(m) ==
    LET id == CHOOSE i \in DOMAIN m : \A j \in DOMAIN m : m[i].powerMode <= m[j].powerMode
    IN  m[id].powerMode

\* Operators whose name starts with Mut are slips a run must catch in the
\* definition that follows them; here only the power mode is compared.
MutRaisesPowerOnly(m, o) == o.powerMode < LowestPowerMode(m)

Raises(m, o) == \/ o.minInterval < Fastest(m).minInterval
                \/ o.powerMode < LowestPowerMode(m)

\* For a session with options o besides m: the power mode is the fastest
\* session's, unless o lowers it.
Multiplexed(m, o) ==
    [Fastest(m) EXCEPT !.minInterval = IF o.minInterval < @ THEN o.minInterval ELSE @,
                       !.powerMode = IF o.powerMode < LowestPowerMode(m) THEN o.powerMode ELSE @]

\* For the sessions m alone.
Combined(m) == [Fastest(m) EXCEPT !.powerMode = LowestPowerMode(m)]

(***************************************************************************)
(* The multiplexer: what the modem is asked when a session starts, stops   *)
(* or is updated.  When it is asked nothing, the client is told at once;   *)
(* otherwise when the modem answers.                                       *)
(***************************************************************************)
ToStart(id, o) ==
    IF DOMAIN timeBased = {} THEN <<Request("start", id, o, Msg("startDone", id, Off))>>
    ELSE IF Raises(timeBased, o)
    THEN <<Request("start", id, Multiplexed(timeBased, o), Msg("startDone", id, Off))>>
    ELSE <<>>

ToStop(id) ==
    LET others == Erase(timeBased, id)
    IN  IF DOMAIN others = {} THEN <<Request("stop", id, Off, Msg("stopDone", id, Off))>>
        ELSE IF Raises(others, timeBased[id])
        THEN <<Request("start", id, Combined(others), Msg("startDone", id, Off))>>
        ELSE <<>>

ToUpdate(id, o) ==
    LET others == Erase(timeBased, id)
        reply == Msg("updateDone", id, timeBased[id])
    IN  IF o.minInterval = timeBased[id].minInterval /\ o.powerMode = timeBased[id].powerMode
        THEN <<>>
        ELSE IF DOMAIN others = {} THEN <<Request("start", id, o, reply)>>
        ELSE IF Raises(others, o) THEN <<Request("start", id, Multiplexed(others, o), reply)>>
        ELSE <<>>

\* A client whose call needs nothing of the modem is not told.
MutAskAndReportLater(id, rs) == Ask(rs) /\ UNCHANGED told

AskAndReport(id, rs) ==
    /\ Ask(rs)
    /\ IF rs = <<>> THEN ReportResponse(id, "success") ELSE UNCHANGED told

\* The multiplexed options are saved instead of the session's own.
MutStartTimeBasedSavesMultiplexed(id, o) ==
    /\ AskAndReport(id, ToStart(id, o))
    /\ SaveTrackingSession(id, IF DOMAIN timeBased = {} THEN o ELSE Multiplexed(timeBased, o))

StartTimeBased(id, o) == /\ AskAndReport(id, ToStart(id, o))
                         /\ SaveTrackingSession(id, o)

ToStartDistance(id, reply) == <<Request("startDistance", id, Off, reply)>>
ToStopDistance(id, reply) == <<Request("stopDistance", id, Off, reply)>>

\* restartSessions and suspendSessions
ToRestart ==
    (IF DOMAIN timeBased = {} THEN <<>>
     ELSE <<Request("start", 0, Combined(timeBased), NoReply)>>)
    \o [i \in 1..Cardinality(DOMAIN distanceBased) |->
          Request("startDistance", SetToSeq(DOMAIN distanceBased)[i], Off, NoReply)]

ToSuspend == IF DOMAIN timeBased = {} THEN <<>>
             ELSE <<Request("stop", 0, Off, NoReply)>>

ToSetPower(power) == IF power = "suspend" THEN ToSuspend
                     ELSE IF power = "resume" THEN ToRestart ELSE <<>>

-----------------------------------------------------------------------------
(* The handlers: one message each *)

NextMsg(kind) == queue # <<>> /\ Head(queue).kind = kind
Done == queue' = Tail(queue)
Proc(kind) == NextMsg(kind) /\ Done /\ UNCHANGED <<modem, calls>>
id0 == Head(queue).id
options0 == Head(queue).options

\* Distance based sessions wait until the capabilities are known.
TooEarly == ~ known /\ options0.minDistance > 0

Postpone ==
    /\ \E kind \in {"start", "update"} : Proc(kind)
    /\ TooEarly
    /\ mPendingMsgs' = Append(mPendingMsgs, Head(queue))
    /\ UNCHANGED <<sessions, mClientData, known, mSystemPowerState, told, requests>>

\* hasCallbacksToStartTracking: the error of a client without them, or of one
\* removed in the meantime, is not reported.
ProcStartTracking ==
    /\ Proc("start") /\ ~ TooEarly
    /\ IF owner[id0] \notin mClientData THEN UNCHANGED <<sessions, told, requests>>
       ELSE IF options0.minDistance > 0 /\ DistanceSupported
       THEN /\ SaveTrackingSession(id0, options0)
            /\ Ask(ToStartDistance(id0, Msg("startDone", id0, Off)))
            /\ UNCHANGED told
       ELSE StartTimeBased(id0, options0)
    /\ UNCHANGED state

ProcStopTracking ==
    /\ Proc("stop")
    /\ IF id0 \in DOMAIN timeBased
       THEN /\ AskAndReport(id0, ToStop(id0))
            /\ EraseTrackingSession(id0)
       ELSE IF id0 \in DOMAIN distanceBased
       THEN /\ Ask(ToStopDistance(id0, Msg("distanceStopDone", id0, Off)))
            /\ UNCHANGED <<sessions, told>>
       ELSE ReportResponse(id0, "unknown") /\ UNCHANGED <<sessions, requests>>
    /\ UNCHANGED state

(***************************************************************************)
(* MsgUpdateTracking: the session stays time based or distance based, or   *)
(* switches.  A time based session that gets a distance is reported before *)
(* the modem has started it, and is saved as time based when the modem     *)
(* takes no distance based sessions.                                       *)
(***************************************************************************)
SwitchToDistance ==
    LET rs == ToStop(id0)
        left == Erase(timeBased, id0)
    IN  /\ Ask(rs \o ToStartDistance(id0, NoReply))
        /\ IF rs = <<>> THEN ReportResponse(id0, "success") ELSE UNCHANGED told
        /\ IF DistanceSupported
           THEN timeBased' = left /\ distanceBased' = Save(distanceBased, id0, options0)
           ELSE timeBased' = Save(left, id0, options0) /\ UNCHANGED distanceBased

SwitchToTime ==
    /\ EraseTrackingSession(id0)
    /\ Ask(ToStopDistance(id0, Msg("switchDone", id0, options0)))
    /\ UNCHANGED told

UpdateTimeBased ==
    /\ AskAndReport(id0, ToUpdate(id0, options0))
    /\ SaveTrackingSession(id0, options0)

RestartDistance ==
    /\ Ask(ToStopDistance(id0, Msg("restartStopDone", id0, options0)))
    /\ UNCHANGED <<sessions, told>>

UpdateUnknown == ReportResponse(id0, "unknown") /\ UNCHANGED <<sessions, requests>>

ProcUpdateTracking ==
    /\ Proc("update") /\ ~ TooEarly
    /\ LET isTimeBased == id0 \in DOMAIN timeBased
           isDistanceBased == id0 \in DOMAIN distanceBased
           near == options0.minDistance = 0
       IN  \/ isTimeBased /\ ~ near /\ SwitchToDistance
           \/ isDistanceBased /\ near /\ SwitchToTime
           \/ isTimeBased /\ ~ isDistanceBased /\ near /\ UpdateTimeBased
           \/ isDistanceBased /\ ~ isTimeBased /\ ~ near /\ RestartDistance
           \/ ~ isTimeBased /\ ~ isDistanceBased /\ UpdateUnknown
    /\ UNCHANGED state

(***************************************************************************)
(* MsgRemoveClient: stopClientSessions stops the time based sessions one   *)
(* by one, then asks the modem to stop the others; eraseClient follows.    *)
(***************************************************************************)
OfClient(m) == {id \in DOMAIN m : owner[id] = Head(queue).client}

StopClientSession ==
    /\ NextMsg("removeClient")
    /\ \E id \in OfClient(timeBased) :
          /\ \A other \in OfClient(timeBased) : id <= other
          /\ Ask(ToStop(id))
          /\ EraseTrackingSession(id)
    /\ UNCHANGED <<state, modem, calls, told, queue>>

EraseClient ==
    /\ Proc("removeClient")
    /\ OfClient(timeBased) = {}
    /\ LET ids == SetToSeq(OfClient(distanceBased))
       IN  Ask([i \in 1..Len(ids) |->
                  Request("stopDistance", ids[i], Off, Msg("clientStopDone", ids[i], Off))])
    /\ mClientData' = mClientData \ {Head(queue).client}
    /\ UNCHANGED <<sessions, mPendingMsgs, known, mSystemPowerState, told>>

ProcUpdatePowerState ==
    \E power \in {"suspend", "resume"} :
        /\ Proc(power)
        /\ mSystemPowerState' = power
        /\ Ask(ToSetPower(power))
        /\ UNCHANGED <<sessions, mClientData, mPendingMsgs, known, told>>

ProcEngineUp ==
    /\ NextMsg("engineUp")
    /\ known' = TRUE
    /\ Ask(ToSetPower(mSystemPowerState)
           \o IF mSystemPowerState = "suspend" THEN <<>> ELSE ToRestart)
    /\ queue' = Tail(queue) \o mPendingMsgs
    /\ mPendingMsgs' = <<>>
    /\ UNCHANGED <<sessions, mClientData, mSystemPowerState, modem, calls, told>>

-----------------------------------------------------------------------------
(* The handlers of the modem's answers *)

ok0 == Head(queue).ok

\* The error check is inverted.
MutStartDoneInverted ==
    /\ Proc("startDone")
    /\ IF ok0 THEN EraseTrackingSession(id0) ELSE UNCHANGED sessions
    /\ ReportResponse(id0, Result(ok0))
    /\ UNCHANGED <<state, requests>>

StartDone ==
    /\ Proc("startDone")
    /\ IF ok0 THEN UNCHANGED sessions ELSE EraseTrackingSession(id0)
    /\ ReportResponse(id0, Result(ok0))
    /\ UNCHANGED <<state, requests>>

StopDone ==
    /\ Proc("stopDone")
    /\ ReportResponse(id0, Result(ok0))
    /\ UNCHANGED <<sessions, state, requests>>

DistanceStopDone ==
    /\ Proc("distanceStopDone")
    /\ IF ok0 THEN EraseTrackingSession(id0) ELSE UNCHANGED sessions
    /\ ReportResponse(id0, Result(ok0))
    /\ UNCHANGED <<state, requests>>

ClientStopDone ==
    /\ Proc("clientStopDone")
    /\ IF ok0 THEN EraseTrackingSession(id0) ELSE UNCHANGED sessions
    /\ UNCHANGED <<state, told, requests>>

\* The old options come back when the modem refuses the new ones.
UpdateDone ==
    /\ Proc("updateDone")
    /\ IF ok0 THEN UNCHANGED sessions ELSE SaveTrackingSession(id0, options0)
    /\ ReportResponse(id0, Result(ok0))
    /\ UNCHANGED <<state, requests>>

\* Whatever the modem answered, and whatever happened to the session meanwhile.
SwitchDone ==
    /\ Proc("switchDone")
    /\ StartTimeBased(id0, options0)
    /\ UNCHANGED state

\* Nobody is told when the stop fails.
RestartStopDone ==
    /\ Proc("restartStopDone")
    /\ Ask(IF ok0 THEN ToStartDistance(id0, Msg("restartDone", id0, options0)) ELSE <<>>)
    /\ UNCHANGED <<sessions, state, told>>

RestartDone ==
    /\ Proc("restartDone")
    /\ IF ok0 THEN SaveTrackingSession(id0, options0) ELSE UNCHANGED sessions
    /\ ReportResponse(id0, Result(ok0))
    /\ UNCHANGED <<state, requests>>

MsgTask ==
    \/ Postpone \/ ProcStartTracking \/ ProcStopTracking \/ ProcUpdateTracking
    \/ StopClientSession \/ EraseClient \/ ProcUpdatePowerState \/ ProcEngineUp
    \/ StartDone \/ StopDone \/ DistanceStopDone \/ ClientStopDone \/ UpdateDone
    \/ SwitchDone \/ RestartStopDone \/ RestartDone

-----------------------------------------------------------------------------
(* The modem, behind LocApiBase (the implementation is not in this repository): *)
(* it serves the requests in order and answers each that wants an answer.       *)

Serve(r) == /\ engine' = IF r.op = "start" THEN r.options
                         ELSE IF r.op = "stop" THEN Off ELSE engine
            /\ engineDistance' = IF r.op = "startDistance" THEN engineDistance \cup {r.id}
                                 ELSE IF r.op = "stopDistance" THEN engineDistance \ {r.id}
                                 ELSE engineDistance

Modem ==
    /\ requests # <<>>
    /\ requests' = Tail(requests)
    /\ LET r == Head(requests)
       IN  \E ok \in (IF r.op \in Fails THEN BOOLEAN ELSE {TRUE}) :
              /\ IF ok THEN Serve(r) ELSE UNCHANGED <<engine, engineDistance>>
              /\ queue' = IF r.reply = NoReply THEN queue
                          ELSE Append(queue, [r.reply EXCEPT !.ok = ok])
    /\ UNCHANGED <<sessions, state, calls, told, ups>>

\* It comes up, the first time or again after it has lost its sessions; the
\* adapter is told.  Bound: it is not restarted while requests are on the way.
EngineUp ==
    /\ ups < MaxEngineUps /\ ups' = ups + 1
    /\ requests = <<>>
    /\ engine' = Off /\ engineDistance' = {}
    /\ Send(Msg("engineUp", 0, Off))
    /\ UNCHANGED <<sessions, state, calls, told, requests>>

Calls == \/ \E c \in Client : RemoveClientCommand(c) \/ \E o \in Options : StartTrackingCommand(c, o)
         \/ \E id \in Id : \/ StopTrackingCommand(id)
                           \/ \E o \in Options : UpdateTrackingOptionsCommand(id, o)
         \/ \E power \in {"suspend", "resume"} : UpdateSystemPowerStateCommand(power)

Next == Calls \/ MsgTask \/ Modem \/ EngineUp

Spec == Init /\ [][Next]_vars

-----------------------------------------------------------------------------
(* Properties *)

Kinds == {"start", "update", "stop", "removeClient", "suspend", "resume", "engineUp",
          "startDone", "stopDone", "distanceStopDone", "clientStopDone", "updateDone",
          "switchDone", "restartStopDone", "restartDone"}

TypeOK ==
    /\ mClientData \subseteq Client
    /\ \A m \in {timeBased, distanceBased} : DOMAIN m \subseteq DOMAIN owner /\ Range(m) \subseteq Options
    /\ \A i \in 1..Len(queue) : queue[i].kind \in Kinds
    /\ \A i \in 1..Len(mPendingMsgs) : mPendingMsgs[i].kind \in {"start", "update"}
    /\ \A i \in 1..Len(requests) : requests[i].op \in {"start", "stop", "startDistance", "stopDistance"}
    /\ engineDistance \subseteq DOMAIN owner
    /\ stopped \cup waiting \subseteq DOMAIN owner

\* What a modem that runs e will run once it has done the requests in q.
OfTime(q) == {i \in 1..Len(q) : q[i].op \in {"start", "stop"}}
TargetOf(q, e) ==
    IF OfTime(q) = {} THEN e
    ELSE LET last == q[CHOOSE i \in OfTime(q) : \A j \in OfTime(q) : j <= i]
         IN  IF last.op = "stop" THEN Off ELSE last.options

Target == TargetOf(requests, engine)

Awaits(kind) == \E i \in 1..Len(queue) : queue[i].kind = kind
Running == mSystemPowerState # "suspend" /\ ~ Awaits("engineUp")
Settled == queue = <<>> /\ requests = <<>>

\* No session gets its fixes at a longer interval than it asked for: what the
\* modem is asked for is at least as fast as every time based session.
EngineFastEnough ==
    Running => \A id \in DOMAIN timeBased :
                  Target # Off /\ Target.minInterval <= timeBased[id].minInterval

\* Likewise for the power mode: "find the smallest interval and powerMode".
EnginePowerEnough ==
    Running => \A id \in DOMAIN timeBased :
                  Target # Off /\ Target.powerMode <= timeBased[id].powerMode

\* The modem does not go on tracking for nobody.
EngineOnlyForSessions == DOMAIN timeBased = {} => Target = Off

\* The one session that the modem is asked for is as good as the sessions need, and ends
\* with them.
EngineServesSessions == EngineFastEnough /\ EngineOnlyForSessions

\* A session that was stopped, or whose client was removed, is gone for good
\* once everything is done, unless the stop was refused.
NoGhostSession ==
    Settled => \A id \in DOMAIN timeBased \cup DOMAIN distanceBased :
                  owner[id] \in mClientData /\ (id \in stopped => answer[id] = "error")

\* A session the client was told has started is there until it is stopped.
NoSessionLost ==
    Settled => \A id \in DOMAIN owner :
                  (owner[id] \in mClientData /\ answer[id] = "success" /\ id \notin stopped)
                     => id \in DOMAIN timeBased \cup DOMAIN distanceBased

\* The sessions in the maps are the ones that clients have, no more and no fewer.
SessionsAsTold == NoGhostSession /\ NoSessionLost

\* No call is left without an answer: when everything is done, nothing waits.
EveryCallAnswered ==
    Settled /\ known => \A id \in waiting : owner[id] \notin mClientData
=============================================================================
