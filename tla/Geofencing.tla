------------------------------ MODULE Geofencing ------------------------------
(***************************************************************************)
(* GeofenceAdapter (gps/geofence): the fences of the clients, which the    *)
(* modem watches under numbers (hwId) of its own.  A call names several    *)
(* fences; each of them waits for its turn in the call queue of the modem's*)
(* interface, is then asked of the modem, and the last one's answer sends  *)
(* the answer to the whole call.  All state belongs to the adapter's       *)
(* thread.  The modem's interface works off turns and requests in their    *)
(* order; what it has answered reaches the thread before it goes on.       *)
(***************************************************************************)
EXTENDS Integers, Sequences, FiniteSets

CONSTANTS
    FenceClient,           \* clients, all with callbacks
    MaxFence,              \* bound: fences added, and so the modem's numbers
    MaxFenceCalls,         \* bound: calls
    MaxPerCall,            \* bound: fences named in a call
    MaxFenceQueue,         \* bound: turns and requests under way when one more is made
    MaxFenceUps,           \* bound: restarts of the modem
    MaxPower,              \* bound: changes of the power state
    FenceRefused           \* operations the modem may refuse

ASSUME FenceBounds == MaxFence \in Nat /\ MaxFenceCalls \in Nat /\ MaxPerCall \in Nat

FenceId == 1..MaxFence
HwId == 1..MaxFence
FenceCall == 1..MaxFenceCalls
NoFence == [id |-> 0]
Unwatched == [paused |-> FALSE, version |-> -1]
NoFenceCall == [op |-> "none", client |-> "none", ids |-> <<>>, errs |-> <<>>,
                version |-> 0, replies |-> 0, refused |-> FALSE, told |-> <<>>, done |-> {}]

VARIABLES
    fenceCbs,              \* mClientData
    mGeofences,            \* hwId -> client, id, version of the options, paused
    mGeofenceIds,          \* <<client, id>> -> hwId, 0 if there is none
    fencePower,            \* mSystemPowerState
    fenceUp,               \* the thread has seen MsgSSREvent since the modem last started
    fenceQueue,            \* turns and requests the modem's interface has to do
    fenceCalls,            \* the calls: what was asked, and the errors collected
    watched,               \* the modem's fences
    crossed,               \* history: a number was given out again while requests still had it
    fenceUps, nextFence, nextFenceCall, powers

fenceCounts == <<crossed, fenceUps, nextFence, nextFenceCall, powers>>
fenceMaps == <<mGeofences, mGeofenceIds>>
fenceVars == <<fenceCbs, fenceMaps, fencePower, fenceUp, fenceQueue, fenceCalls, watched, fenceCounts>>

FenceKey == FenceClient \X FenceId

FenceInit ==
    /\ fenceCbs = FenceClient
    /\ mGeofences = [h \in HwId |-> NoFence]
    /\ mGeofenceIds = [k \in FenceKey |-> 0]
    /\ fencePower = "unknown" /\ fenceUp = TRUE
    /\ fenceQueue = <<>>
    /\ fenceCalls = [n \in FenceCall |-> NoFenceCall]
    /\ watched = [h \in HwId |-> Unwatched]
    /\ crossed = FALSE
    /\ fenceUps = 0 /\ nextFence = 1 /\ nextFenceCall = 1 /\ powers = 0

\* A set of numbers in ascending order.
InOrder(S) == [i \in 1..Cardinality(S) |-> CHOOSE x \in S : Cardinality({y \in S : y <= x}) = i]

Fences == {h \in HwId : mGeofences[h] # NoFence}
KeyOf(h) == <<mGeofences[h].client, mGeofences[h].id>>
RoomForFences == Len(fenceQueue) < MaxFenceQueue

\* add..., remove..., modify..., pause... and resumeGeofencesCommand: each fence of the
\* call enters the call queue.  The ids of added fences are given out here.
CallFences(op, c, ids, version) ==
    /\ RoomForFences /\ nextFenceCall <= MaxFenceCalls /\ c \in fenceCbs
    /\ IF op = "add" THEN /\ nextFence + Len(ids) - 1 <= MaxFence
                          /\ ids = [i \in 1..Len(ids) |-> nextFence + i - 1]
                          /\ nextFence' = nextFence + Len(ids)
       ELSE (\A i \in DOMAIN ids : ids[i] < nextFence) /\ UNCHANGED nextFence
    /\ nextFenceCall' = nextFenceCall + 1
    /\ fenceCalls' = [fenceCalls EXCEPT ![nextFenceCall] =
                         [NoFenceCall EXCEPT !.op = op, !.client = c, !.ids = ids, !.version = version,
                                             !.errs = [i \in DOMAIN ids |-> "none"]]]
    /\ fenceQueue' = fenceQueue \o [i \in DOMAIN ids |-> [op |-> "turn", call |-> nextFenceCall, item |-> i]]
    /\ UNCHANGED <<fenceCbs, fenceMaps, fencePower, fenceUp, watched, crossed, fenceUps, powers>>

\* Mutant: every item answers the call.
MutItemDoneAnswersEach(calls, n, i, err) ==
    LET errs == [calls[n].errs EXCEPT ![i] = err]
    IN  [calls EXCEPT ![n].errs = errs, ![n].told = errs,
                      ![n].replies = IF calls[n].client \in fenceCbs THEN @ + 1 ELSE @]

\* An item of a call has its result; the last item of the call answers the call, if the
\* client is still known.
ItemDone(calls, n, i, err) ==
    LET answers == i = Len(calls[n].ids) /\ calls[n].client \in fenceCbs
        errs == [calls[n].errs EXCEPT ![i] = err]
    IN  [calls EXCEPT ![n].errs = errs, ![n].replies = IF answers THEN @ + 1 ELSE @,
                      ![n].told = IF answers THEN errs ELSE @]

\* The turn of one fence of a call: known fences are asked of the modem, others are done.
\* getHwIdFromClient leaves SUCCESS in errs already.
TakeTurn ==
    LET r == Head(fenceQueue)
        n == r.call
        call == fenceCalls[n]
        key == <<call.client, call.ids[r.item]>>
        ask == [op |-> call.op, call |-> n, item |-> r.item, key |-> key, version |-> call.version,
                hw |-> mGeofenceIds[key], paused |-> FALSE]
    IN  /\ fenceQueue # <<>> /\ r.op = "turn"
        /\ IF call.op = "add" \/ mGeofenceIds[key] > 0
           THEN /\ fenceQueue' = Append(Tail(fenceQueue), ask)
                /\ fenceCalls' = IF call.op = "add" THEN fenceCalls
                                 ELSE [fenceCalls EXCEPT ![n].errs[r.item] = "success"]
           ELSE /\ fenceQueue' = Tail(fenceQueue)
                /\ fenceCalls' = ItemDone(fenceCalls, n, r.item, "idUnknown")
        /\ UNCHANGED <<fenceCbs, fenceMaps, fencePower, fenceUp, watched, fenceCounts>>

\* What the modem does; a new fence gets the first number that is free.
FreeHw == CHOOSE h \in HwId : watched[h] = Unwatched /\ \A g \in HwId : g < h => watched[g] # Unwatched
Watch(r) == CASE r.op \in {"add", "readd"} ->
                     [watched EXCEPT ![FreeHw] = [paused |-> FALSE, version |-> r.version]]
              [] r.op = "remove" -> [watched EXCEPT ![r.hw] = Unwatched]
              [] r.op = "pause" -> [watched EXCEPT ![r.hw].paused = TRUE]
              [] r.op = "resume" -> [watched EXCEPT ![r.hw].paused = FALSE]
              [] r.op = "modify" -> [watched EXCEPT ![r.hw].version = r.version]

\* saveGeofenceItem, removeGeofenceItem, eraseSession of stopClientSessions, and
\* pauseGeofenceItem, resumeGeofenceItem, modifyGeofenceItem, after a success.  A fence
\* that a restart of the modem has made unknown is passed over.
Saved(r, h) ==
    /\ mGeofences' = [mGeofences EXCEPT ![h] = [client |-> r.key[1], id |-> r.key[2],
                                               version |-> r.version, paused |-> FALSE]]
    /\ mGeofenceIds' = [mGeofenceIds EXCEPT ![r.key] = h]

Removed(r) ==
    LET known == mGeofences[r.hw] # NoFence /\ (r.call = 0 \/ mGeofenceIds[KeyOf(r.hw)] > 0)
    IN  /\ mGeofences' = IF known THEN [mGeofences EXCEPT ![r.hw] = NoFence] ELSE mGeofences
        /\ mGeofenceIds' = IF known /\ r.call > 0 THEN [mGeofenceIds EXCEPT ![KeyOf(r.hw)] = 0]
                           ELSE mGeofenceIds

\* Mutant: new options are not saved.
MutChangedNoOptions(r) ==
    /\ mGeofences' = IF mGeofences[r.hw] = NoFence \/ r.op = "modify" THEN mGeofences
                     ELSE [mGeofences EXCEPT ![r.hw].paused = r.op = "pause"]
    /\ UNCHANGED mGeofenceIds

Changed(r) ==
    /\ mGeofences' = IF mGeofences[r.hw] = NoFence THEN mGeofences
                     ELSE IF r.op = "modify" THEN [mGeofences EXCEPT ![r.hw].version = r.version]
                     ELSE [mGeofences EXCEPT ![r.hw].paused = r.op = "pause"]
    /\ UNCHANGED mGeofenceIds

\* A request that waits was made with the number, for the fence that had it then.
NumberInUse(h) ==
    \E i \in DOMAIN fenceQueue : /\ fenceQueue[i].op \in {"remove", "pause", "resume", "modify"}
                                /\ fenceQueue[i].hw = h

\* The request was done.
FenceDone ==
    LET r == Head(fenceQueue)
        h == IF r.op \in {"add", "readd"} THEN FreeHw ELSE r.hw
    IN  /\ fenceQueue # <<>> /\ r.op # "turn" /\ fenceUp
        /\ r.op \notin {"add", "readd"} => watched[r.hw] # Unwatched
        /\ watched' = Watch(r)
        /\ CASE r.op \in {"add", "readd"} -> Saved(r, h)
             [] r.op = "remove" -> Removed(r)
             [] OTHER -> IF r.call = 0 /\ r.key # <<>> THEN UNCHANGED fenceMaps ELSE Changed(r)
        /\ fenceCalls' = IF r.call = 0 THEN fenceCalls
                         ELSE [ItemDone(fenceCalls, r.call, r.item, "success")
                                  EXCEPT ![r.call].done = @ \cup {r.item}]
        /\ fenceQueue' = Tail(fenceQueue) \o
              (IF r.op = "readd" /\ r.paused
               THEN <<[op |-> "pause", call |-> 0, hw |-> h, key |-> r.key]>> ELSE <<>>)
        /\ crossed' = \/ crossed
                      \/ r.op \in {"add", "readd"} /\ NumberInUse(h)
        /\ UNCHANGED <<fenceCbs, fencePower, fenceUp, fenceUps, nextFence, nextFenceCall, powers>>

\* Mutant: every refusal leaves the SUCCESS of getHwIdFromClient.
MutErrorLeft(r) == "success"

\* What a refusal leaves in errs: modify assigns the modem's answer only if it is SUCCESS.
ErrorLeft(r) == IF r.op = "modify" THEN "success" ELSE "failure"

\* The request was refused, or the modem was not there to do it.  A refused resume is not
\* answered.
FenceRefusal ==
    LET r == Head(fenceQueue)
        err == ErrorLeft(r)
        call == fenceCalls[r.call]
    IN  /\ fenceQueue # <<>> /\ r.op # "turn"
        /\ \/ ~fenceUp \/ r.op \in FenceRefused
           \/ r.op \notin {"add", "readd"} /\ watched[r.hw] = Unwatched
        /\ fenceQueue' = Tail(fenceQueue)
        /\ fenceCalls' = IF r.call = 0 THEN fenceCalls
                         ELSE IF r.op = "resume" THEN [fenceCalls EXCEPT ![r.call].refused = TRUE]
                         ELSE [ItemDone(fenceCalls, r.call, r.item, err)
                                  EXCEPT ![r.call].refused = TRUE]
        /\ UNCHANGED <<fenceCbs, fenceMaps, fencePower, fenceUp, watched, fenceCounts>>

\* MsgRemoveClient: stopClientSessions, then the client is erased.
RemoveFenceClient(c) ==
    LET mine == InOrder({id \in FenceId : mGeofenceIds[<<c, id>>] > 0})
    IN  /\ c \in fenceCbs
        /\ fenceCbs' = fenceCbs \ {c}
        /\ mGeofenceIds' = [k \in FenceKey |-> IF k[1] = c THEN 0 ELSE mGeofenceIds[k]]
        /\ fenceQueue' = fenceQueue \o [i \in DOMAIN mine |->
                             [op |-> "remove", call |-> 0, hw |-> mGeofenceIds[<<c, mine[i]>>]]]
        /\ UNCHANGED <<mGeofences, fencePower, fenceUp, fenceCalls, watched, fenceCounts>>

\* updateSystemPowerState: pauseOrResumeGeofences, in the order of the keys.
ChangeFencePower(state) ==
    LET ids == InOrder({id \in FenceId : \E c \in FenceClient : mGeofenceIds[<<c, id>>] > 0})
        hwOf(id) == CHOOSE h \in HwId : \E c \in FenceClient : mGeofenceIds[<<c, id>>] = h
        op == IF state = "suspend" THEN "pause" ELSE "resume"
    IN  /\ powers < MaxPower /\ RoomForFences /\ fencePower # state
        /\ powers' = powers + 1
        /\ fencePower' = state
        /\ fenceQueue' = fenceQueue \o [i \in DOMAIN ids |->
                             [op |-> op, call |-> 0, hw |-> hwOf(ids[i]), key |-> <<>>]]
        /\ UNCHANGED <<fenceCbs, fenceMaps, fenceUp, fenceCalls, watched, crossed, fenceUps,
                       nextFence, nextFenceCall>>

\* The modem starts anew, and forgets its fences.
ModemRestarts ==
    /\ fenceUps < MaxFenceUps
    /\ fenceUps' = fenceUps + 1
    /\ fenceUp' = FALSE
    /\ watched' = [h \in HwId |-> Unwatched]
    /\ UNCHANGED <<fenceCbs, fenceMaps, fencePower, fenceQueue, fenceCalls, crossed,
                   nextFence, nextFenceCall, powers>>

\* Mutant: a paused fence is not paused again.
MutAddAgainUnpaused(f) == [op |-> "readd", call |-> 0, key |-> <<f.client, f.id>>,
                           version |-> f.version, paused |-> FALSE]

AddAgain(f) == [op |-> "readd", call |-> 0, key |-> <<f.client, f.id>>,
                version |-> f.version, paused |-> f.paused]

\* MsgSSREvent: restartGeofences takes all fences out of the maps and adds them again.
EngineUpFences ==
    LET again == InOrder(Fences)
    IN  /\ ~fenceUp
        /\ fenceUp' = TRUE
        /\ crossed' = \/ crossed
                      \/ fencePower = "suspend" /\ Fences # {}
                      \/ \E i \in DOMAIN fenceQueue : fenceQueue[i].op \notin {"turn", "add", "readd"}
        /\ IF fencePower = "suspend" THEN UNCHANGED <<fenceMaps, fenceQueue>>
           ELSE /\ mGeofences' = [h \in HwId |-> NoFence]
                /\ mGeofenceIds' = IF Fences = {} THEN mGeofenceIds ELSE [k \in FenceKey |-> 0]
                /\ fenceQueue' = fenceQueue \o [i \in DOMAIN again |->
                                     AddAgain(mGeofences[again[i]])]
        /\ UNCHANGED <<fenceCbs, fencePower, fenceCalls, watched, fenceUps, nextFence, nextFenceCall, powers>>

FenceNext ==
    \/ \E c \in FenceClient, ids \in UNION {[1..k -> FenceId] : k \in 1..MaxPerCall} :
          \/ CallFences("add", c, ids, 0)
          \/ \E op \in {"remove", "pause", "resume"} : CallFences(op, c, ids, 0)
          \/ CallFences("modify", c, ids, 1)
    \/ TakeTurn \/ FenceDone \/ FenceRefusal
    \/ \E c \in FenceClient : RemoveFenceClient(c)
    \/ \E state \in {"suspend", "resume"} : ChangeFencePower(state)
    \/ ModemRestarts \/ EngineUpFences

FenceSpec == FenceInit /\ [][FenceNext]_fenceVars

FenceTypeOK ==
    /\ fenceCbs \subseteq FenceClient
    /\ mGeofenceIds \in [FenceKey -> 0..MaxFence]
    /\ \A h \in HwId : mGeofences[h] # NoFence => KeyOf(h) \in FenceKey
    /\ \A h \in HwId : watched[h] \in [paused : BOOLEAN, version : -1..1]
    /\ \A n \in FenceCall : Len(fenceCalls[n].errs) = Len(fenceCalls[n].ids)

\* Numbers are the modem's own, and it gives them out again: all after a restart, and
\* that of a fence it has removed.  A request made with such a number and done after that
\* hits any fence, and fences are not added again when the modem restarts while the device
\* is suspended.  IdsNameFences is about the runs in which neither has happened.

\* Each fence of the clients is found under the number that is saved for it: no other
\* fence has taken its place in the other map.
IdsNameFences ==
    ~crossed => \A k \in FenceKey : LET h == mGeofenceIds[k]
                                    IN  h > 0 => mGeofences[h] # NoFence /\ KeyOf(h) = k

\* The adapter knows each fence that the modem watches, with the options it has there, and
\* a fence it takes for paused is paused: whatever has crossed, and whatever is under way.
WatchedIsKnown ==
    \A h \in HwId : watched[h] # Unwatched =>
       /\ mGeofences[h] # NoFence
       /\ mGeofences[h].version = watched[h].version
       /\ mGeofences[h].paused => watched[h].paused

\* A call has parts that wait for their turn or for the modem.
UnderWay(n) == \E i \in DOMAIN fenceQueue : fenceQueue[i].call = n

\* No call is answered twice; and once none of its parts is under way, each call of a
\* client that is still there was answered, but for a resume of which a part was refused.
FenceCallsAnswered ==
    \A n \in FenceCall : LET call == fenceCalls[n]
       IN  call.op # "none" /\ call.client \in fenceCbs =>
              /\ call.replies <= 1
              /\ UnderWay(n) \/ call.replies = 1 \/ (call.op = "resume" /\ call.refused)

\* The answer to a call tells each fence its own result, in the place that the fence has in
\* the call: SUCCESS where the modem has done what was asked, and a failure where it has not.
\* Not so for modify and resume, whose refusals leave the SUCCESS of getHwIdFromClient, nor
\* when the last fence of the call is unknown: that is answered before the modem was asked.
OwnResults ==
    \A n \in FenceCall :
       LET told == fenceCalls[n].told
       IN  /\ fenceCalls[n].op \in {"add", "remove", "pause"}
           /\ told # <<>> /\ told[Len(told)] # "idUnknown"
           => \A i \in DOMAIN told : told[i] = "success" <=> i \in fenceCalls[n].done

\* The modem has done op for fence id, in call n.
DoneFor(n, op, id) == fenceCalls[n].op = op /\ \E i \in fenceCalls[n].done : fenceCalls[n].ids[i] = id

\* A fence that was added is kept, through a restart of the modem: as long as its client is
\* there and has not asked for its removal, the modem watches it once everything is quiet,
\* and it is paused if the client has paused it and not resumed it since.  This is about the
\* runs in which no number has crossed and the power state has not paused fences as well.
FencesKept ==
    fenceQueue = <<>> /\ fenceUp /\ ~crossed /\ powers = 0 =>
       \A n \in FenceCall, id \in FenceId :
          /\ DoneFor(n, "add", id) /\ fenceCalls[n].client \in fenceCbs
          /\ ~\E m \in FenceCall : fenceCalls[m].op = "remove" /\ \E i \in DOMAIN fenceCalls[m].ids : fenceCalls[m].ids[i] = id
          => LET h == mGeofenceIds[<<fenceCalls[n].client, id>>]
                 paused == \E m \in FenceCall : /\ DoneFor(m, "pause", id)
                                                /\ \A k \in m..MaxFenceCalls : ~DoneFor(k, "resume", id)
             IN  h > 0 /\ watched[h] # Unwatched /\ watched[h].paused = paused

\* What the client is told of its calls is true, and what was done for it lasts.
FenceAnswersHold == OwnResults /\ FencesKept

\* The maps of the adapter and the fences of the modem belong together.
FencesTracked == IdsNameFences /\ WatchedIsKnown
=============================================================================
