------------------------------ MODULE ApiClient ------------------------------
(***************************************************************************)
(* LocationAPIClientBase: what a client built on LocationAPI inherits.  It *)
(* turns calls into sessions of the adapters and finds, for an answer that *)
(* carries the number of a session only, the call it belongs to: from one  *)
(* queue of requests for tracking, one that all numbered sessions share,   *)
(* one for geofences and one for network initiated requests (NI).  Calls   *)
(* hold mMutex; so does the search for the request of an answer, but what  *)
(* the request then does with the answer runs without it.                  *)
(*   Behind it are the adapters, on one thread: they come to the calls,    *)
(* answer some at once and others when the modem has answered, so that     *)
(* answers for one session come in another order than its calls.           *)
(***************************************************************************)
EXTENDS Naturals, Sequences, FiniteSets

CONSTANTS
    SessionIds,            \* the clients' own numbers of sessions
    FenceIds,              \* the clients' own numbers of geofences
    NiIds,                 \* numbers of NI requests; some may be numbers of sessions too
    Modes,                 \* the modes of numbered sessions that clients ask for
    MaxSession,            \* bound: sessions the adapters number
    MaxOwed,               \* bound: answers outstanding, and requests in a queue
    MayFail                \* what the modem may refuse

GeofenceSession == 999     \* GEOFENCE_SESSION_ID
NoSession == 0

ASSUME ClientNumbers ==
    /\ MaxSession \in Nat /\ MaxSession < GeofenceSession
    /\ NoSession \notin NiIds /\ GeofenceSession \notin NiIds
    /\ IsFiniteSet(FenceIds)

\* SESSION_MODE_NONE is as ON_FULL here; trips are in Batching only.
Mode == {"onFix", "onFull"}
QueueOf == {"tracking", "session", "geofence", "ni"}
FenceOps == {"addFence", "removeFence", "modifyFence", "pauseFence", "resumeFence"}
StartOps == {"startTracking", "startBatching"}
StopOps == {"stopTracking", "stopBatching"}

VARIABLES
    mLocationAPI,          \* the pointer is set
    mRequestQueues,        \* for each queue its session and its requests
    mTracking,
    mSessionBiDict,        \* id -> session and mode; the inverse is read off it
    mGeofenceBiDict,       \* id -> session
    forgetting,            \* the session that onResponse is about to remove
    owed,                  \* calls without an answer, in the order they were made
    running,               \* sessions that GnssAdapter and BatchingAdapter have
    nextSession,           \* generateSessionId()
    irregular,             \* history: numbered sessions are out of step (Section 5 of README)
    resumeLost             \* history: a refused resumption was not answered

clientState == <<mLocationAPI, mRequestQueues, mTracking, mSessionBiDict, mGeofenceBiDict>>
clientRest == <<mLocationAPI, mTracking, mGeofenceBiDict, nextSession>>
clientVars == <<clientState, forgetting, owed, running, nextSession, irregular, resumeLost>>

NoEntity == [session |-> NoSession, mode |-> "none"]
Idle == [session |-> NoSession, requests |-> <<>>]
Request(s, call) == [session |-> s, call |-> call]
NoRequest == Request(NoSession, "none")

ClientInit ==
    /\ mLocationAPI = TRUE
    /\ mRequestQueues = [q \in QueueOf |-> Idle]
    /\ mTracking = FALSE
    /\ mSessionBiDict = [i \in SessionIds |-> NoEntity]
    /\ mGeofenceBiDict = [f \in FenceIds |-> NoSession]
    /\ forgetting = NoSession
    /\ owed = <<>>
    /\ running = {}
    /\ nextSession = 1
    /\ irregular = FALSE /\ resumeLost = FALSE

-----------------------------------------------------------------------------
(* Calls of the client *)

\* RequestQueue::reset and push.
Reset(q, s) == [mRequestQueues EXCEPT ![q] = [session |-> s, requests |-> <<>>]]
Push(queues, q, s, call) == [queues EXCEPT ![q].requests = Append(@, Request(s, call))]

\* What an adapter is asked: op, for the client's call, or for none; asked says that the
\* adapter has come to it and asked the modem.
Owe(q, s, op, call) == [queue |-> q, session |-> s, op |-> op, call |-> call, asked |-> FALSE]

Has(id) == mSessionBiDict[id] # NoEntity
HasSession(s) == \E id \in SessionIds : mSessionBiDict[id].session = s /\ Has(id)
Named == {s \in 1..MaxSession : HasSession(s)}
RemoveSession(s) == [id \in SessionIds |->
                        IF mSessionBiDict[id].session = s THEN NoEntity ELSE mSessionBiDict[id]]
StartOf(mode) == IF mode = "onFix" THEN "startTracking" ELSE "startBatching"
StopOf(mode) == IF mode = "onFix" THEN "stopTracking" ELSE "stopBatching"
UpdateOf(mode) == IF mode = "onFix" THEN "updateTracking" ELSE "updateBatching"

Fresh == nextSession <= MaxSession
Callable == mLocationAPI /\ Len(owed) < MaxOwed
            /\ \A q \in QueueOf : Len(mRequestQueues[q].requests) < MaxOwed

\* locAPIStartTracking: a start while mTracking is set does nothing and returns SUCCESS.
StartTracking ==
    /\ Callable /\ Fresh /\ ~mTracking
    /\ mRequestQueues' = Push(Reset("tracking", nextSession), "tracking", nextSession, "startTracking")
    /\ mTracking' = TRUE
    /\ owed' = Append(owed, Owe("tracking", nextSession, "startTracking", "startTracking"))
    /\ nextSession' = nextSession + 1
    /\ UNCHANGED <<mLocationAPI, mSessionBiDict, mGeofenceBiDict, forgetting, running, irregular, resumeLost>>

\* Mutant: the request enters the queue only while tracking is on.
MutChangeTracking(op) ==
    LET s == mRequestQueues["tracking"].session
    IN  /\ Callable /\ s # NoSession
        /\ mRequestQueues' = IF mTracking THEN Push(mRequestQueues, "tracking", s, op) ELSE mRequestQueues
        /\ mTracking' = (mTracking /\ op # "stopTracking")
        /\ owed' = Append(owed, Owe("tracking", s, op, op))
        /\ UNCHANGED <<mLocationAPI, mSessionBiDict, mGeofenceBiDict, forgetting, running,
                       nextSession, irregular, resumeLost>>

\* locAPIStopTracking and locAPIUpdateTrackingOptions look at the queue's session only,
\* which stays when tracking is stopped.
ChangeTracking(op) ==
    LET s == mRequestQueues["tracking"].session
    IN  /\ Callable /\ s # NoSession
        /\ mRequestQueues' = Push(mRequestQueues, "tracking", s, op)
        /\ mTracking' = (mTracking /\ op # "stopTracking")
        /\ owed' = Append(owed, Owe("tracking", s, op, op))
        /\ UNCHANGED <<mLocationAPI, mSessionBiDict, mGeofenceBiDict, forgetting, running,
                       nextSession, irregular, resumeLost>>

\* History: the client calls about s while answers for numbered sessions are outstanding or
\* being taken in, other than those that tell of batched positions of s before it is stopped.
Crosses(s, op) ==
    \/ forgetting # NoSession
    \/ \E i \in 1..Len(owed) :
          /\ owed[i].queue = "session"
          /\ ~(owed[i].op = "getBatched" /\ owed[i].session = s /\ op \in {"getBatched", "stopBatching"})

\* A call about a numbered session, its request and what the adapters are asked for it.
SessionCall(s, call, ops) ==
    /\ Callable
    /\ owed' = owed \o ops
    /\ irregular' = (irregular \/ Crosses(s, call))
    /\ UNCHANGED <<mLocationAPI, mTracking, mGeofenceBiDict, forgetting, running, resumeLost>>

StartSession(id, mode) ==
    LET queues == IF mode = "onFix" THEN mRequestQueues
                  ELSE [mRequestQueues EXCEPT !["session"].session = nextSession]
    IN  /\ Fresh /\ ~Has(id)
        /\ SessionCall(nextSession, StartOf(mode),
                       <<Owe("session", nextSession, StartOf(mode), StartOf(mode))>>)
        /\ mRequestQueues' = Push(queues, "session", nextSession, StartOf(mode))
        /\ mSessionBiDict' = [mSessionBiDict EXCEPT ![id] = [session |-> nextSession, mode |-> mode]]
        /\ nextSession' = nextSession + 1

\* locAPIStopSession, locAPIGetBatchedLocations, and locAPIUpdateSessionOptions when the
\* session stays one of tracking or of batching: one request and one question.
AskSession(id, op) ==
    LET s == mSessionBiDict[id].session
    IN  /\ SessionCall(s, op, <<Owe("session", s, op, op)>>)
        /\ mRequestQueues' = Push(mRequestQueues, "session", s, op)
        /\ UNCHANGED <<mSessionBiDict, nextSession>>

StopSession(id) == Has(id) /\ AskSession(id, StopOf(mSessionBiDict[id].mode))
UpdateSession(id, mode) == Has(id) /\ mSessionBiDict[id].mode = mode /\ AskSession(id, UpdateOf(mode))
GetBatchedLocations(id) == Has(id) /\ mSessionBiDict[id].mode # "onFix" /\ AskSession(id, "getBatched")

\* locAPIUpdateSessionOptions across the two: the old session is stopped without a
\* request of its own, and forgotten at once; the update waits for the new one's start.
SwitchSession(id, mode) ==
    LET e == mSessionBiDict[id]
    IN  /\ Fresh /\ Has(id) /\ e.mode # mode
        /\ SessionCall(nextSession, UpdateOf(mode),
                       <<Owe("session", e.session, StopOf(e.mode), "none"),
                         Owe("session", nextSession, StartOf(mode), UpdateOf(mode))>>)
        /\ mRequestQueues' = [Push(mRequestQueues, "session", nextSession, UpdateOf(mode)) EXCEPT
               !["session"].session = IF mode = "onFix" THEN NoSession ELSE nextSession]
        /\ mSessionBiDict' = [mSessionBiDict EXCEPT ![id] = [session |-> nextSession, mode |-> mode]]
        /\ nextSession' = nextSession + 1

\* A call on geofences, which GeofenceAdapter knows by numbers of their own.
FenceRequest(queues, op) ==
    /\ Callable
    /\ mRequestQueues' = Push(queues, "geofence", GeofenceSession, op)
    /\ owed' = Append(owed, Owe("geofence", GeofenceSession, op, op))
    /\ UNCHANGED <<mLocationAPI, mTracking, mSessionBiDict, forgetting, running, irregular, resumeLost>>

\* locAPIAddGeofences; clients number a fence anew once they removed it.
AddGeofences(ids) ==
    LET numbers == CHOOSE n \in [ids -> nextSession..(nextSession + Cardinality(ids) - 1)] :
                       \A i, j \in ids : n[i] = n[j] => i = j
    IN  /\ ids # {} /\ nextSession + Cardinality(ids) - 1 <= MaxSession
        /\ \A f \in ids : mGeofenceBiDict[f] = NoSession
        /\ FenceRequest(IF mRequestQueues["geofence"].session # GeofenceSession
                     THEN Reset("geofence", GeofenceSession) ELSE mRequestQueues, "addFence")
        /\ mGeofenceBiDict' = [f \in FenceIds |-> IF f \in ids THEN numbers[f] ELSE mGeofenceBiDict[f]]
        /\ nextSession' = nextSession + Cardinality(ids)

\* The other four calls ask the adapter about those of the ids that are known; a removal
\* drops their names whatever the adapter will say.
ChangeGeofences(ids, op) ==
    LET known == {f \in ids : mGeofenceBiDict[f] # NoSession}
    IN  /\ mRequestQueues["geofence"].session = GeofenceSession /\ known # {}
        /\ FenceRequest(mRequestQueues, op)
        /\ mGeofenceBiDict' = [f \in FenceIds |-> IF op = "removeFence" /\ f \in known THEN NoSession
                                                  ELSE mGeofenceBiDict[f]]
        /\ UNCHANGED nextSession

\* The adapter is asked before the request is queued; both under mMutex.  NI requests and
\* sessions are numbered apart, both from small numbers on (GnssAdapter.cpp:4921).
GnssNiResponse(id) ==
    /\ Callable
    /\ mRequestQueues' = Push(Reset("ni", id), "ni", id, "ni")
    /\ owed' = Append(owed, Owe("ni", id, "ni", "ni"))
    /\ irregular' = (irregular \/ id \in 1..MaxSession)
    /\ UNCHANGED <<mLocationAPI, mTracking, mSessionBiDict, mGeofenceBiDict, forgetting, running,
                   nextSession, resumeLost>>

\* destroy() drops every request; the adapters' answers may still come.
DestroyClient ==
    /\ mLocationAPI
    /\ mLocationAPI' = FALSE
    /\ mRequestQueues' = [q \in QueueOf |-> Idle]
    /\ UNCHANGED <<mTracking, mSessionBiDict, mGeofenceBiDict, forgetting, owed, running, nextSession, irregular, resumeLost>>

-----------------------------------------------------------------------------
(* Answers *)

\* getRequestBySession: the queue that an answer for a session is matched with; the answer
\* of a call on geofences names none, and takes the next request for geofences.
QueueFor(a) ==
    LET queue == [q \in QueueOf |-> mRequestQueues[q].session = a.session]
        waits == [q \in QueueOf |-> mRequestQueues[q].requests # <<>>]
    IN  IF a.queue = "geofence" THEN IF queue["geofence"] /\ waits["geofence"] THEN "geofence" ELSE "none"
        ELSE IF queue["tracking"] /\ waits["tracking"] THEN "tracking"
        ELSE IF ~queue["tracking"] /\ queue["ni"] /\ waits["ni"] THEN "ni"
        ELSE IF HasSession(a.session) /\ waits["session"] THEN "session"
        ELSE "none"

\* The request that an answer finds.
RequestFor(a) ==
    IF QueueFor(a) = "none" THEN NoRequest ELSE Head(mRequestQueues[QueueFor(a)].requests)

\* Mutant: any error forgets the session.
MutForgetsOnAnyError(call, error) ==
    \/ error /\ call # "none"
    \/ ~error /\ call \in StopOps

\* onResponse of the request: a start that failed and a stop that succeeded forget the session.
Forgets(call, error) ==
    \/ error /\ call \in StartOps
    \/ ~error /\ call \in StopOps

\* onResponseCb and onCollectiveResponseCb find the request and take it from its queue under
\* mMutex; onResponse then runs without it, and may still have to forget the session.
Deliver(a, error) ==
    /\ mRequestQueues' = IF QueueFor(a) = "none" THEN mRequestQueues
                         ELSE [mRequestQueues EXCEPT ![QueueFor(a)].requests = Tail(@)]
    /\ forgetting' = IF Forgets(RequestFor(a).call, error) THEN a.session ELSE NoSession

\* The end of onResponse: removeSession.
Forget ==
    /\ forgetting # NoSession
    /\ mSessionBiDict' = RemoveSession(forgetting)
    /\ forgetting' = NoSession
    /\ UNCHANGED <<clientRest, mRequestQueues, owed, running, irregular, resumeLost>>

Without(i) == [j \in 1..(Len(owed) - 1) |-> IF j < i THEN owed[j] ELSE owed[j + 1]]

OfGnss(a) == a.op \in {"startTracking", "updateTracking", "stopTracking", "ni"}
\* A session that is not saved is unknown, but to its start.
NotSaved(a) == a.op \in StopOps \cup {"updateTracking", "updateBatching", "getBatched"}
              /\ a.session \notin running

\* The adapters' thread comes to a call, in the order of its messages.  BatchingAdapter and
\* GeofenceAdapter put messages aside while the modem's capabilities are unknown, and send
\* them again behind later ones.
ComesTo(i) ==
    /\ forgetting = NoSession /\ ~owed[i].asked
    /\ OfGnss(owed[i]) => \A j \in 1..(i - 1) : OfGnss(owed[j]) => owed[j].asked

\* History: a call is come to before an earlier one about the same session.
Overtakes(i) == \E j \in 1..(i - 1) : ~owed[j].asked /\ owed[j].session = owed[i].session
                                      /\ owed[i].queue = "session"

\* What coming to a call does to the sessions: a start is saved first and a stop erased
\* first; an update of batching is a stop, then a start.
SavedAfter(a) == IF a.op \in StartOps THEN running \cup {a.session}
            ELSE IF a.op \in StopOps \cup {"updateBatching"} THEN running \ {a.session}
            ELSE running

\* The modem must be asked.
AskModem(i) ==
    /\ ComesTo(i) /\ owed[i].op # "ni" /\ ~NotSaved(owed[i])
    /\ running' = SavedAfter(owed[i])
    /\ owed' = [owed EXCEPT ![i].asked = TRUE]
    /\ irregular' = (irregular \/ Overtakes(i))
    /\ UNCHANGED <<clientRest, mRequestQueues, mSessionBiDict, forgetting, resumeLost>>

\* The modem need not be asked: it serves another time based session that is as fast; the
\* session is unknown; or none of the fences is known.
AnswerAtOnce(i) ==
    LET a == owed[i]
    IN  /\ ComesTo(i)
        /\ OfGnss(a) \/ a.op \in FenceOps \/ (a.op = "getBatched" /\ NotSaved(a))
        /\ Deliver(a, NotSaved(a))
        /\ running' = SavedAfter(a)
        /\ owed' = Without(i)
        /\ irregular' = (irregular \/ Overtakes(i))
        /\ UNCHANGED <<clientRest, mSessionBiDict, resumeLost>>

\* BatchingAdapter says nothing to a stop or an update of a session it does not have.
SayNothing(i) ==
    /\ ComesTo(i) /\ owed[i].op \in {"stopBatching", "updateBatching"} /\ NotSaved(owed[i])
    /\ owed' = Without(i)
    /\ irregular' = (irregular \/ Overtakes(i))
    /\ UNCHANGED <<clientRest, mRequestQueues, mSessionBiDict, forgetting, running, resumeLost>>

\* What the modem's answer does to the sessions: a start that it refuses is erased; what an
\* update or a stop of batching erased or changed is saved again if it refuses; a stopped
\* session of batching that is updated is started.
Settles(a, error) ==
    IF error THEN IF a.op \in StartOps THEN running \ {a.session}
                  ELSE IF a.op \in {"updateTracking", "stopBatching", "updateBatching"}
                  THEN running \cup {a.session} ELSE running
    ELSE IF a.op = "updateBatching" THEN running \cup {a.session} ELSE running

\* History: the modem refuses a part of an update, the client's call is told otherwise or not
\* at all; it refuses a stop of tracking, that is erased already; or the update of a session that
\* was stopped meanwhile, and which is saved again.
OutOfStep(a) == \/ a.op # a.call \/ a.op = "stopTracking"
                \/ a.op = "updateTracking" /\ a.session \notin running

\* The modem answers what it was asked for one session in order, and the adapter passes it on.
\* An update of batching is answered for its stop, and then again for its start.
ModemAnswers(i, error) ==
    LET a == owed[i]
    IN  /\ a.asked /\ forgetting = NoSession
        /\ \A j \in 1..(i - 1) : ~(owed[j].asked /\ owed[j].session = a.session)
        /\ error => a.op \in MayFail
        /\ ~(error /\ a.op = "resumeFence")
        /\ Deliver(a, error)
        /\ running' = Settles(a, error)
        /\ owed' = IF a.op = "updateBatching" /\ ~error
                   THEN [owed EXCEPT ![i].op = "startBatching", ![i].call = "none"] ELSE Without(i)
        /\ irregular' = (irregular \/ (error /\ OutOfStep(a)))
        /\ UNCHANGED <<clientRest, mSessionBiDict, resumeLost>>

\* A refused resumption of fences is not answered.
ResumeRefused(i) ==
    /\ owed[i].asked /\ forgetting = NoSession
    /\ owed[i].op = "resumeFence" /\ "resumeFence" \in MayFail
    /\ owed' = Without(i)
    /\ resumeLost' = TRUE
    /\ UNCHANGED <<clientRest, mRequestQueues, mSessionBiDict, forgetting, running, irregular>>

ClientNext ==
    \/ StartTracking
    \/ \E op \in {"stopTracking", "updateTracking"} : ChangeTracking(op)
    \/ \E id \in SessionIds :
          \/ StopSession(id)
          \/ GetBatchedLocations(id)
          \/ \E m \in Modes : StartSession(id, m) \/ UpdateSession(id, m) \/ SwitchSession(id, m)
    \/ \E ids \in SUBSET FenceIds :
          AddGeofences(ids) \/ \E op \in FenceOps \ {"addFence"} : ChangeGeofences(ids, op)
    \/ \E id \in NiIds : GnssNiResponse(id)
    \/ DestroyClient
    \/ Forget
    \/ \E i \in 1..Len(owed) :
          \/ AskModem(i) \/ AnswerAtOnce(i) \/ SayNothing(i) \/ ResumeRefused(i)
          \/ \E error \in BOOLEAN : ModemAnswers(i, error)

ClientSpec == ClientInit /\ [][ClientNext]_clientVars

-----------------------------------------------------------------------------
(* Properties *)

ClientTypeOK ==
    /\ \A q \in QueueOf : Len(mRequestQueues[q].requests) <= MaxOwed
    /\ mSessionBiDict \in [SessionIds -> [session : 1..MaxSession, mode : Mode] \cup {NoEntity}]
    /\ mGeofenceBiDict \in [FenceIds -> 0..MaxSession]
    /\ running \subseteq 1..MaxSession /\ forgetting \in 0..MaxSession
    /\ nextSession \in 1..(MaxSession + 1)

OwedTo(q, s) == {i \in 1..Len(owed) : owed[i].queue = q /\ owed[i].session = s}
Waiting(q) == Len(mRequestQueues[q].requests)

\* As many requests wait in the tracking queue as answers are owed for its session, unless an
\* NI request has the same number.
TrackingMatched ==
    LET s == mRequestQueues["tracking"].session
    IN  s \notin NiIds => Waiting("tracking") = Cardinality(OwedTo("tracking", s))

\* So it is for geofences, until a resumption is refused.
FencesMatched ==
    mRequestQueues["geofence"].session = GeofenceSession /\ ~resumeLost =>
        Waiting("geofence") = Cardinality(OwedTo("geofence", GeofenceSession))

\* No NI request waits for an answer that will not come.
NiMatched ==
    LET s == mRequestQueues["ni"].session
    IN  s \notin 1..MaxSession => Waiting("ni") <= Cardinality(OwedTo("ni", s))

\* An answer for tracking or fences, whenever it comes, finds a call of its own session, or
\* none when the client has dropped that call.
SessionOfCallback ==
    \A i \in 1..Len(owed) :
        owed[i].queue \in {"tracking", "geofence"} /\ owed[i].session \notin NiIds =>
            RequestFor(owed[i]).session \in {owed[i].session, NoSession}

\* In whatever order the adapters and the modem answer: every answer for tracking, geofences
\* and NI finds a request of its session, and every request gets one.
AnswersMatched == TrackingMatched /\ FencesMatched /\ NiMatched /\ SessionOfCallback

\* All answers have been given and taken in.
AllAnswered == owed = <<>> /\ forgetting = NoSession

\* Calls on numbered sessions that are owed an answer, in their order.
CallsOwed ==
    LET own == SelectSeq(owed, LAMBDA a : a.queue = "session" /\ a.call # "none")
    IN  [k \in 1..Len(own) |-> Request(own[k].session, own[k].call)]

\* While a client of numbered sessions calls in turn: the queue they share has the requests
\* that are owed an answer, in their order, and the first answer finds the call it is for.
NumberedMatched ==
    ~irregular /\ mLocationAPI =>
        /\ mRequestQueues["session"].requests = CallsOwed
        /\ \A i \in 1..Len(owed) :
              owed[i].queue = "session" /\ (\A j \in 1..(i - 1) : owed[j].queue # "session") =>
                  RequestFor(owed[i]) = IF owed[i].call = "none" THEN NoRequest
                                        ELSE Request(owed[i].session, owed[i].call)

\* And in the end the adapters have the sessions it has a name for, and no others but the
\* one of the tracking queue, over refused calls, updates and switches between the adapters.
NumberedKept == ~irregular /\ mLocationAPI /\ AllAnswered =>
                   running \ {mRequestQueues["tracking"].session} = Named

\* Sessions with numbers of the client's own keep step with the adapters.
SessionsInStep == NumberedMatched /\ NumberedKept

\* Whatever the client calls when: a session that has a name when all is answered is one the
\* adapters have, so that ALREADY_STARTED means what LocationAPI.h:102 says.
NamedSessionRuns == mLocationAPI /\ AllAnswered => Named \subseteq running
=============================================================================
