------------------------------- MODULE Batching -------------------------------
(***************************************************************************)
(* BatchingAdapter (gps/batching): sessions that let the modem collect     *)
(* positions.  A routine session reports when the modem's memory is full,  *)
(* a session without automatic reports on demand, and a trip when a        *)
(* distance is covered; the modem has one trip, that all trips of the      *)
(* clients share.  All state belongs to the adapter's thread; the modem    *)
(* works off its requests in their order, and the answer to each is again  *)
(* a message for that thread.                                              *)
(***************************************************************************)
EXTENDS Integers, Sequences, FiniteSets, FiniteSetsExt, SequencesExt

CONSTANTS
    BatchClient,           \* clients with a batchingCb
    BatchOptions,          \* the options they ask for: mode, distance and interval
    MaxBatch,              \* bound: sessions numbered
    MaxAsked,              \* bound: requests the modem has not answered
    MaxUps,                \* bound: starts of the modem
    MaxBatchUpdates,       \* bound: calls of updateBatchingOptions
    BatchFails,            \* requests the modem may refuse
    SuspendsBusy,          \* the device may be suspended while trips or requests are under way
    Width                  \* arithmetic is modulo this, 2^32 in the code

BatchId == 1..MaxBatch
NoBatch == [client |-> "none", options |-> "none"]
NoTrip == [ongoing |-> -1]
NoModemTrip == [distance |-> 0, interval |-> 0, covered |-> 0, ended |-> FALSE]
ModemTrip(d, t) == [distance |-> d, interval |-> t, covered |-> 0, ended |-> FALSE]

VARIABLES
    batchingCb,            \* mClientData: the clients an adapter can answer to
    mBatchingSessions,     \* id -> client and options
    mTripSessions,         \* id -> accumulated distances, distance and interval
    mOngoingTrip,          \* mOngoingTripDistance and mOngoingTripTBFInterval
    mTripDropped,          \* which of mTripWithOngoing{TBF,TripDistance}Dropped are set
    batchFull,             \* LOC_API_ADAPTER_BIT_BATCH_FULL is in the event mask
    mBatchPower,           \* mSystemPowerState
    batchEngineKnown,      \* isEngineCapabilitiesKnown()
    batchPending,          \* mPendingMsgs, or what of it is sent again
    asked,                 \* requests of the modem without an answer
    modemUp, modemBatches, modemTrip, \* the modem: it runs, its sessions, its trip
    nextBatch, ups, batchUpdates,
    slips,                 \* history: what has put the books of the trips out of step with the modem
    calm                   \* the run has trips, and nothing happens while the modem owes an answer

batchModem == <<modemUp, modemBatches, modemTrip>>
batchAdapter == <<mBatchingSessions, mTripSessions, mOngoingTrip, mTripDropped, batchFull, asked, slips>>
batchCounts == <<nextBatch, ups, batchUpdates, calm>>
batchRest == <<batchingCb, mBatchPower, batchEngineKnown, batchPending>>
batchVars == <<batchAdapter, batchRest, batchModem, batchCounts>>

BatchInit ==
    /\ batchingCb = BatchClient
    /\ mBatchingSessions = [i \in BatchId |-> NoBatch]
    /\ mTripSessions = [i \in BatchId |-> NoTrip]
    /\ mOngoingTrip = [distance |-> 0, interval |-> 0]
    /\ mTripDropped = {}
    /\ batchFull = FALSE
    /\ mBatchPower = "unknown"
    /\ batchEngineKnown = FALSE
    /\ batchPending = <<>>
    /\ asked = <<>> /\ slips = {}
    /\ modemUp = FALSE /\ modemBatches = {} /\ modemTrip = NoModemTrip
    /\ nextBatch = 1 /\ ups = 0 /\ batchUpdates = 0
    /\ calm \in BOOLEAN

Minus(a, b) == (a - b) % Width
Plus(a, b) == (a + b) % Width

Trips == {i \in BatchId : mTripSessions[i] # NoTrip}
TripsOf(trips) == {i \in BatchId : trips[i] # NoTrip}

\* autoReportBatchingSessionsCount, of given maps: a trip in both counts twice.
AutoReports(sessions, trips) ==
    Cardinality({i \in BatchId : sessions[i] # NoBatch /\ sessions[i].options.mode # "noAutoReport"})
    + Cardinality(TripsOf(trips))

\* What the loops over mTripSessions find: 0 counts as not set yet, so a trip with no
\* distance left is passed over when another follows it in the map's order.
LeastOf(trips, Value(_)) ==
    FoldLeft(LAMBDA least, i : IF least = 0 \/ least > Value(trips[i]) THEN Value(trips[i]) ELSE least,
             0, SetToSortSeq(TripsOf(trips), <))
LeastRemaining(trips) == LeastOf(trips, LAMBDA t : Minus(t.distance, t.this))
LeastInterval(trips) == LeastOf(trips, LAMBDA t : t.interval)

\* The adapter's state as a record, which the functions below transform one after the
\* other, as the C++ functions call each other.
Now == [sessions |-> mBatchingSessions, trips |-> mTripSessions, ongoing |-> mOngoingTrip,
        dropped |-> mTripDropped, full |-> batchFull, asked |-> asked,
        slips |-> slips]
Becomes(s) == /\ mBatchingSessions' = s.sessions /\ mTripSessions' = s.trips
              /\ mOngoingTrip' = s.ongoing /\ mTripDropped' = s.dropped
              /\ batchFull' = s.full /\ asked' = s.asked /\ slips' = s.slips

\* The trips' books and the modem may get out of step: the modem starts again while a trip
\* counts from a point midway, one that is updated beside another has its new options and
\* the others' least worked out at once, and what a trip has left may be taken from books
\* that do not know what was covered since.
Slip(slips_, kind, happens) == IF happens THEN slips_ \cup {kind} ELSE slips_

Ask(s, request) == [s EXCEPT !.asked = Append(@, request)]
Counted(s) == AutoReports(s.sessions, s.trips)

\* startBatching: saved first, removed again if the modem refuses.
StartBatching(s, i, c, o) ==
    Ask([s EXCEPT !.full = @ \/ (o.mode # "noAutoReport" /\ Counted(s) = 0),
                  !.sessions[i] = [client |-> c, options |-> o]],
        [op |-> "start", id |-> i, client |-> c, options |-> o])

\* startTripBatchingMultiplex: the first trip starts the modem's; another one first asks
\* how far that is, and is not entered in mBatchingSessions.
StartTrip(s, i, c, o) ==
    IF TripsOf(s.trips) = {}
    THEN Ask([s EXCEPT !.full = @ \/ Counted(s) = 0,
                       !.sessions[i] = [client |-> c, options |-> o], !.slips = {},
                       !.trips[i] = [ongoing |-> 0, this |-> 0, onRestart |-> 0,
                                     distance |-> o.distance, interval |-> o.interval]],
             [op |-> "startTrip", id |-> i, client |-> c, options |-> o])
    ELSE Ask(s, [op |-> "query", id |-> i, client |-> c, options |-> o])

StartAny(s, i, c, o) == IF o.mode = "trip" THEN StartTrip(s, i, c, o) ELSE StartBatching(s, i, c, o)

Routine == [mode |-> "routine", distance |-> 0, interval |-> 0]

\* stopBatching: the session is removed first; if the modem refuses it comes back, with
\* the options of the restart, which a plain stop leaves at the default of the type.
StopBatching(s, i, restart, o, erase) ==
    IF s.sessions[i] = NoBatch THEN s
    ELSE Ask([s EXCEPT !.sessions[i] = IF erase THEN NoBatch ELSE @],
             [op |-> "stop", id |-> i, client |-> s.sessions[i].client, options |-> o,
              had |-> s.sessions[i].options, restart |-> restart, erase |-> erase])

\* restartTripBatching: without trips the modem's is stopped; otherwise the least distance
\* and interval are noted and the modem is asked how far it is.
RestartTrip(s, useQuery, covered) ==
    IF TripsOf(s.trips) = {}
    THEN LET t == Ask([s EXCEPT !.ongoing = [distance |-> 0, interval |-> 0]], [op |-> "stopTrips"])
         IN  [t EXCEPT !.full = @ /\ Counted(t) > 0]
    ELSE Ask(s, [op |-> "queryRestart", useQuery |-> useQuery, covered |-> covered,
                 distance |-> LeastRemaining(s.trips), interval |-> LeastInterval(s.trips)])

\* stopTripBatchingMultiplexCommon.  A trip that has completed meanwhile is looked up all
\* the same: what the code then reads is not defined, here nothing is dropped for it.
StopTripCommon(s, i, c, restart, o, erase) ==
    LET trip == s.trips[i]
        dropped == IF trip = NoTrip THEN {}
                   ELSE {d \in {"interval", "distance"} : trip[d] = s.ongoing[d]}
        t == [s EXCEPT !.dropped = @ \cup dropped, !.trips[i] = IF erase THEN NoTrip ELSE @]
        u == IF TripsOf(t.trips) = {} THEN [t EXCEPT !.ongoing = [distance |-> 0, interval |-> 0]]
             ELSE RestartTrip(t, TRUE, 0)
        v == [u EXCEPT !.sessions[i] = NoBatch,
                       !.slips = Slip(@, "overlap", o.mode = "trip" /\ TripsOf(t.trips) # {})]
    IN  IF restart THEN StartAny(v, i, c, o) ELSE u

\* stopTripBatchingMultiplex.
StopTrip(s, i, c, restart, o, erase) ==
    IF Cardinality(TripsOf(s.trips)) = 1
    THEN Ask(s, [op |-> "stopTrip", id |-> i, client |-> c, options |-> o,
                 restart |-> restart, erase |-> erase])
    ELSE StopTripCommon(s, i, c, restart, o, erase)

StopAny(s, i, restart, o, erase) ==
    LET c == s.sessions[i].client
    IN  IF (IF restart THEN s.trips[i] # NoTrip ELSE s.sessions[i].options.mode = "trip")
        THEN StopTrip(s, i, c, restart, o, erase) ELSE StopBatching(s, i, restart, o, erase)

\* stopClientSessions goes by the mode; a trip may have ended.
StopClientSessions(s, c, erase) ==
    FoldLeft(LAMBDA t, i : StopAny(t, i, FALSE, Routine, erase), s,
             SetToSortSeq({i \in BatchId : s.sessions[i].client = c /\ s.sessions[i] # NoBatch}, <))

\* restartSessions: answers to the starts are not looked at.  The loop over the trips takes
\* each by value, so that its reset of the distance of the ongoing batch is lost.
RestartSessions(s) ==
    LET plain == {i \in BatchId : s.sessions[i] # NoBatch /\ s.sessions[i].options.mode # "trip"}
        t == FoldLeft(LAMBDA u, i : Ask(u, [op |-> "restart", id |-> i]),
                      [s EXCEPT !.full = @ \/ Counted(s) > 0], SetToSortSeq(plain, <))
        least == [distance |-> LeastRemaining(s.trips), interval |-> LeastInterval(s.trips)]
    IN  IF TripsOf(s.trips) = {} THEN t
        ELSE Ask([t EXCEPT !.ongoing = least,
                           !.slips = Slip(@, "midway", \E i \in TripsOf(s.trips) : s.trips[i].ongoing # 0)],
                 [op |-> "restartTrip", distance |-> least.distance, interval |-> least.interval])

\* Calls whose work overlaps confuse trips in many ways (README), so runs with trips are calm.
Room == IF calm THEN asked = <<>> /\ ~modemTrip.ended ELSE Len(asked) < MaxAsked
Offered(o) == o.mode = "trip" => calm

\* A command's message: put aside while the capabilities of the modem are not known.
Command(m, Effect(_)) ==
    IF batchEngineKnown
    THEN Becomes(Effect(Now)) /\ UNCHANGED batchPending
    ELSE batchPending' = Append(batchPending, m) /\ UNCHANGED batchAdapter

\* startBatchingCommand; a client without batchingCb is not answered.
DoStart(s, i, c, o) == IF c \in batchingCb THEN StartAny(s, i, c, o) ELSE s
\* stopBatchingCommand and updateBatchingOptionsCommand: an unknown session is not answered.
DoStop(s, i, c) == IF s.sessions[i].client = c
                   THEN IF s.trips[i] # NoTrip THEN StopTrip(s, i, c, FALSE, Routine, TRUE)
                        ELSE StopBatching(s, i, FALSE, Routine, TRUE)
                   ELSE s
DoUpdate(s, i, c, o) == IF s.sessions[i].client = c THEN StopAny(s, i, TRUE, o, TRUE) ELSE s
Do(s, m) == IF m.op = "start" THEN DoStart(s, m.id, m.client, m.options)
            ELSE IF m.op = "stop" THEN DoStop(s, m.id, m.client)
            ELSE DoUpdate(s, m.id, m.client, m.options)

Calling == Room /\ (batchEngineKnown => batchPending = <<>>)

CallStart(c, o) ==
    /\ Calling /\ nextBatch <= MaxBatch /\ Offered(o)
    /\ Command([op |-> "start", id |-> nextBatch, client |-> c, options |-> o],
               LAMBDA s : DoStart(s, nextBatch, c, o))
    /\ nextBatch' = nextBatch + 1
    /\ UNCHANGED <<batchingCb, mBatchPower, batchEngineKnown, batchModem, ups, batchUpdates, calm>>

CallStop(c, i) ==
    /\ Calling /\ i < nextBatch /\ Len(batchPending) < MaxAsked
    /\ Command([op |-> "stop", id |-> i, client |-> c], LAMBDA s : DoStop(s, i, c))
    /\ UNCHANGED <<batchingCb, mBatchPower, batchEngineKnown, batchModem, batchCounts>>

CallUpdate(c, i, o) ==
    /\ Calling /\ i < nextBatch /\ batchUpdates < MaxBatchUpdates /\ Offered(o)
    /\ batchUpdates' = batchUpdates + 1
    /\ Command([op |-> "update", id |-> i, client |-> c, options |-> o],
               LAMBDA s : DoUpdate(s, i, c, o))
    /\ UNCHANGED <<batchingCb, mBatchPower, batchEngineKnown, batchModem, nextBatch, ups, calm>>

\* A message that was put aside comes up again.
Replay ==
    /\ batchEngineKnown /\ batchPending # <<>> /\ Room
    /\ Becomes(Do(Now, Head(batchPending)))
    /\ batchPending' = Tail(batchPending)
    /\ UNCHANGED <<batchingCb, mBatchPower, batchEngineKnown, batchModem, batchCounts>>

\* MsgRemoveClient: the sessions are stopped, then the client is erased and the event mask
\* is computed anew.
RemoveBatchClient(c) ==
    /\ Room /\ c \in batchingCb
    /\ batchingCb' = batchingCb \ {c}
    /\ LET s == StopClientSessions(Now, c, TRUE)
       IN  Becomes([s EXCEPT !.full = Counted(s) > 0])
    /\ UNCHANGED <<mBatchPower, batchEngineKnown, batchPending, batchModem, batchCounts>>

\* A suspension that meets trips or requests under way loses sessions (README).
MayChangePower == SuspendsBusy \/ (~calm /\ asked = <<>>)

\* updateSystemPowerState.  Suspending stops the sessions of the client of each session.
Suspend ==
    /\ MayChangePower /\ Room /\ mBatchPower # "suspend"
    /\ mBatchPower' = "suspend"
    /\ LET owners == SelectSeq([i \in BatchId |-> mBatchingSessions[i].client],
                               LAMBDA c : c # "none")
       IN  Becomes(FoldLeft(LAMBDA s, c : StopClientSessions(s, c, FALSE), Now, owners))
    /\ UNCHANGED <<batchingCb, batchEngineKnown, batchPending, batchModem, batchCounts>>

Resume ==
    /\ MayChangePower /\ Room /\ mBatchPower = "suspend"
    /\ mBatchPower' = "resume"
    /\ Becomes(RestartSessions(Now))
    /\ UNCHANGED <<batchingCb, batchEngineKnown, batchPending, batchModem, batchCounts>>

\* handleEngineUpEvent, after the modem has come up, for the first time or again.
EngineUpBatching ==
    /\ Room /\ modemUp /\ ~batchEngineKnown
    /\ batchEngineKnown' = TRUE
    /\ Becomes(IF mBatchPower = "suspend" THEN Now ELSE RestartSessions(Now))
    /\ UNCHANGED <<batchingCb, mBatchPower, batchPending, batchModem, batchCounts>>

\* The modem starts; what it ran is gone.  handleEngineDownEvent sets the capabilities to
\* unknown.  Requests that it has not answered are refused when it is up.
ModemStarts ==
    /\ ups < MaxUps
    /\ ups' = ups + 1
    /\ modemUp' = TRUE /\ modemBatches' = {} /\ modemTrip' = NoModemTrip
    /\ batchEngineKnown' = FALSE
    /\ asked = <<>> /\ batchPending = <<>>
    /\ UNCHANGED <<batchAdapter, batchingCb, mBatchPower, batchPending, nextBatch, batchUpdates, calm>>

\* What the modem does with a request it does not refuse.
ModemDoes(r) ==
    /\ modemBatches' = IF r.op \in {"start", "restart"} THEN modemBatches \cup {r.id}
                       ELSE IF r.op = "stop" THEN modemBatches \ {r.id} ELSE modemBatches
    /\ modemTrip' = CASE r.op = "startTrip" -> ModemTrip(r.options.distance, r.options.interval)
                      [] r.op \in {"restartTrip", "reStartTrip"} ->
                             ModemTrip(r.distance, r.interval)
                      [] r.op \in {"stopTrip", "stopTrips"} -> NoModemTrip
                      [] OTHER -> modemTrip

\* The callbacks of the requests, one operator for each.
OnStart(s, r, ok) ==
    IF ok THEN s
    ELSE LET t == [s EXCEPT !.sessions[r.id] = NoBatch]
         IN  [t EXCEPT !.full = @ /\ ~(r.options.mode # "noAutoReport" /\ Counted(t) = 0)]

OnStop(s, r, ok) ==
    IF ~ok
    THEN [s EXCEPT !.sessions[r.id] = IF r.erase THEN [client |-> r.client, options |-> r.options]
                                      ELSE @]
    ELSE LET t == [s EXCEPT !.full = @ /\ ~(Counted(s) = 0 /\ r.had.mode # "noAutoReport")]
         IN  IF r.restart THEN StartAny(t, r.id, r.client, r.options) ELSE t

OnStartTrip(s, r, ok) ==
    IF ok THEN [s EXCEPT !.ongoing = [distance |-> r.options.distance, interval |-> r.options.interval]]
    ELSE LET t == [s EXCEPT !.sessions[r.id] = NoBatch, !.trips[r.id] = NoTrip]
         IN  [t EXCEPT !.full = @ /\ Counted(t) > 0]

OnStopTrip(s, r, ok) ==
    StopTripCommon([s EXCEPT !.full = @ /\ ~(ok /\ Counted(s) = 1)],
                   r.id, r.client, r.restart, r.options, r.erase)

\* A further trip, when the modem has told how far the trip is.
OnQuery(s, r, ok) ==
    LET covered == modemTrip.covered
        faster == s.ongoing.interval > r.options.interval
        left == IF ok THEN Minus(s.ongoing.distance, covered) ELSE s.ongoing.distance
        nearer == r.options.distance < left
        t == IF ok THEN [s EXCEPT !.trips[r.id] =
                            [ongoing |-> covered, this |-> 0, onRestart |-> 0,
                             distance |-> r.options.distance, interval |-> r.options.interval]]
             ELSE s
        new == [distance |-> IF nearer THEN r.options.distance
                             ELSE IF ok /\ faster THEN left ELSE s.ongoing.distance,
                interval |-> IF faster THEN r.options.interval ELSE s.ongoing.interval]
    IN  IF ~(faster \/ nearer) THEN t
        ELSE Ask([t EXCEPT !.ongoing = new,
                           !.trips = [i \in BatchId |-> IF @[i] = NoTrip THEN NoTrip
                                      ELSE [@[i] EXCEPT !.ongoing = 0, !.onRestart = t.trips[i].this]]],
                 [op |-> "reStartTrip", id |-> r.id, distance |-> new.distance,
                  interval |-> new.interval, adopt |-> FALSE, covered |-> 0])

\* The second half of restartTripBatching.
OnQueryRestart(s, r) ==
    LET covered == IF r.useQuery THEN modemTrip.covered ELSE r.covered
        left == Minus(s.ongoing.distance, covered)
        goesOn == "distance" \notin s.dropped /\ left # 0
        nearer == IF goesOn THEN r.distance < left ELSE r.distance # 0
        other == \/ r.interval < s.ongoing.interval
                 \/ r.interval # s.ongoing.interval /\ "interval" \in s.dropped
    IN  IF ~(nearer \/ other) THEN s
        ELSE Ask([s EXCEPT !.slips = Slip(@, "stale", nearer /\ r.useQuery /\ covered # 0)],
                 [op |-> "reStartTrip", id |-> 0, adopt |-> TRUE, covered |-> covered,
                     distance |-> IF nearer THEN r.distance ELSE s.ongoing.distance,
                     interval |-> IF other THEN r.interval ELSE s.ongoing.interval])

\* Mutant: the distance of the ongoing batch is not reset.
MutAdoptKeepsOngoing(t, covered) ==
    LET this == Plus(t.onRestart, Minus(covered, t.ongoing))
    IN  [t EXCEPT !.this = this, !.onRestart = this]

Adopt(t, covered) ==
    LET this == Plus(t.onRestart, Minus(covered, t.ongoing))
    IN  [t EXCEPT !.this = this, !.ongoing = 0, !.onRestart = this]

OnReStartTrip(s, r, ok) ==
    IF ~(ok /\ r.adopt) THEN s
    ELSE [s EXCEPT !.ongoing = [distance |-> r.distance, interval |-> r.interval],
                   !.trips = [i \in BatchId |-> IF @[i] = NoTrip THEN NoTrip
                                                ELSE Adopt(@[i], r.covered)]]

OnRestartTrip(s, ok) == IF ok THEN s ELSE [s EXCEPT !.ongoing = [distance |-> 0, interval |-> 0]]

Answered(s, r, ok) ==
    CASE r.op = "start" -> OnStart(s, r, ok)
      [] r.op = "stop" -> OnStop(s, r, ok)
      [] r.op = "startTrip" -> OnStartTrip(s, r, ok)
      [] r.op = "stopTrip" -> OnStopTrip(s, r, ok)
      [] r.op = "query" -> OnQuery(s, r, ok)
      [] r.op = "queryRestart" -> OnQueryRestart(s, r)
      [] r.op = "reStartTrip" -> OnReStartTrip(s, r, ok)
      [] r.op = "restartTrip" -> OnRestartTrip(s, ok)
      [] OTHER -> s

\* The modem answers the oldest request, and the adapter's thread takes the answer in,
\* behind an indication and the start of the modem that came before.
AnswerBatching(ok) ==
    /\ asked # <<>> /\ batchEngineKnown /\ ~modemTrip.ended
    /\ LET r == Head(asked)
       IN  /\ ok \/ r.op \in BatchFails
           /\ IF ok THEN ModemDoes(r) ELSE UNCHANGED <<modemBatches, modemTrip>>
           /\ Becomes(Answered([Now EXCEPT !.asked = Tail(@)], r, ok))
    /\ UNCHANGED <<modemUp, batchRest, batchCounts>>

\* The device moves on; the modem counts while a trip runs.
Travel ==
    /\ modemTrip.covered < modemTrip.distance /\ Room
    /\ modemTrip' = [modemTrip EXCEPT !.covered = @ + 1, !.ended = modemTrip.covered + 1 = modemTrip.distance]
    /\ UNCHANGED <<batchAdapter, batchRest, modemUp, modemBatches, batchCounts>>

\* reportCompletedTripsEvent: the modem has said that its trip is at its end.
ReportCompletedTrips ==
    LET at == modemTrip.covered
        now == [i \in BatchId |-> IF mTripSessions[i] = NoTrip THEN NoTrip
                  ELSE [mTripSessions[i] EXCEPT
                           !.this = Plus(mTripSessions[i].onRestart, Minus(at, mTripSessions[i].ongoing))]]
        done == {i \in Trips : now[i].distance <= now[i].this}
        dropped == {d \in {"interval", "distance"} : \E i \in done : now[i][d] = mOngoingTrip[d]}
        s == [Now EXCEPT !.trips = [i \in BatchId |-> IF i \in done THEN NoTrip ELSE now[i]],
                         !.dropped = @ \cup dropped]
    IN  /\ modemTrip.ended
        /\ modemTrip' = [modemTrip EXCEPT !.ended = FALSE]
        /\ Becomes(IF done = {} THEN s ELSE RestartTrip(s, FALSE, at))
        /\ UNCHANGED <<batchRest, modemUp, modemBatches, batchCounts>>

BatchNext ==
    \/ \E c \in BatchClient :
          \/ RemoveBatchClient(c)
          \/ c \in batchingCb /\ \E o \in BatchOptions : CallStart(c, o)
          \/ \E i \in BatchId : c \in batchingCb /\ CallStop(c, i)
          \/ \E i \in BatchId, o \in BatchOptions : c \in batchingCb /\ CallUpdate(c, i, o)
    \/ Replay \/ Suspend \/ Resume \/ EngineUpBatching \/ ModemStarts
    \/ \E ok \in BOOLEAN : AnswerBatching(ok)
    \/ Travel \/ ReportCompletedTrips

BatchSpec == BatchInit /\ [][BatchNext]_batchVars

BatchTypeOK ==
    /\ batchingCb \subseteq BatchClient
    /\ \A i \in BatchId : mBatchingSessions[i] # NoBatch =>
          mBatchingSessions[i].client \in BatchClient
          /\ mBatchingSessions[i].options \in BatchOptions \cup {Routine}
    /\ mTripSessions \in [BatchId -> [ongoing : 0..(Width-1), this : 0..(Width-1),
                             onRestart : 0..(Width-1), distance : Nat, interval : Nat] \cup {NoTrip}]
    /\ mOngoingTrip.distance \in 0..(Width-1)
    /\ modemBatches \subseteq BatchId

\* The adapter and the modem agree about what was asked, and the device is not suspended.
Settled == asked = <<>> /\ batchEngineKnown /\ batchPending = <<>> /\ mBatchPower # "suspend"

\* The modem batches for the routine and on demand sessions of the clients and for no
\* others, whatever calls, refusals, suspensions and restarts of the modem came before.
ModemRunsBatches ==
    Settled => modemBatches = {i \in BatchId : mBatchingSessions[i] # NoBatch
                                               /\ mBatchingSessions[i].options.mode # "trip"}

\* While a session that reports by itself runs, the adapter hears of a full batch.
BatchFullWhenNeeded ==
    (\E i \in BatchId : mBatchingSessions[i] # NoBatch /\ mBatchingSessions[i].options.mode = "routine")
    /\ mBatchPower # "suspend" => batchFull

\* The clients have trips, all requests are answered and no client has gone.
TripsUnderWay == Settled /\ batchingCb = BatchClient /\ Trips # {} /\ ~modemTrip.ended

\* What trip i still has to go, by the books of the adapter and the modem's count.
Left(i) == mTripSessions[i].distance
           - Plus(mTripSessions[i].onRestart, Minus(modemTrip.covered, mTripSessions[i].ongoing))

\* Of a trip the positions "are reported when a certain distance is covered": the modem
\* counts for it until then.
TripsGoOn == TripsUnderWay => modemTrip.covered < modemTrip.distance

\* The modem goes on counting for the clients' trips, at the least of their intervals, and
\* ends its trip where the first of theirs ends, except after the slips that concern it.
TripsAreBatched ==
    /\ "midway" \notin slips => TripsGoOn
    /\ TripsUnderWay /\ "overlap" \notin slips => modemTrip.interval = Min({mTripSessions[i].interval : i \in Trips})
    /\ TripsUnderWay /\ slips = {} => modemTrip.distance - modemTrip.covered = Min({Left(i) : i \in Trips})

\* The clients' sessions and trips run on the modem, and full batches are reported.
SessionsAreBatched == ModemRunsBatches /\ BatchFullWhenNeeded /\ TripsAreBatched
=============================================================================
