------------------------------ MODULE NiSessions ------------------------------
(***************************************************************************)
(* Network initiated requests (NI) in GnssAdapter: the user is asked, and  *)
(* a thread for each request waits for the answer or for the time to run   *)
(* out, and then has the modem told.  There is one session for emergency   *)
(* SUPL and one for all else.  tLock protects the answer, but not the test *)
(* of the adapter's thread before it takes the lock, nor what the thread   *)
(* of the session does after it lets go of it.                             *)
(***************************************************************************)
EXTENDS Naturals, Sequences

CONSTANTS MaxNi            \* bound: requests for the user

ASSUME NiAssumption == MaxNi \in Nat

NiKind == {"session", "sessionEs"}
NiRequest == 1..MaxNi      \* reqIDCounter when the request was entered
NiUser == {"ACCEPT", "DENY"}
NoThread == [pc |-> "none", resp |-> "none", raw |-> 0]

VARIABLES
    rawRequest,            \* of each session: the request it is busy with, 0 for NULL
    reqID,                 \* of each session
    resp, respRecvd,       \* of each session: the answer, and whether one has come
    reqIDCounter,
    niWaiting,             \* of each session: a thread waits on it
    niTails,               \* threads that have let go of the lock: session, answer and request
    niSets,                \* what gnssNiResponseCommand has still to do, under the locks
    niCb,                  \* a client has a gnssNiCb
    answered,              \* what the user said to each request
    told,                  \* what the modem was told of each request, in order
    late                   \* history: a session was written for a request that was over

niSession == <<rawRequest, reqID, resp, respRecvd>>
niVars == <<niSession, reqIDCounter, niWaiting, niTails, niSets, niCb, answered, told, late>>

NiInit ==
    /\ rawRequest = [k \in NiKind |-> 0] /\ reqID = [k \in NiKind |-> 0]
    /\ resp = [k \in NiKind |-> "none"] /\ respRecvd = [k \in NiKind |-> FALSE]
    /\ reqIDCounter = 0
    /\ niWaiting = [k \in NiKind |-> FALSE]
    /\ niTails = {} /\ niSets = <<>> /\ niCb = TRUE
    /\ answered = [r \in NiRequest |-> "none"]
    /\ told = [r \in NiRequest |-> <<>>]
    /\ late = FALSE

Busy(k) == IF k = "sessionEs" THEN rawRequest[k] # 0
           ELSE rawRequest["session"] # 0 \/ rawRequest["sessionEs"] # 0

\* requestNiNotify with a client to ask: a request that finds its session busy is dropped,
\* any other is entered, without the lock, and gets a thread.
RequestNiNotify(k) ==
    /\ niSets = <<>> /\ niCb /\ ~Busy(k)
    /\ reqIDCounter < MaxNi
    /\ reqIDCounter' = reqIDCounter + 1
    /\ rawRequest' = [rawRequest EXCEPT ![k] = reqIDCounter']
    /\ reqID' = [reqID EXCEPT ![k] = reqIDCounter']
    /\ niWaiting' = [niWaiting EXCEPT ![k] = TRUE]
    /\ UNCHANGED <<resp, respRecvd, niTails, niSets, niCb, answered, told, late>>

Set(k, r, for) == [kind |-> k, resp |-> r, for |-> for]
IgnoreOther == IF rawRequest["session"] = 0 THEN <<>>
               ELSE <<Set("session", "IGNORE", rawRequest["session"])>>

\* requestNiNotify without one: an emergency request that is accepted anyway ends the other.
NobodyToAsk ==
    /\ niSets = <<>> /\ ~niCb
    /\ IgnoreOther # <<>>
    /\ niSets' = IgnoreOther
    /\ UNCHANGED <<niSession, reqIDCounter, niWaiting, niTails, niCb, answered, told, late>>

\* gnssNiResponseCommand, the tests: the session is the one with the id and a request.
GnssNiResponseFor(id, answer) ==
    LET k == IF reqID["sessionEs"] = id /\ rawRequest["sessionEs"] # 0 THEN "sessionEs" ELSE "session"
        active == reqID[k] = id /\ rawRequest[k] # 0
    IN  /\ niSets = <<>> /\ id <= reqIDCounter /\ answered[id] = "none"
        /\ answered' = [answered EXCEPT ![id] = answer]
        /\ niSets' = IF ~niCb \/ ~active THEN <<>>
                     ELSE (IF k = "sessionEs" /\ answer = "ACCEPT" THEN IgnoreOther ELSE <<>>)
                          \o <<Set(k, answer, id)>>
        /\ UNCHANGED <<niSession, reqIDCounter, niWaiting, niTails, niCb, told, late>>

\* ... and the writes, each under the lock of its session.
SetResponse ==
    LET s == Head(niSets)
    IN  /\ niSets # <<>>
        /\ niSets' = Tail(niSets)
        /\ resp' = [resp EXCEPT ![s.kind] = s.resp]
        /\ respRecvd' = [respRecvd EXCEPT ![s.kind] = TRUE]
        /\ late' = (late \/ rawRequest[s.kind] # s.for)
        /\ UNCHANGED <<rawRequest, reqID, reqIDCounter, niWaiting, niTails, niCb, answered, told>>

\* Mutant: the flag of an answer is not reset.
MutNiThreadEndsKeepsFlag(k, answer) ==
    /\ niWaiting[k]
    /\ resp' = [resp EXCEPT ![k] = answer]
    /\ rawRequest' = [rawRequest EXCEPT ![k] = 0]
    /\ niWaiting' = [niWaiting EXCEPT ![k] = FALSE]
    /\ niTails' = niTails \cup {[kind |-> k, raw |-> rawRequest[k], resp |-> answer]}
    /\ UNCHANGED <<reqID, respRecvd, reqIDCounter, niSets, niCb, answered, told, late>>

\* niThreadProc under the lock, after the wait: the answer, if there is one, is passed on
\* unless it is IGNORE, and the session is free again.
NiThreadEnds(k, answer) ==
    /\ niWaiting[k]
    /\ resp' = [resp EXCEPT ![k] = answer]
    /\ respRecvd' = [respRecvd EXCEPT ![k] = FALSE]
    /\ rawRequest' = [rawRequest EXCEPT ![k] = 0]
    /\ niWaiting' = [niWaiting EXCEPT ![k] = FALSE]
    /\ niTails' = niTails \cup {[kind |-> k, raw |-> rawRequest[k], resp |-> answer]}
    /\ UNCHANGED <<reqID, reqIDCounter, niSets, niCb, answered, told, late>>

NiAnswered(k) == respRecvd[k] /\ NiThreadEnds(k, resp[k])
\* Mutant: the thread waits for an answer without a limit.
MutNiTimeoutNever(k) == respRecvd[k] /\ NiThreadEnds(k, resp[k])

NiTimeout(k) == NiThreadEnds(k, "NO_RESPONSE")

\* niThreadProc after the lock: reqID is cleared, whosever it is now, and the adapter's
\* thread is sent the answer for the modem.
NiThreadTail(t) ==
    /\ t \in niTails
    /\ niTails' = niTails \ {t}
    /\ reqID' = [reqID EXCEPT ![t.kind] = 0]
    /\ told' = IF t.resp = "IGNORE" THEN told ELSE [told EXCEPT ![t.raw] = Append(@, t.resp)]
    /\ UNCHANGED <<rawRequest, resp, respRecvd, reqIDCounter, niWaiting, niSets, niCb, answered, late>>

RemoveNiClient ==
    /\ niCb /\ niSets = <<>>
    /\ niCb' = FALSE
    /\ UNCHANGED <<niSession, reqIDCounter, niWaiting, niTails, niSets, answered, told, late>>

NiNext == \/ \E k \in NiKind : RequestNiNotify(k) \/ NiAnswered(k) \/ NiTimeout(k)
          \/ NobodyToAsk \/ SetResponse \/ RemoveNiClient
          \/ \E id \in NiRequest, a \in NiUser : GnssNiResponseFor(id, a)
          \/ \E t \in niTails : NiThreadTail(t)

NiFairness == /\ \A k \in NiKind : WF_niVars(NiTimeout(k))
              /\ WF_niVars(\E t \in niTails : NiThreadTail(t))

NiSpec == NiInit /\ [][NiNext]_niVars /\ NiFairness

NiTypeOK ==
    /\ rawRequest \in [NiKind -> 0..MaxNi] /\ reqID \in [NiKind -> 0..MaxNi]
    /\ resp \in [NiKind -> NiUser \cup {"none", "IGNORE", "NO_RESPONSE"}]
    /\ respRecvd \in [NiKind -> BOOLEAN] /\ niWaiting \in [NiKind -> BOOLEAN]

\* The modem is told of a request at most once, and of none that is still with the user.
ToldOnce ==
    \A r \in NiRequest : /\ Len(told[r]) <= 1
                         /\ told[r] # <<>> => \A k \in NiKind : rawRequest[k] # r

\* A request ends: its session is never blocked, whatever the user does.
NiRequestEnds == \A k \in NiKind : rawRequest[k] # 0 ~> rawRequest[k] = 0

\* While no answer was written too late, the modem is told what the user said to this
\* very request, or that time ran out.
ToldWhatUserSaid ==
    ~late => \A r \in NiRequest : told[r] # <<>> => Head(told[r]) \in {answered[r], "NO_RESPONSE"}

\* Two sessions are busy only if the emergency came second.
EmergencyOverrides ==
    rawRequest["session"] # 0 /\ rawRequest["sessionEs"] # 0 => rawRequest["session"] < rawRequest["sessionEs"]

\* What the modem is told, and which requests are under way together.
ModemToldRightly == ToldOnce /\ ToldWhatUserSaid /\ EmergencyOverrides
=============================================================================
