---------------------------------- MODULE Rkp ----------------------------------
(***************************************************************************)
(* The remote key provisioning service (duck-rkp/duck_rkp.cpp): a request  *)
(* is handed to a worker process over a socket pair, because the vendor's  *)
(* library may hang or crash.  The service has one binder thread, which    *)
(* serves one request at a time.  Contents are left out: a message is the  *)
(* number of the request it belongs to and how much of it is there.        *)
(***************************************************************************)
EXTENDS Naturals

CONSTANTS MaxRkpRequests,  \* bound: requests
          VendorOutcomes   \* what the vendor's library may do: answer, fail, hang or crash

VARIABLES
    rkpPc,                 \* where runWorker is; "dead" when the service has died
    rkpRequest,            \* number of the request, counted up
    complete,              \* transfer()s so far have succeeded
    rkpHeader,             \* the status in the header that was received
    rkpAnswer,             \* what request() returned: status, and whose payload
    toWorker,              \* what the worker has been sent: "none", "header", "all"
    fromWorker,            \* what the worker has sent: a status, and "none", "header", "all"
    ourEndClosed,          \* sockets[0] is closed
    worker,                \* "none", "exec", "guarded", "read", "vendor", "reply", "leave",
                           \* or its end
    deathSignal,           \* prctl(PR_SET_PDEATHSIG) was called
    alarmSet,              \* alarm(30) was called
    accepted               \* the vendor's library has made a CSR for this request

rkpService == <<rkpPc, rkpRequest, complete, rkpHeader, rkpAnswer>>
rkpSockets == <<toWorker, fromWorker, ourEndClosed>>
rkpWorker == <<worker, deathSignal, alarmSet, accepted>>
rkpVars == <<rkpService, rkpSockets, rkpWorker>>

NothingSent == [status |-> "none", sent |-> "none"]
NoAnswer == [status |-> "none", of |-> 0]
WorkerEnds == {"exit0", "exit1", "SIGKILL", "SIGALRM", "crash"}
WorkerRuns == worker \notin WorkerEnds \cup {"none"}

RkpInit ==
    /\ rkpPc = "idle" /\ rkpRequest = 0 /\ complete = FALSE /\ rkpHeader = "none"
    /\ rkpAnswer = NoAnswer
    /\ toWorker = "none" /\ fromWorker = NothingSent /\ ourEndClosed = TRUE
    /\ worker = "none" /\ deathSignal = FALSE /\ alarmSet = FALSE /\ accepted = FALSE

\* request() from the system's user: a request that is not valid is answered at once, and
\* so is one for which no socket pair or process can be made.
Request ==
    /\ rkpPc = "idle" /\ rkpRequest < MaxRkpRequests
    /\ rkpRequest' = rkpRequest + 1
    /\ \/ \E status \in {"INVALID_REQUEST", "TRANSPORT"} :
             /\ rkpAnswer' = [status |-> status, of |-> 0]
             /\ UNCHANGED <<rkpPc, complete, rkpHeader, rkpSockets, rkpWorker>>
       \/ /\ rkpPc' = "sendHeader" /\ complete' = TRUE /\ rkpHeader' = "none" /\ rkpAnswer' = NoAnswer
          /\ toWorker' = "none" /\ fromWorker' = NothingSent /\ ourEndClosed' = FALSE
          /\ worker' = "exec" /\ deathSignal' = FALSE /\ alarmSet' = FALSE /\ accepted' = FALSE

\* The service sends the header, then the request.  It fails when the worker's end is
\* closed.
Send ==
    /\ rkpPc \in {"sendHeader", "sendPayload"}
    /\ IF WorkerRuns
       THEN /\ toWorker' = IF rkpPc = "sendHeader" THEN "header" ELSE "all"
            /\ rkpPc' = IF rkpPc = "sendHeader" THEN "sendPayload" ELSE "recvHeader"
            /\ UNCHANGED complete
       ELSE complete' = FALSE /\ rkpPc' = "close" /\ UNCHANGED toWorker
    /\ UNCHANGED <<rkpRequest, rkpHeader, rkpAnswer, fromWorker, ourEndClosed, rkpWorker>>

RecvHeader ==
    /\ rkpPc = "recvHeader"
    /\ \/ /\ fromWorker.sent # "none"
          /\ rkpHeader' = fromWorker.status
          /\ rkpPc' = IF fromWorker.status = "OK" THEN "recvPayload" ELSE "close"
          /\ UNCHANGED complete
       \/ /\ fromWorker.sent = "none" /\ ~WorkerRuns
          /\ complete' = FALSE /\ rkpPc' = "close" /\ UNCHANGED rkpHeader
    /\ UNCHANGED <<rkpRequest, rkpAnswer, rkpSockets, rkpWorker>>

RecvPayload ==
    /\ rkpPc = "recvPayload"
    /\ fromWorker.sent = "all" \/ ~WorkerRuns
    /\ complete' = (fromWorker.sent = "all")
    /\ rkpPc' = "close"
    /\ UNCHANGED <<rkpRequest, rkpHeader, rkpAnswer, rkpSockets, rkpWorker>>

\* SO_RCVTIMEO and SO_SNDTIMEO, 35 s for each call: the worker neither reads nor answers.
ServiceTimeout ==
    /\ rkpPc \in {"recvHeader", "recvPayload"} /\ WorkerRuns
    /\ complete' = FALSE /\ rkpPc' = "close"
    /\ UNCHANGED <<rkpRequest, rkpHeader, rkpAnswer, rkpSockets, rkpWorker>>

\* Mutant: the worker is not killed.
MutCloseAndKillSpares ==
    /\ rkpPc = "close"
    /\ rkpPc' = "wait" /\ ourEndClosed' = TRUE
    /\ UNCHANGED <<rkpRequest, complete, rkpHeader, rkpAnswer, toWorker, fromWorker, rkpWorker>>

\* close() and, unless the answer is complete, kill().
CloseAndKill ==
    /\ rkpPc = "close"
    /\ rkpPc' = "wait"
    /\ ourEndClosed' = TRUE
    /\ worker' = IF ~complete /\ WorkerRuns THEN "SIGKILL" ELSE worker
    /\ UNCHANGED <<rkpRequest, complete, rkpHeader, rkpAnswer, toWorker, fromWorker,
                   deathSignal, alarmSet, accepted>>

\* Mutant: waitpid() with WNOHANG.
MutWaitAndAnswerNoHang ==
    /\ rkpPc = "wait"
    /\ rkpPc' = "idle"
    /\ rkpAnswer' = IF complete THEN [status |-> rkpHeader, of |-> rkpRequest]
                    ELSE [status |-> "TRANSPORT", of |-> 0]
    /\ worker' = IF worker \in WorkerEnds THEN "none" ELSE worker
    /\ UNCHANGED <<rkpRequest, complete, rkpHeader, rkpSockets, deathSignal, alarmSet, accepted>>

\* waitpid() and the answer; a worker that was killed or did not exit with 0 spoils it.
WaitAndAnswer ==
    /\ rkpPc = "wait" /\ worker \in WorkerEnds
    /\ rkpPc' = "idle"
    /\ rkpAnswer' = CASE worker = "SIGALRM" -> [status |-> "TIMEOUT", of |-> 0]
                      [] worker \in {"SIGKILL", "crash", "exit1"} \/ ~complete ->
                            [status |-> "TRANSPORT", of |-> 0]
                      [] OTHER -> [status |-> rkpHeader, of |-> rkpRequest]
    /\ worker' = "none"
    /\ UNCHANGED <<rkpRequest, complete, rkpHeader, rkpSockets, deathSignal, alarmSet, accepted>>

\* The service dies; a worker that asked for it gets SIGKILL.
ServiceDies ==
    /\ rkpPc # "dead"
    /\ rkpPc' = "dead" /\ ourEndClosed' = TRUE
    /\ worker' = IF WorkerRuns /\ deathSignal THEN "SIGKILL" ELSE worker
    /\ UNCHANGED <<rkpRequest, complete, rkpHeader, rkpAnswer, toWorker, fromWorker,
                   deathSignal, alarmSet, accepted>>

\* main() of the worker asks for the signal, and then looks whether it is too late for it.
SetDeathSignal ==
    /\ worker = "exec"
    /\ worker' = "guarded" /\ deathSignal' = TRUE
    /\ UNCHANGED <<rkpService, rkpSockets, alarmSet, accepted>>

LookForParent ==
    /\ worker = "guarded"
    /\ worker' = IF rkpPc = "dead" THEN "exit1" ELSE "serve"
    /\ UNCHANGED <<rkpService, rkpSockets, deathSignal, alarmSet, accepted>>

Serve ==
    /\ worker = "serve"
    /\ worker' = "read" /\ alarmSet' = TRUE
    /\ UNCHANGED <<rkpService, rkpSockets, deathSignal, accepted>>

\* The worker reads; what does not arrive, within 5 s for each call or at all, ends it.
WorkerReads ==
    /\ worker = "read"
    /\ \/ toWorker = "all" /\ worker' = "vendor" /\ UNCHANGED fromWorker
       \/ toWorker # "all" /\ worker' = "leave" /\ UNCHANGED fromWorker
       \/ /\ toWorker = "header" /\ ~ourEndClosed
          /\ worker' = "leave" /\ fromWorker' = [status |-> "INVALID_REQUEST", sent |-> "header"]
    /\ UNCHANGED <<rkpService, toWorker, ourEndClosed, deathSignal, alarmSet, accepted>>

\* vendorRequest up to its reply; a hang only ends by a signal.
Vendor(outcome) ==
    /\ worker = "vendor" /\ outcome # "hang"
    /\ worker' = IF outcome = "crash" THEN "crash" ELSE "reply"
    /\ accepted' = (outcome = "OK")
    /\ UNCHANGED <<rkpService, toWorker, fromWorker, ourEndClosed, deathSignal, alarmSet>>

\* reply(): the header, then the payload of an OK.  What cannot be sent ends the worker
\* as if it had been.
WorkerReplies(status) ==
    /\ worker = "reply"
    /\ status \in IF accepted THEN {"OK"} ELSE {"UNAVAILABLE", "TRANSPORT", "REJECTED"}
    /\ IF ourEndClosed THEN worker' = "leave" /\ UNCHANGED fromWorker
       ELSE /\ fromWorker' = [status |-> status,
                              sent |-> IF fromWorker.sent = "none" THEN "header" ELSE "all"]
            /\ worker' = IF status = "OK" /\ fromWorker.sent = "none" THEN "reply" ELSE "leave"
    /\ UNCHANGED <<rkpService, toWorker, ourEndClosed, deathSignal, alarmSet, accepted>>

\* main() of the worker returns.
WorkerExits ==
    /\ worker = "leave"
    /\ worker' = "exit0"
    /\ UNCHANGED <<rkpService, rkpSockets, deathSignal, alarmSet, accepted>>

Alarm ==
    /\ WorkerRuns /\ alarmSet
    /\ worker' = "SIGALRM"
    /\ UNCHANGED <<rkpService, rkpSockets, deathSignal, alarmSet, accepted>>

ServiceStep == Send \/ RecvHeader \/ RecvPayload \/ CloseAndKill \/ WaitAndAnswer

RkpNext ==
    \/ Request \/ ServiceStep \/ ServiceTimeout \/ ServiceDies
    \/ SetDeathSignal \/ LookForParent \/ Serve \/ WorkerReads
    \/ \E o \in VendorOutcomes : Vendor(o)
    \/ \E s \in {"OK", "UNAVAILABLE", "TRANSPORT", "REJECTED"} : WorkerReplies(s)
    \/ WorkerExits \/ Alarm

\* The service's thread runs, timeouts and alarms go off.  Of the worker only its first two
\* system calls are relied on: what follows may hang.
RkpFairness == /\ WF_rkpVars(ServiceStep) /\ WF_rkpVars(ServiceTimeout) /\ WF_rkpVars(Alarm)
               /\ WF_rkpVars(SetDeathSignal) /\ WF_rkpVars(LookForParent)

RkpSpec == RkpInit /\ [][RkpNext]_rkpVars /\ RkpFairness

RkpTypeOK ==
    /\ rkpPc \in {"idle", "sendHeader", "sendPayload", "recvHeader", "recvPayload", "close", "wait", "dead"}
    /\ rkpRequest \in 0..MaxRkpRequests
    /\ toWorker \in {"none", "header", "all"} /\ fromWorker.sent \in {"none", "header", "all"}
    /\ worker \in {"none", "exec", "guarded", "serve", "read", "vendor", "reply",
                   "leave"} \cup WorkerEnds

\* When a request is answered its worker is gone and reaped: neither a process nor a
\* zombie is left behind, whatever failed.
WorkerReaped == rkpPc = "idle" => worker = "none"

\* An answer OK carries the whole payload that the vendor's library made for this very
\* request, and comes from a worker that ended by itself.
OkIsWhole ==
    rkpPc = "idle" /\ rkpAnswer.status = "OK" =>
        rkpAnswer.of = rkpRequest /\ accepted /\ fromWorker.sent = "all"

\* Every request is answered, though the library may hang or crash, unless the service dies.
RequestAnswered == rkpPc \notin {"idle", "dead"} ~> rkpPc \in {"idle", "dead"}

\* A worker does not outlive the service, also when the service dies before the worker
\* has asked for the signal.
NoOrphan == rkpPc = "dead" ~> ~WorkerRuns

\* A request leaves nothing behind but a right answer.
RequestsEndClean == WorkerReaped /\ OkIsWhole

\* Whatever dies or hangs, requests and workers come to their end.
RequestsEnd == RequestAnswered /\ NoOrphan
=============================================================================
