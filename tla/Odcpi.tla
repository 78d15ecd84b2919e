-------------------------------- MODULE Odcpi --------------------------------
(***************************************************************************)
(* On demand coarse position injection (GnssAdapter.cpp 5041-5375): the    *)
(* modem starts and stops a session, the adapter asks the framework for    *)
(* positions, and a timer of ten seconds both spaces the requests out and  *)
(* repeats them while the session lasts.  Emergency sessions go to the     *)
(* handler of the Android framework, the others to the handler with the    *)
(* highest priority.  Everything but the timer and the modem runs in the   *)
(* adapter's thread, one message after the other.                          *)
(***************************************************************************)
EXTENDS Naturals, Sequences

CONSTANTS MaxOdcpiRequests,  \* bound: requests of the modem
          MaxOdcpiHandlers,  \* bound: registrations of the high priority handler
          MaxOdcpiRestarts   \* bound: restarts of the modem

ASSUME OdcpiAssumption == /\ MaxOdcpiRequests \in Nat /\ MaxOdcpiHandlers \in Nat
                          /\ MaxOdcpiRestarts \in Nat

OdcpiKind == {"normal", "emergency"}
NoOdcpi == "none"

VARIABLES
    odcpiQueue,            \* messages for the adapter's thread
    mNonEsOdcpiReqCbMap,   \* the priorities with a handler for non-emergency sessions
    odcpiActive,           \* ODCPI_REQ_ACTIVE in mOdcpiStateMask
    mOdcpiRequest,         \* the kind of the last START
    odcpiTimerActive,      \* OdcpiTimer::mActive
    odcpiTimerRuns,        \* its LocTimer has been started and has not fired
    modemSession,          \* the session that the modem has asked for
    modemBack,             \* it has restarted and the adapter's message is not yet sent
    inEmergencyCall,       \* the report in SystemStatus
    wanted,                \* history: the session that the handled requests ask for
    asked,                 \* history: the session and handler that were asked last
    callCut,               \* history: a restart ended an emergency session
    odcpiRequests, odcpiHandlers, odcpiRestarts

odcpiTimer == <<odcpiTimerActive, odcpiTimerRuns>>
odcpiModem == <<modemSession, modemBack, odcpiRequests, odcpiRestarts>>
odcpiHistory == <<wanted, asked, callCut>>
odcpiState == <<odcpiActive, mOdcpiRequest, inEmergencyCall, mNonEsOdcpiReqCbMap>>
odcpiVars == <<odcpiQueue, odcpiTimer, odcpiModem, odcpiHistory, odcpiState, odcpiHandlers>>

Nobody == [kind |-> NoOdcpi, by |-> NoOdcpi]

OdcpiMsg(op, kind) == [op |-> op, kind |-> kind]

OdcpiInit ==
    /\ odcpiQueue = <<>>
    /\ mNonEsOdcpiReqCbMap = {"low"}
    /\ odcpiActive = FALSE /\ mOdcpiRequest = "normal"
    /\ odcpiTimerActive = FALSE /\ odcpiTimerRuns = FALSE
    /\ modemSession = NoOdcpi /\ modemBack = FALSE
    /\ inEmergencyCall = FALSE
    /\ wanted = NoOdcpi /\ asked = Nobody /\ callCut = FALSE
    /\ odcpiRequests = 0 /\ odcpiHandlers = 0 /\ odcpiRestarts = 0

-----------------------------------------------------------------------------
(* Threads that send to the adapter *)

PostOdcpi(m) == odcpiQueue' = Append(odcpiQueue, m)
ModemPosts(m) == /\ odcpiRequests < MaxOdcpiRequests
                 /\ odcpiRequests' = odcpiRequests + 1
                 /\ PostOdcpi(m)
                 /\ UNCHANGED <<modemBack, odcpiRestarts, odcpiTimer, odcpiHistory, odcpiState,
                                odcpiHandlers>>

\* requestOdcpiEvent: an emergency takes the place of another session, never the reverse.
ModemStarts(kind) == /\ modemSession = "emergency" => kind = "emergency"
                     /\ modemSession' = kind
                     /\ ModemPosts(OdcpiMsg("START", kind))

ModemStops == /\ modemSession # NoOdcpi
              /\ modemSession' = NoOdcpi
              /\ ModemPosts(OdcpiMsg("STOP", modemSession))

\* The modem restarts, and may ask again before the adapter is told of the restart.
OdcpiModemRestarts ==
    /\ odcpiRestarts < MaxOdcpiRestarts /\ ~modemBack
    /\ odcpiRestarts' = odcpiRestarts + 1
    /\ modemSession' = NoOdcpi /\ modemBack' = TRUE
    /\ callCut' = (callCut \/ modemSession = "emergency")
    /\ UNCHANGED <<odcpiQueue, odcpiRequests, odcpiTimer, wanted, asked, odcpiState,
                   odcpiHandlers>>

OdcpiEngineUp ==
    /\ modemBack /\ modemBack' = FALSE
    /\ PostOdcpi(OdcpiMsg("engineUp", NoOdcpi))
    /\ UNCHANGED <<modemSession, odcpiRequests, odcpiRestarts, odcpiTimer, odcpiHistory,
                   odcpiState, odcpiHandlers>>

\* OdcpiTimer::timeOutCallback in the timers' thread.
OdcpiTimerFires ==
    /\ odcpiTimerRuns /\ odcpiTimerRuns' = FALSE
    /\ PostOdcpi(OdcpiMsg("expire", NoOdcpi))
    /\ UNCHANGED <<odcpiTimerActive, odcpiModem, odcpiHistory, odcpiState, odcpiHandlers>>

\* initOdcpiCommand and deRegisterOdcpiCommand of a second handler, by turns.
HandlerPosts ==
    /\ odcpiHandlers < MaxOdcpiHandlers
    /\ odcpiHandlers' = odcpiHandlers + 1
    /\ PostOdcpi(OdcpiMsg(IF odcpiHandlers % 2 = 0 THEN "init" ELSE "deRegister", NoOdcpi))
    /\ UNCHANGED <<odcpiTimer, odcpiModem, odcpiHistory, odcpiState>>

-----------------------------------------------------------------------------
(* The adapter's thread *)

\* fireOdcpiRequest: the search for a handler starts with an iterator that is not set, which
\* equals end() in the library this is built with.
TopHandler == IF "high" \in mNonEsOdcpiReqCbMap THEN "high" ELSE "low"
Handler(kind) == [kind |-> kind, by |-> IF kind = "emergency" THEN "framework" ELSE TopHandler]
FireOdcpiRequest(kind) == asked' = Handler(kind)

TimerStart == odcpiTimerActive' = TRUE /\ odcpiTimerRuns' = TRUE
TimerStop == odcpiTimerActive' = FALSE /\ odcpiTimerRuns' = FALSE

OdcpiHead(op) == odcpiQueue # <<>> /\ Head(odcpiQueue).op = op
OdcpiTaken == odcpiQueue' = Tail(odcpiQueue) /\ UNCHANGED <<odcpiModem, odcpiHandlers>>

\* Fired at once: nothing is active, or an emergency follows a session that was none.
FiresAtOnce(kind) == \/ ~odcpiActive /\ ~odcpiTimerActive
                     \/ mOdcpiRequest = "normal" /\ kind = "emergency"

\* requestOdcpi with ODCPI_REQUEST_TYPE_START.  Otherwise the running timer will see to it.
ProcOdcpiStart ==
    /\ OdcpiHead("START")
    /\ LET kind == Head(odcpiQueue).kind
       IN  /\ IF FiresAtOnce(kind)
              THEN /\ FireOdcpiRequest(kind)
                   /\ TimerStart
                   /\ inEmergencyCall' = (inEmergencyCall \/ kind = "emergency")
              ELSE UNCHANGED <<asked, odcpiTimer, inEmergencyCall>>
           /\ mOdcpiRequest' = kind /\ wanted' = kind
    /\ odcpiActive' = TRUE
    /\ UNCHANGED <<mNonEsOdcpiReqCbMap, callCut>> /\ OdcpiTaken

\* ODCPI_REQUEST_TYPE_STOP: the timer runs on, and mOdcpiRequest stays.
ProcOdcpiStop ==
    /\ OdcpiHead("STOP")
    /\ asked' = Nobody /\ wanted' = NoOdcpi
    /\ odcpiActive' = FALSE
    /\ inEmergencyCall' = (inEmergencyCall /\ Head(odcpiQueue).kind # "emergency")
    /\ UNCHANGED <<odcpiTimer, mOdcpiRequest, mNonEsOdcpiReqCbMap, callCut>> /\ OdcpiTaken

\* Slips: the expiry repeats the request and does not start the timer again; it starts the
\* timer again and does not repeat the request.
MutOdcpiTimerExpireOnce ==
    /\ OdcpiHead("expire")
    /\ IF odcpiActive THEN FireOdcpiRequest(mOdcpiRequest) /\ UNCHANGED odcpiTimer
                      ELSE TimerStop /\ UNCHANGED asked
    /\ UNCHANGED <<odcpiState, wanted, callCut>> /\ OdcpiTaken

MutOdcpiTimerExpireSilent ==
    /\ OdcpiHead("expire")
    /\ IF odcpiActive THEN TimerStart ELSE TimerStop
    /\ UNCHANGED <<odcpiState, odcpiHistory>> /\ OdcpiTaken

OdcpiTimerExpire ==
    /\ OdcpiHead("expire")
    /\ IF odcpiActive THEN FireOdcpiRequest(mOdcpiRequest) /\ TimerStart
                      ELSE TimerStop /\ UNCHANGED asked
    /\ UNCHANGED <<odcpiState, wanted, callCut>> /\ OdcpiTaken

\* restartSessions(true): the session is forgotten, without a word to the framework, unless
\* the system is suspended.
ProcOdcpiEngineUp ==
    /\ OdcpiHead("engineUp")
    /\ \/ /\ odcpiActive' = FALSE /\ wanted' = NoOdcpi
          /\ callCut' = (callCut \/ inEmergencyCall)
       \/ UNCHANGED <<odcpiActive, wanted, callCut>>
    /\ UNCHANGED <<odcpiTimer, mOdcpiRequest, mNonEsOdcpiReqCbMap, inEmergencyCall, asked>>
    /\ OdcpiTaken

\* initOdcpi and deRegisterOdcpi of the high priority.
ProcOdcpiHandler ==
    /\ \/ OdcpiHead("init") /\ mNonEsOdcpiReqCbMap' = mNonEsOdcpiReqCbMap \cup {"high"}
       \/ OdcpiHead("deRegister") /\ mNonEsOdcpiReqCbMap' = mNonEsOdcpiReqCbMap \ {"high"}
    /\ UNCHANGED <<odcpiTimer, odcpiActive, mOdcpiRequest, inEmergencyCall, odcpiHistory>>
    /\ OdcpiTaken

ProcOdcpi == \/ ProcOdcpiStart \/ ProcOdcpiStop \/ OdcpiTimerExpire
             \/ ProcOdcpiEngineUp \/ ProcOdcpiHandler

OdcpiNext == \/ \E kind \in OdcpiKind : ModemStarts(kind)
             \/ ModemStops \/ OdcpiModemRestarts \/ OdcpiEngineUp
             \/ OdcpiTimerFires \/ HandlerPosts \/ ProcOdcpi

\* The adapter's thread runs, and so do the timers and the message that follows a restart.
OdcpiFairness == /\ WF_odcpiVars(ProcOdcpi) /\ WF_odcpiVars(OdcpiTimerFires)
                 /\ WF_odcpiVars(OdcpiEngineUp)

OdcpiSpec == OdcpiInit /\ [][OdcpiNext]_odcpiVars /\ OdcpiFairness

-----------------------------------------------------------------------------
(* Properties *)

OdcpiTypeOK ==
    /\ odcpiQueue \in Seq([op : {"START", "STOP", "expire", "engineUp", "init", "deRegister"},
                           kind : OdcpiKind \cup {NoOdcpi}])
    /\ mNonEsOdcpiReqCbMap \subseteq {"low", "high"}
    /\ odcpiActive \in BOOLEAN /\ mOdcpiRequest \in OdcpiKind
    /\ odcpiTimerActive \in BOOLEAN /\ odcpiTimerRuns \in BOOLEAN
    /\ modemSession \in OdcpiKind \cup {NoOdcpi} /\ modemBack \in BOOLEAN
    /\ inEmergencyCall \in BOOLEAN /\ callCut \in BOOLEAN
    /\ wanted \in OdcpiKind \cup {NoOdcpi}
    /\ asked \in [kind : OdcpiKind \cup {NoOdcpi}, by : {NoOdcpi, "framework", "low", "high"}]

\* A timer that counts as active always comes back, whatever STOP, restart of the modem or
\* emergency came in between: if it did not, every START after it would wait for ever.
TimerComesBack ==
    odcpiTimerActive => \/ odcpiTimerRuns
                        \/ \E i \in 1..Len(odcpiQueue) : odcpiQueue[i].op = "expire"

\* A session is active only while the timer repeats its request.
SessionIsRepeated == odcpiActive => odcpiTimerActive

\* SystemStatus reports an emergency call only during an emergency session, unless a
\* restart of the modem cut one off, which is not reported.
EmergencyCallEnds == inEmergencyCall => wanted = "emergency" \/ callCut

\* What the session, its timer and the reported state of the call have to do with each other.
OdcpiConsistent == TimerComesBack /\ SessionIsRepeated /\ EmergencyCallEnds

\* Every session is asked of the handler that is responsible for it, also when it starts in
\* the ten seconds after another one, or when the handler came later, unless it ends first.
OdcpiIsAsked == \A kind \in OdcpiKind :
    wanted = kind ~> \/ wanted # kind
                     \/ asked = Handler(kind)
=============================================================================
