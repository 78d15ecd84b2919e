----------------------------- MODULE AgpsSystem -----------------------------
(***************************************************************************)
(* The AGPS component with everybody who calls it.  The modem asks for and *)
(* releases connections through the QMI thread, the platform reports what  *)
(* became of them, and all of it reaches the AgpsManager as messages of    *)
(* the adapter's queue, which one thread handles in order                  *)
(* (gps/gnss/GnssAdapter.cpp, NativeAgpsHandler.cpp).                      *)
(*                                                                         *)
(* Interface "Internet" is served by NativeAgpsHandler, which answers      *)
(* inside the call that asks; interface "AGNSS" by the Android framework,  *)
(* which answers from a binder thread when it gets to it.                  *)
(***************************************************************************)
EXTENDS Agps, Sequences

CONSTANTS
    ReqType,               \* the AGPS types the modem asks for
    WdsQuery,              \* libloc_api_wds.so is there and is asked for the PDN type
    BadApn,                \* the platform may report an APN of more than MAX_APN_LEN
    EarlyRelease,          \* the values of releaseEarly to consider
    MaxWds,                \* bound: PDN type queries under way at once
    MaxBacklog             \* bound: the modem asks only when less is unanswered

ASSUME AgpsSystemAssumption == /\ ReqType \subseteq AgpsType
                               /\ WdsQuery \in BOOLEAN
                               /\ BadApn \in BOOLEAN
                               /\ EarlyRelease \subseteq BOOLEAN
                               /\ MaxWds \in Nat /\ MaxBacklog \in Nat \ {0}

VARIABLES
    queue,                 \* the adapter's message queue
    inbox,                 \* calls the Android framework has not answered yet
    held,                  \* held[n]: the platform has a connection up for us on n
    mConnected,            \* NativeAgpsHandler::mConnected
    releaseEarly,          \* the modem may release a handle before it is answered
    wds,                   \* PDN type queries the modem has not answered yet
    session                \* session[h]: what the modem knows of handle h

platform == <<inbox, held>>
sysVars == <<vars, queue, platform, mConnected, releaseEarly, wds, session>>

SessionState == {"idle", "opening", "open", "closing"}

MsgInit(N)       == [kind |-> "init", nifs |-> N]
MsgRequest(h, t) == [kind |-> "requestATL", handle |-> h, type |-> t]
MsgRelease(h)    == [kind |-> "releaseATL", handle |-> h]
MsgReport(k, n)  == [kind |-> k, nif |-> n]

Reports == {"atlOpenSuccess", "atlPdn", "atlOpenFailed", "atlClosed"}
Msgs == {MsgInit({n}) : n \in Nif} \cup {MsgRequest(h, t) : h \in Handle, t \in AgpsType}
        \cup {MsgRelease(h) : h \in Handle} \cup {MsgReport(k, n) : k \in Reports, n \in Nif}

InQueue(m) == \E i \in 1..Len(queue) : queue[i] = m

\* initDefaultAgpsCommand is posted while the adapter is constructed.
SysInit == /\ Init
           /\ queue = <<MsgInit({"Internet"})>>
           /\ inbox = <<>>
           /\ held = [n \in Nif |-> FALSE]
           /\ mConnected \in BOOLEAN
           /\ releaseEarly \in EarlyRelease
           /\ wds = <<>>
           /\ session = [h \in Handle |-> "idle"]

-----------------------------------------------------------------------------
(* The callbacks of one call of the AgpsManager *)

\* LocApiBase::atlOpenStatus and atlCloseStatus.
NotifyModem ==
    session' = [h \in Handle |->
                  IF h \in calls'.failed \cup calls'.closed THEN "idle"
                  ELSE IF h \in calls'.opened /\ session[h] = "opening" THEN "open"
                  ELSE session[h]]

\* NativeAgpsHandler::processATLRequestRelease posts its answer before it
\* returns.  A report with a bad APN is handled at once instead, by a machine
\* that is RELEASED or PENDING: reportAtlClosed does nothing.
NativeAnswers(request) ==
    IF ~ request THEN {<<MsgReport("atlClosed", "Internet")>>}
    ELSE IF ~ mConnected THEN {<<MsgReport("atlOpenFailed", "Internet")>>}
    ELSE {<<MsgReport("atlOpenSuccess", "Internet")>>} \cup (IF BadApn THEN {<<>>} ELSE {})

NativeHandler(rest) ==
    /\ \E answer \in NativeAnswers(calls'.conn = Request("Internet")) : queue' = rest \o answer
    /\ held' = [held EXCEPT !["Internet"] = mConnected /\ calls'.conn = Request("Internet")]
    /\ UNCHANGED inbox

\* Carry out the callbacks; rest is what the queue holds without the answers.
CarryOut(rest) ==
    /\ NotifyModem
    /\ \/ calls'.conn = NoConn /\ queue' = rest /\ UNCHANGED platform
       \/ calls'.conn.nif = "Internet" /\ NativeHandler(rest)
       \/ /\ calls'.conn.nif = "AGNSS"
          /\ inbox' = Append(inbox, calls'.conn.conn)
          /\ queue' = rest
          /\ UNCHANGED held

-----------------------------------------------------------------------------
(* The adapter's thread: proc() of the message at the head of the queue *)

Next_(kind, Handler(_)) ==
    /\ queue # <<>>
    /\ Head(queue).kind = kind
    /\ Handler(Head(queue))
    /\ CarryOut(Tail(queue))
    /\ UNCHANGED mConnected

ProcInit == Next_("init", LAMBDA m : CreateStateMachines(m.nifs)) /\ UNCHANGED wds

ProcRequest ==
    Next_("requestATL", LAMBDA m : RequestATL(m.handle, m.type)) /\ UNCHANGED wds

ProcRelease == Next_("releaseATL", LAMBDA m : ReleaseATL(m.handle)) /\ UNCHANGED wds

\* AgpsMsgAtlOpenSuccess: without the library, or with an empty APN, the grant
\* is reported at once; else only when the modem has told the PDN type.
ProcOpenSuccess ==
    Next_("atlOpenSuccess", LAMBDA m : ReportAtlOpenSuccess(m.nif)) /\ UNCHANGED wds

ProcOpenQuery ==
    /\ WdsQuery /\ Len(wds) < MaxWds
    /\ Next_("atlOpenSuccess", LAMBDA m : calls' = Quiet /\ UNCHANGED <<created, machines>>)
    /\ wds' = Append(wds, Head(queue).nif)

ProcPdn == Next_("atlPdn", LAMBDA m : ReportAtlOpenSuccess(m.nif)) /\ UNCHANGED wds

ProcOpenFailed ==
    Next_("atlOpenFailed", LAMBDA m : ReportAtlOpenFailed(m.nif)) /\ UNCHANGED wds

ProcClosed == Next_("atlClosed", LAMBDA m : ReportAtlClosed(m.nif)) /\ UNCHANGED wds

Adapter == \/ ProcInit \/ ProcRequest \/ ProcRelease \/ ProcOpenSuccess
           \/ ProcOpenQuery \/ ProcPdn \/ ProcOpenFailed \/ ProcClosed

-----------------------------------------------------------------------------
(* The modem.  It uses a handle again only when it has been told that the  *)
(* last use of it is over.                                                 *)

Post(m) == queue' = Append(queue, m)

\* The server requests are enabled when the first machine is created.
ModemRequest(h, type) ==
    /\ created # {}
    /\ session[h] = "idle"
    /\ Len(queue) + Len(inbox) + Len(wds) < MaxBacklog
    /\ session' = [session EXCEPT ![h] = "opening"]
    /\ Post(MsgRequest(h, type))
    /\ UNCHANGED <<vars, platform, mConnected, wds>>

ModemRelease(h) ==
    /\ session[h] \in IF releaseEarly THEN {"opening", "open"} ELSE {"open"}
    /\ session' = [session EXCEPT ![h] = "closing"]
    /\ Post(MsgRelease(h))
    /\ UNCHANGED <<vars, platform, mConnected, wds>>

\* reportPdnTypeFromWds, on the thread of the WDS library.
WdsAnswer ==
    /\ wds # <<>>
    /\ wds' = Tail(wds)
    /\ Post(MsgReport("atlPdn", Head(wds)))
    /\ UNCHANGED <<vars, platform, mConnected, session>>

-----------------------------------------------------------------------------
(* The platform *)

\* AGnss::setCallback.
FwSetCallback ==
    /\ "AGNSS" \notin created /\ ~ InQueue(MsgInit({"AGNSS"}))
    /\ Post(MsgInit({"AGNSS"}))
    /\ UNCHANGED <<vars, platform, mConnected, wds, session>>

FwAnswer(call, report, up) ==
    /\ inbox # <<>> /\ Head(inbox) = call
    /\ inbox' = Tail(inbox)
    /\ held' = [held EXCEPT !["AGNSS"] = up]
    /\ Post(MsgReport(report, "AGNSS"))
    /\ UNCHANGED <<vars, mConnected, wds, session>>

FwOpen   == FwAnswer("request", "atlOpenSuccess", TRUE)
FwFail   == FwAnswer("request", "atlOpenFailed", FALSE)
FwClose  == FwAnswer("release", "atlClosed", FALSE)

\* dataConnOpenCommand with a bad APN reports the connection closed, and does
\* so on the caller's thread, ahead of whatever is queued.
FwOpenBadApn ==
    /\ BadApn
    /\ inbox # <<>> /\ Head(inbox) = "request"
    /\ ReportAtlClosed("AGNSS")
    /\ NotifyModem
    /\ inbox' = Tail(inbox) \o (IF calls'.conn = NoConn THEN <<>> ELSE <<calls'.conn.conn>>)
    /\ held' = [held EXCEPT !["AGNSS"] = TRUE]
    /\ UNCHANGED <<queue, mConnected, wds>>

\* The framework loses the connection: dataConnClosed without a release.
FwLost ==
    /\ held["AGNSS"]
    /\ held' = [held EXCEPT !["AGNSS"] = FALSE]
    /\ Post(MsgReport("atlClosed", "AGNSS"))
    /\ UNCHANGED <<vars, inbox, mConnected, wds, session>>

\* NativeAgpsHandler::notify with a new network state: nobody else is told.
NetworkChange ==
    /\ mConnected' = ~ mConnected
    /\ UNCHANGED <<vars, queue, platform, wds, session>>

Framework == FwOpen \/ FwFail \/ FwClose \/ FwOpenBadApn

SysNext == /\ \/ Adapter
              \/ \E h \in Handle :
                    ModemRelease(h) \/ \E type \in ReqType : ModemRequest(h, type)
              \/ WdsAnswer
              \/ FwSetCallback \/ Framework \/ FwLost \/ NetworkChange
           /\ UNCHANGED releaseEarly

SysSpec == SysInit /\ [][SysNext]_sysVars

(***************************************************************************)
(* The adapter's thread runs while its queue is not empty, and the         *)
(* framework and the WDS library answer what they were asked.  Nobody has  *)
(* to ask, and no connection has to be lost.                               *)
(***************************************************************************)
Fairness == /\ WF_sysVars(Adapter /\ UNCHANGED releaseEarly)
            /\ WF_sysVars(Framework /\ UNCHANGED releaseEarly)
            /\ WF_sysVars(WdsAnswer /\ UNCHANGED releaseEarly)

FairSpec == SysSpec /\ Fairness

\* ... and the modem does not keep an open connection forever; it need not
\* give up a request that is not answered.
ReleaseOpen(h) == session[h] = "open" /\ ModemRelease(h) /\ UNCHANGED releaseEarly
ModemFairness == \A h \in Handle : WF_sysVars(ReleaseOpen(h))

FairModemSpec == FairSpec /\ ModemFairness

-----------------------------------------------------------------------------
(* Properties *)

SysTypeOK == /\ TypeOK
             /\ queue \in Seq(Msgs)
             /\ inbox \in Seq({"request", "release"})
             /\ held \in [Nif -> BOOLEAN]
             /\ mConnected \in BOOLEAN
             /\ releaseEarly \in BOOLEAN
             /\ wds \in Seq(Nif)
             /\ session \in [Handle -> SessionState]

\* What the modem believes of a handle is what the machines hold for it, up
\* to the messages still queued: no handle is lost and none is left behind.
SessionsTracked ==
    \A h \in Handle :
      /\ session[h] = "opening" =>
           \/ \E t \in AgpsType : InQueue(MsgRequest(h, t))
           \/ \E n \in Nif : h \in Active(n) /\ mState[n] \in {"PENDING", "RELEASING"}
      /\ session[h] = "open" => \E n \in Nif : h \in Active(n) /\ mState[n] = "ACQUIRED"
      /\ session[h] = "closing" =>
           InQueue(MsgRelease(h)) \/ \E n \in Nif : h \in mInactive[n]
      /\ session[h] = "idle" => \A n \in Nif : h \notin mSubscribers[n]

\* "We already have the data connection setup": a machine that tells modem
\* handles that they have a connection has one, or will read that it is gone.
GrantMeansConnection ==
    \A n \in Nif : mState[n] = "ACQUIRED" => held[n] \/ InQueue(MsgReport("atlClosed", n))

\* It holds as long as the modem releases only what it has been granted.
OrderlyGrantMeansConnection == ~ releaseEarly => GrantMeansConnection

\* Under the same condition a machine that has gone back to RELEASED leaves no
\* connection up: if the platform still has one, the release is on its way.
OrderlyNoConnectionLeaked ==
    ~ releaseEarly =>
        \A n \in Nif : held[n] /\ mState[n] = "RELEASED" =>
                          n = "AGNSS" /\ \E i \in 1..Len(inbox) : inbox[i] = "release"

\* With a modem that releases only what it was granted, the machines and the platform agree
\* on the connections, up to what is under way between them.
OrderlyConnections == OrderlyGrantMeansConnection /\ OrderlyNoConnectionLeaked

\* A handle the modem asks a connection for is told whether it has one.
RequestAnswered == \A h \in Handle : session[h] = "opening" ~> session[h] # "opening"

\* A handle the modem releases is told that the connection is closed, however
\* the releases and requests of other handles and of the platform interleave.
ReleaseAnswered == \A h \in Handle : session[h] = "closing" ~> session[h] = "idle"

\* Whatever the modem asks of a handle is answered in the end.
HandlesAnswered == RequestAnswered /\ ReleaseAnswered
=============================================================================
