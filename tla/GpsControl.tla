------------------------------ MODULE GpsControl ------------------------------
(***************************************************************************)
(* Who may use the receiver: LocationAPIControlClient (LocationAPIClient-  *)
(* Base.cpp) and the commands of GnssAdapter that set the modem's GPS lock *)
(* - enable, disable, GPS_LOCK of gnssUpdateConfig, and the control of     *)
(* non-framework applications (NFW).  Commands are messages of the         *)
(* adapter's thread; it sends the lock to the modem by messages to the     *)
(* modem's interface.                                                      *)
(***************************************************************************)
EXTENDS Naturals, Sequences

CONSTANTS Controller,      \* the LocationAPIControlClients
          ConfLocks,       \* GPS_LOCK as gps.conf may have it
          UpdateLocks,     \* GPS_LOCK as the framework may configure it
          MaxCtrlCalls,    \* bound: calls
          MaxCtrlQueue,    \* bound: messages under way when a call is made
          MaxModemStarts   \* bound: starts of the modem

LockBits == {"MO", "NFW"}  \* mobile originated, and all bits of GNSS_CONFIG_GPS_LOCK_NFW_ALL

ASSUME GpsControlAssumption == ConfLocks \subseteq SUBSET LockBits /\ UpdateLocks \subseteq SUBSET LockBits

VARIABLES
    mEnabled,              \* of each client
    ctrlSession,           \* session of its CTRL_REQUEST_CONTROL queue
    ctrlQueue,             \* messages for the adapter's thread
    afwControlId,
    mSupportNfwControl,    \* Q behaviour, until GPS_LOCK is configured
    GPS_LOCK,              \* ContextBase::mGps_conf.GPS_LOCK
    ctrlKnown, ctrlPending,\* isEngineCapabilitiesKnown() and mPendingMsgs
    mGpsLock,              \* what XtraSystemStatusObserver was told
    locApiQueue,           \* locks on their way to the modem
    modemLock, ctrlModemUp,\* the modem
    ctrlCalls, modemStarts

ctrlClientVars == <<mEnabled, ctrlSession, ctrlCalls>>
ctrlAdapter == <<afwControlId, mSupportNfwControl, GPS_LOCK, ctrlKnown, ctrlPending, mGpsLock>>
ctrlModem == <<modemLock, ctrlModemUp, modemStarts>>
ctrlVars == <<ctrlClientVars, ctrlAdapter, ctrlModem, ctrlQueue, locApiQueue>>

Unknown == {"unknown"}     \* mGpsLock before the first update

CtrlInit ==
    /\ mEnabled = [c \in Controller |-> FALSE]
    /\ ctrlSession = [c \in Controller |-> 0]
    /\ ctrlQueue = <<>>
    /\ afwControlId = 0 /\ mSupportNfwControl = TRUE
    /\ GPS_LOCK \in ConfLocks
    /\ ctrlKnown = FALSE /\ ctrlPending = <<>>
    /\ mGpsLock = Unknown
    /\ locApiQueue = <<>>
    /\ modemLock = LockBits /\ ctrlModemUp = FALSE
    /\ ctrlCalls = 0 /\ modemStarts = 0

Ctrl(op, id, lock) == [op |-> op, id |-> id, lock |-> lock]

Called(m) == /\ ctrlCalls < MaxCtrlCalls /\ Len(ctrlQueue) < MaxCtrlQueue
             /\ ctrlCalls' = ctrlCalls + 1
             /\ ctrlQueue' = Append(ctrlQueue, m)
             /\ UNCHANGED <<ctrlAdapter, ctrlModem, locApiQueue>>

\* locAPIEnable, with a number of its own for the session.
LocAPIEnable(c) ==
    /\ ~mEnabled[c]
    /\ Called(Ctrl("enable", ctrlCalls + 1, {}))
    /\ mEnabled' = [mEnabled EXCEPT ![c] = TRUE]
    /\ ctrlSession' = [ctrlSession EXCEPT ![c] = ctrlCalls + 1]

\* locAPIDisable names the session of the client's last enable.
LocAPIDisable(c) ==
    /\ mEnabled[c] /\ ctrlSession[c] > 0
    /\ Called(Ctrl("disable", ctrlSession[c], {}))
    /\ mEnabled' = [mEnabled EXCEPT ![c] = FALSE]
    /\ UNCHANGED ctrlSession

\* locAPIGnssUpdateConfig with GNSS_CONFIG_FLAGS_GPS_LOCK_VALID_BIT.
UpdateGpsLock(lock) == Called(Ctrl("config", 0, lock)) /\ UNCHANGED <<mEnabled, ctrlSession>>

\* nfwControlCommand with no application enabled, or with all.
NfwControl(lock) == Called(Ctrl("nfw", 0, lock)) /\ UNCHANGED <<mEnabled, ctrlSession>>

CtrlIs(op) == ctrlQueue # <<>> /\ Head(ctrlQueue).op = op
Taken == ctrlQueue' = Tail(ctrlQueue)
SetLock(lock) == locApiQueue' = Append(locApiQueue, lock)

\* Mutant: XTRA is told the bits of NFW, too.
MutEnableGnssTellsAll ==
    /\ CtrlIs("enable") /\ Taken
    /\ IF afwControlId > 0 THEN UNCHANGED <<afwControlId, GPS_LOCK, locApiQueue, mGpsLock>>
       ELSE /\ afwControlId' = Head(ctrlQueue).id
            /\ GPS_LOCK' = IF mSupportNfwControl THEN GPS_LOCK \ {"MO"} ELSE GPS_LOCK
            /\ LET lock == IF mSupportNfwControl THEN GPS_LOCK' ELSE {}
               IN  SetLock(lock) /\ mGpsLock' = lock
    /\ UNCHANGED <<ctrlClientVars, mSupportNfwControl, ctrlKnown, ctrlPending, ctrlModem>>

\* MsgEnableGnss; a second client is refused with ALREADY_STARTED.
EnableGnss ==
    /\ CtrlIs("enable") /\ Taken
    /\ IF afwControlId > 0 THEN UNCHANGED <<afwControlId, GPS_LOCK, locApiQueue, mGpsLock>>
       ELSE /\ afwControlId' = Head(ctrlQueue).id
            /\ GPS_LOCK' = IF mSupportNfwControl THEN GPS_LOCK \ {"MO"} ELSE GPS_LOCK
            /\ LET lock == IF mSupportNfwControl THEN GPS_LOCK' ELSE {}
               IN  SetLock(lock) /\ mGpsLock' = lock \ {"NFW"}
    /\ UNCHANGED <<ctrlClientVars, mSupportNfwControl, ctrlKnown, ctrlPending, ctrlModem>>

\* Mutant: the lock is set as it was.
MutDisableGnssNoLock ==
    /\ CtrlIs("disable") /\ Taken
    /\ IF afwControlId # Head(ctrlQueue).id THEN UNCHANGED <<afwControlId, locApiQueue, mGpsLock>>
       ELSE afwControlId' = 0 /\ SetLock(GPS_LOCK) /\ mGpsLock' = GPS_LOCK \ {"NFW"}
    /\ UNCHANGED <<ctrlClientVars, GPS_LOCK, mSupportNfwControl, ctrlKnown, ctrlPending, ctrlModem>>

\* MsgDisableGnss; the id of another client's enable, or of a refused one, is unknown.
DisableGnss ==
    /\ CtrlIs("disable") /\ Taken
    /\ IF afwControlId # Head(ctrlQueue).id
       THEN UNCHANGED <<afwControlId, GPS_LOCK, locApiQueue, mGpsLock>>
       ELSE /\ afwControlId' = 0
            /\ GPS_LOCK' = IF mSupportNfwControl THEN GPS_LOCK \cup {"MO"} ELSE GPS_LOCK
            /\ SetLock(GPS_LOCK') /\ mGpsLock' = GPS_LOCK' \ {"NFW"}
    /\ UNCHANGED <<ctrlClientVars, mSupportNfwControl, ctrlKnown, ctrlPending, ctrlModem>>

\* While the capabilities are unknown the next two are put aside.
Defer ==
    /\ ~ctrlKnown /\ (CtrlIs("config") \/ CtrlIs("nfw")) /\ Taken
    /\ ctrlPending' = Append(ctrlPending, Head(ctrlQueue))
    /\ UNCHANGED <<ctrlClientVars, afwControlId, mSupportNfwControl, GPS_LOCK, ctrlKnown, mGpsLock,
                   locApiQueue, ctrlModem>>

\* MsgGnssUpdateConfig: from now on P behaviour.  The modem is not told when it is enabled
\* and in P already; when it is enabled in Q, NFW are unlocked, too.
UpdateConfig ==
    /\ CtrlIs("config") /\ Taken /\ ctrlKnown
    /\ GPS_LOCK' = Head(ctrlQueue).lock \cup {"MO"}
    /\ IF afwControlId = 0 THEN SetLock(GPS_LOCK')
       ELSE IF mSupportNfwControl THEN SetLock({}) ELSE UNCHANGED locApiQueue
    /\ mSupportNfwControl' = FALSE
    /\ UNCHANGED <<ctrlClientVars, afwControlId, ctrlKnown, ctrlPending, mGpsLock, ctrlModem>>

ControlNfw ==
    /\ CtrlIs("nfw") /\ Taken /\ ctrlKnown
    /\ IF mSupportNfwControl
       THEN GPS_LOCK' = (GPS_LOCK \cap {"MO"}) \cup Head(ctrlQueue).lock /\ SetLock(GPS_LOCK')
       ELSE UNCHANGED <<GPS_LOCK, locApiQueue>>
    /\ UNCHANGED <<ctrlClientVars, afwControlId, mSupportNfwControl, ctrlKnown, ctrlPending, mGpsLock, ctrlModem>>

\* MsgHandleEngineUpEvent: setConfig chooses the lock, then the messages put aside are sent.
\* The message before it, readConfig, reads gps.conf once and never again.
HandleEngineUp ==
    /\ CtrlIs("engineUp")
    /\ ctrlKnown' = TRUE
    /\ SetLock(IF mSupportNfwControl \/ afwControlId = 0 THEN GPS_LOCK ELSE {})
    /\ ctrlQueue' = Tail(ctrlQueue) \o ctrlPending
    /\ ctrlPending' = <<>>
    /\ UNCHANGED <<ctrlClientVars, afwControlId, mSupportNfwControl, GPS_LOCK, mGpsLock, ctrlModem>>

\* setGpsLockSync on the thread of the modem's interface; without a modem it fails.
SetGpsLockSync ==
    /\ locApiQueue # <<>>
    /\ locApiQueue' = Tail(locApiQueue)
    /\ modemLock' = IF ctrlModemUp THEN Head(locApiQueue) ELSE modemLock
    /\ UNCHANGED <<ctrlClientVars, ctrlAdapter, ctrlQueue, ctrlModemUp, modemStarts>>

ModemDown ==
    /\ ctrlModemUp
    /\ ctrlModemUp' = FALSE
    /\ UNCHANGED <<ctrlClientVars, ctrlAdapter, ctrlQueue, locApiQueue, modemLock, modemStarts>>

ModemUp ==
    /\ ~ctrlModemUp /\ modemStarts < MaxModemStarts
    /\ ctrlModemUp' = TRUE /\ modemStarts' = modemStarts + 1
    /\ ctrlQueue' = Append(ctrlQueue, Ctrl("engineUp", 0, {}))
    /\ UNCHANGED <<ctrlClientVars, ctrlAdapter, locApiQueue, modemLock>>

CtrlNext ==
    \/ \E c \in Controller : LocAPIEnable(c) \/ LocAPIDisable(c)
    \/ \E lock \in UpdateLocks : UpdateGpsLock(lock)
    \/ \E lock \in {{}, {"NFW"}} : NfwControl(lock)
    \/ EnableGnss \/ DisableGnss \/ Defer \/ UpdateConfig \/ ControlNfw \/ HandleEngineUp
    \/ SetGpsLockSync \/ ModemDown \/ ModemUp

CtrlSpec == CtrlInit /\ [][CtrlNext]_ctrlVars

CtrlTypeOK ==
    /\ mEnabled \in [Controller -> BOOLEAN]
    /\ ctrlSession \in [Controller -> 0..MaxCtrlCalls] /\ afwControlId \in 0..MaxCtrlCalls
    /\ mSupportNfwControl \in BOOLEAN
    /\ GPS_LOCK \subseteq LockBits /\ modemLock \subseteq LockBits
    /\ mGpsLock \in {Unknown} \cup SUBSET {"MO"}

CtrlSettled == ctrlQueue = <<>> /\ locApiQueue = <<>> /\ ctrlModemUp

\* Once everything is worked off, the modem has the lock the comment of setConfig
\* describes: GPS_LOCK itself in Q behaviour and while disabled, none while enabled in P,
\* in whatever order clients, configuration and restarts of the modem came.
ModemLockRight ==
    CtrlSettled => modemLock = IF mSupportNfwControl \/ afwControlId = 0 THEN GPS_LOCK ELSE {}

\* Once everything is worked off, a lone client that has enabled the receiver has it
\* unlocked for the framework, and one that has disabled it again has it locked.
UserSwitchWorks ==
    CtrlSettled => \A c \in Controller : Controller = {c} /\ ctrlSession[c] > 0 =>
                      (mEnabled[c] <=> "MO" \notin modemLock)

\* Once everything is worked off, XTRA takes GPS for locked exactly when the modem does.
XtraAgrees ==
    CtrlSettled /\ mGpsLock # Unknown => mGpsLock = modemLock \ {"NFW"}

\* The modem, XTRA and the user agree about the lock.
LockAgreed == ModemLockRight /\ XtraAgrees /\ UserSwitchWorks
=============================================================================
