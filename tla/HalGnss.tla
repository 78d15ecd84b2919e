------------------------------- MODULE HalGnss -------------------------------
(***************************************************************************)
(* The two IGnss objects of the service: HIDL (android/2.1/Gnss.cpp) and   *)
(* AIDL (android/aidl-impl/Gnss.cpp), each with its GnssAPIClient.  Each   *)
(* object serves one call after the other on its binder thread; meanwhile  *)
(* the adapter's thread tells the capabilities to the callback that it     *)
(* finds under the client's mutex.  The objects share the control of the   *)
(* receiver, which one of them holds.                                      *)
(*                                                                         *)
(* A callback stands for the framework that gave it.  The framework may    *)
(* die, and its next incarnation starts when the binder has told of that.  *)
(***************************************************************************)
EXTENDS Naturals

CONSTANTS
    HidlVersion,           \* versions of IGnss the framework uses
    ConfItem,              \* what updateConfiguration can set
    MaxFrames,             \* bound: incarnations of the framework
    MaxHalCalls,           \* bound: calls of the HAL
    MaxCapabilities        \* bound: changes of the modem's capabilities

ASSUME HalGnssAssumption == HidlVersion \subseteq {"1.0", "1.1", "2.0", "2.1"}

Hal == {"hidl", "aidl"}
VersionsOf(h) == IF h = "hidl" THEN HidlVersion ELSE {"aidl"}
Slot == {"1", "2.0", "2.1"}        \* the one slot of the AIDL client is called 2.1
SlotOf(v) == IF v \in {"1.0", "1.1"} THEN "1" ELSE IF v = "2.0" THEN v ELSE "2.1"
HostName == "assistanceServer"

VARIABLES
    frame,                 \* the framework that is alive; the ones before are dead
    cbIface,               \* of each object: whose callback is set (0: none), and its version
    niIface,               \* mGnssNiCbIface is set
    linked,                \* of each object: whose death it is told of
    api,                   \* of each object: mApi is not null
    clIface,               \* of each GnssAPIClient: the callback in each slot
    halConf,               \* of each object: what was configured, waits, and was handed on
    capCached, capMask,    \* mLocationCapabilitiesCached, mLocationCapabilitiesMask
    halTracking,           \* GnssAPIClient::mTracking and the base's session
    halEnabled,            \* LocationAPIControlClient::mEnabled
    controlOwner,          \* whose enable the adapter has accepted (afwControlId)
    halCall,               \* of each object: the call it is busy with
    capRun, capDue,        \* the adapter's thread in onCapabilitiesCb, and whom it has to tell
    modemCaps,             \* the modem's capabilities, by number; 0 while unknown
    capTold,               \* history: what the present callback was told last
    capCrossed,            \* history: two onCapabilitiesCb of one object crossed
    halCalls

halObject == <<cbIface, niIface, linked, api, halConf>>
halClient == <<clIface, halTracking, halEnabled, controlOwner>>
halCaps == <<capCached, capMask, capTold, capCrossed>>
halAdapter == <<capRun, capDue, modemCaps>>
halVars == <<halObject, halClient, halCaps, halAdapter, frame, halCall, halCalls>>

NoIface == [of |-> 0, version |-> "none"]
NoRun == [hal |-> "none", mask |-> 0]
NoHalCall == [pc |-> "idle", mask |-> 0]

\* mApi of the AIDL object is never initialised; it is taken for the null that the
\* platform's allocator, which clears what it gives, leaves there.
HalInit ==
    /\ frame = 1
    /\ cbIface = [h \in Hal |-> NoIface]
    /\ niIface = FALSE
    /\ linked = [h \in Hal |-> {}]
    /\ api = [h \in Hal |-> FALSE]
    /\ clIface = [h \in Hal |-> [s \in Slot |-> 0]]
    /\ halConf = [h \in Hal |-> [said |-> {}, waits |-> {}, sent |-> {}]]
    /\ capCached = [h \in Hal |-> FALSE] /\ capMask = [h \in Hal |-> 0]
    /\ halTracking = FALSE
    /\ halEnabled = [h \in Hal |-> FALSE] /\ controlOwner = "none"
    /\ halCall = [h \in Hal |-> NoHalCall]
    /\ capRun = NoRun /\ capDue = {} /\ modemCaps = 0
    /\ capTold = [h \in Hal |-> 0] /\ capCrossed = {}
    /\ halCalls = 0

InCall(h, pc) == halCall[h].pc = pc
HalGoto(h, pc, mask) == halCall' = [halCall EXCEPT ![h] = [pc |-> pc, mask |-> mask]]

\* The binder tells of a death before a new framework calls.
Takes(h) == /\ InCall(h, "idle") /\ halCalls < MaxHalCalls
            /\ linked[h] \subseteq {frame}
            /\ halCalls' = halCalls + 1

-----------------------------------------------------------------------------
(* What a GnssAPIClient does for its object.                               *)

\* The slot that onCapabilitiesCb takes: the newest version goes first.
SlotUsed(h) == IF clIface[h]["2.1"] # 0 THEN "2.1" ELSE IF clIface[h]["2.0"] # 0 THEN "2.0" ELSE "1"

\* What is told reaches the callback that was set last, and no older one.
Listens(h) == /\ cbIface[h].of # 0
              /\ SlotUsed(h) = SlotOf(cbIface[h].version)
              /\ clIface[h][SlotUsed(h)] = cbIface[h].of

TellCapabilities(h, mask) ==
    capTold' = IF Listens(h) THEN [capTold EXCEPT ![h] = mask] ELSE capTold

\* Mutant: callbacks of the other versions stay in the client.
MutSlotsKept(h, v) == clIface[h]

\* What a client keeps when a callback of version v is set.
SlotsKept(h, v) == [s \in Slot |-> IF s = SlotOf(v) THEN clIface[h][s] ELSE 0]

\* locAPIEnable: the adapter accepts one control session at a time.
GnssEnable(h) ==
    /\ halEnabled' = [halEnabled EXCEPT ![h] = TRUE]
    /\ controlOwner' = IF ~halEnabled[h] /\ controlOwner = "none" THEN h ELSE controlOwner

\* Mutant: the adapter is not asked to end the control session.
MutGnssDisable(h) == halEnabled' = [halEnabled EXCEPT ![h] = FALSE] /\ UNCHANGED controlOwner

\* locAPIDisable: the adapter ends the control session of who holds it.
GnssDisable(h) ==
    /\ halEnabled' = [halEnabled EXCEPT ![h] = FALSE]
    /\ controlOwner' = IF halEnabled[h] /\ controlOwner = h THEN "none" ELSE controlOwner

\* The first half of onCapabilitiesCb; it crosses when the other thread is in it.
WriteCapabilities(h, mask, busy) ==
    /\ capMask' = [capMask EXCEPT ![h] = mask]
    /\ capCached' = [capCached EXCEPT ![h] = TRUE]
    /\ capCrossed' = IF busy THEN capCrossed \cup {h} ELSE capCrossed

-----------------------------------------------------------------------------
(* Calls of the framework.                                                 *)

\* Callbacks of the other versions leave the client and the object, then the new one is set.
SetCallback(h, v) ==
    /\ Takes(h) /\ v \in VersionsOf(h)
    /\ clIface' = IF api[h] THEN [clIface EXCEPT ![h] = SlotsKept(h, v)] ELSE clIface
    /\ niIface' = IF v \in {"2.0", "2.1"} THEN FALSE ELSE niIface
    /\ cbIface' = [cbIface EXCEPT ![h] = [of |-> frame, version |-> v]]
    /\ linked' = [linked EXCEPT ![h] = (IF h = "hidl" THEN {} ELSE @) \cup {frame}]
    /\ capTold' = [capTold EXCEPT ![h] = 0]
    /\ HalGoto(h, "api", 0)
    /\ UNCHANGED <<api, halConf, halTracking, halEnabled, controlOwner, capCached, capMask,
                   capCrossed, halAdapter, frame>>

\* getApi: a new client asks the adapter for the capabilities and gets the waiting
\* configuration; then the callback goes into its slot and the receiver is enabled.
UseApi(h) ==
    /\ InCall(h, "api")
    /\ api' = [api EXCEPT ![h] = TRUE]
    /\ capDue' = IF api[h] THEN capDue ELSE capDue \cup {h}
    /\ halConf' = IF api[h] THEN halConf
                  ELSE [halConf EXCEPT ![h] = [said |-> @.said, waits |-> {}, sent |-> @.sent \cup @.waits]]
    /\ clIface' = [clIface EXCEPT ![h][SlotOf(cbIface[h].version)] = cbIface[h].of]
    /\ GnssEnable(h)
    /\ HalGoto(h, "ask", 0)
    /\ UNCHANGED <<cbIface, niIface, linked, halTracking, halCaps, capRun, modemCaps, frame, halCalls>>

\* requestCapabilities: only what is cached is sent again.
RequestCapabilities(h) ==
    /\ InCall(h, "ask")
    /\ IF capCached[h] THEN HalGoto(h, "write", capMask[h]) ELSE HalGoto(h, "idle", 0)
    /\ UNCHANGED <<halObject, halClient, halCaps, halAdapter, frame, halCalls>>

BinderWrites(h) ==
    /\ InCall(h, "write")
    /\ WriteCapabilities(h, halCall[h].mask, capRun.hal = h)
    /\ HalGoto(h, "tell", halCall[h].mask)
    /\ UNCHANGED <<halObject, halClient, capTold, halAdapter, frame, halCalls>>

BinderTells(h) ==
    /\ InCall(h, "tell")
    /\ TellCapabilities(h, halCall[h].mask)
    /\ HalGoto(h, "idle", 0)
    /\ UNCHANGED <<halObject, halClient, capCached, capMask, capCrossed, halAdapter, frame, halCalls>>

\* The NI callback shares a slot of the client with the callback of IGnss 1.0.
SetGnssNiCb ==
    /\ Takes("hidl")
    /\ niIface' = TRUE
    /\ clIface' = IF api["hidl"]
                  THEN [clIface EXCEPT !["hidl"]["1"] =
                           IF cbIface["hidl"].version = "1.0" THEN cbIface["hidl"].of ELSE 0]
                  ELSE clIface
    /\ UNCHANGED <<cbIface, linked, api, halConf, halTracking, halEnabled, controlOwner, halCaps,
                   halAdapter, frame, halCall>>

\* Without a client the items wait in mPendingConfig, where the name of a server is not copied.
UpdateConfiguration(h, item) ==
    /\ Takes(h)
    /\ halConf' = [halConf EXCEPT ![h] =
          [said |-> @.said \cup {item},
           sent |-> IF api[h] THEN @.sent \cup {item} ELSE @.sent,
           waits |-> IF api[h] THEN @.waits ELSE @.waits \cup ({item} \ {HostName})]]
    /\ UNCHANGED <<cbIface, niIface, linked, api, halClient, halCaps, halAdapter, frame, halCall>>

\* A framework starts a session when it has set its callback.
GnssStart == /\ Takes("hidl") /\ cbIface["hidl"].of # 0
             /\ halTracking' = TRUE
             /\ UNCHANGED <<halObject, clIface, halEnabled, controlOwner, halCaps, halAdapter,
                            frame, halCall>>

GnssStop == /\ Takes("hidl") /\ api["hidl"]
            /\ halTracking' = FALSE
            /\ UNCHANGED <<halObject, clIface, halEnabled, controlOwner, halCaps, halAdapter,
                           frame, halCall>>

\* cleanup of the HIDL object, close of the AIDL object: the callbacks stay.
Cleanup(h) ==
    /\ Takes(h) /\ api[h]
    /\ halTracking' = IF h = "hidl" THEN FALSE ELSE halTracking
    /\ GnssDisable(h)
    /\ UNCHANGED <<halObject, clIface, halCaps, halAdapter, frame, halCall>>

-----------------------------------------------------------------------------
(* The framework dies, and handleClientDeath follows.                      *)

FrameworkDies == /\ frame < MaxFrames /\ frame' = frame + 1
                 /\ UNCHANGED <<halObject, halClient, halCaps, halAdapter, halCall, halCalls>>

\* The HIDL object drops every callback; the AIDL client keeps the dead one.
HandleClientDeath(h) ==
    /\ InCall(h, "idle") /\ linked[h] \ {frame} # {}
    /\ linked' = [linked EXCEPT ![h] = @ \cap {frame}]
    /\ cbIface' = [cbIface EXCEPT ![h] = NoIface]
    /\ niIface' = (h # "hidl" /\ niIface)
    /\ halTracking' = IF h = "hidl" /\ api[h] THEN FALSE ELSE halTracking
    /\ clIface' = IF h = "hidl" /\ api[h] THEN [clIface EXCEPT ![h] = [s \in Slot |-> 0]] ELSE clIface
    /\ IF api[h] THEN GnssDisable(h) ELSE UNCHANGED <<halEnabled, controlOwner>>
    /\ UNCHANGED <<api, halConf, halCaps, halAdapter, frame, halCall, halCalls>>

-----------------------------------------------------------------------------
(* The adapter's thread.                                                   *)

\* The modem comes up, or comes up with other capabilities: every client is to be told.
ModemCapabilities ==
    /\ modemCaps < MaxCapabilities
    /\ modemCaps' = modemCaps + 1
    /\ capDue' = {h \in Hal : api[h]}
    /\ UNCHANGED <<halObject, halClient, halCaps, capRun, frame, halCall, halCalls>>

AdapterWrites(h) ==
    /\ capRun = NoRun /\ modemCaps > 0 /\ h \in capDue
    /\ WriteCapabilities(h, modemCaps, halCall[h].pc \in {"write", "tell"})
    /\ capRun' = [hal |-> h, mask |-> modemCaps]
    /\ capDue' = capDue \ {h}
    /\ UNCHANGED <<halObject, halClient, capTold, modemCaps, frame, halCall, halCalls>>

AdapterTells ==
    /\ capRun # NoRun
    /\ TellCapabilities(capRun.hal, capRun.mask)
    /\ capRun' = NoRun
    /\ UNCHANGED <<halObject, halClient, capCached, capMask, capCrossed, capDue, modemCaps,
                   frame, halCall, halCalls>>

HalNext ==
    \/ \E h \in Hal : \/ \E v \in VersionsOf(h) : SetCallback(h, v)
                      \/ \E item \in ConfItem : UpdateConfiguration(h, item)
                      \/ UseApi(h) \/ RequestCapabilities(h) \/ BinderWrites(h) \/ BinderTells(h)
                      \/ Cleanup(h) \/ HandleClientDeath(h) \/ AdapterWrites(h)
    \/ SetGnssNiCb \/ GnssStart \/ GnssStop
    \/ FrameworkDies \/ ModemCapabilities \/ AdapterTells

HalSpec == HalInit /\ [][HalNext]_halVars

-----------------------------------------------------------------------------
(* Properties.                                                             *)

HalTypeOK ==
    /\ frame \in 1..MaxFrames
    /\ cbIface \in [Hal -> [of : 0..MaxFrames, version : HidlVersion \cup {"aidl", "none"}]]
    /\ niIface \in BOOLEAN /\ linked \in [Hal -> SUBSET (1..MaxFrames)] /\ api \in [Hal -> BOOLEAN]
    /\ clIface \in [Hal -> [Slot -> 0..MaxFrames]]
    /\ halConf \in [Hal -> [{"said", "waits", "sent"} -> SUBSET ConfItem]]
    /\ capCached \in [Hal -> BOOLEAN] /\ capMask \in [Hal -> 0..MaxCapabilities]
    /\ halTracking \in BOOLEAN /\ halEnabled \in [Hal -> BOOLEAN]
    /\ controlOwner \in Hal \cup {"none"}
    /\ halCall \in [Hal -> [pc : {"idle", "api", "ask", "write", "tell"}, mask : 0..MaxCapabilities]]
    /\ capRun \in [hal : Hal \cup {"none"}, mask : 0..MaxCapabilities]
    /\ capDue \subseteq Hal /\ modemCaps \in 0..MaxCapabilities
    /\ capTold \in [Hal -> 0..MaxCapabilities] /\ capCrossed \subseteq Hal
    /\ halCalls \in 0..MaxHalCalls

\* A framework of IGnss 1.1 that sets an NI callback loses its own (setGnssNiCb hands on
\* the callback of 1.0, which is null).
LostToNi(h) == cbIface[h].version = "1.1" /\ niIface

\* Between two calls, what reaches the client goes to the callback that was set last, in
\* whatever order the versions are used, by whatever incarnation of the framework.
RightListener ==
    \A h \in Hal : InCall(h, "idle") /\ cbIface[h].of # 0 /\ ~LostToNi(h)
                      => Listens(h)

\* When nothing is under way, the present callback has been told the modem's capabilities,
\* be they known before it came or after, unless two threads told them at the same time.
HalCapabilitiesTold ==
    \A h \in Hal : /\ InCall(h, "idle") /\ cbIface[h].of # 0 /\ ~LostToNi(h)
                   /\ modemCaps > 0 /\ h \notin capDue /\ capRun.hal # h /\ h \notin capCrossed
                   => capTold[h] = modemCaps

\* What was configured before there was a client is handed on with the first client, but for
\* the name of the assistance server.
ConfigHandedOn ==
    \A h \in Hal : InCall(h, "idle") /\ api[h]
                      => halConf[h].waits = {} /\ halConf[h].said \ {HostName} \subseteq halConf[h].sent

\* The framework is served: its callback is the one that is called, it knows the capabilities,
\* and its configuration has arrived.
HalServesClient == RightListener /\ HalCapabilitiesTold /\ ConfigHandedOn

\* A client that has died leaves nothing running: no session, no power for the receiver, and
\* no control that the next client could not get.
DeadClientReleased ==
    /\ InCall("hidl", "idle") /\ cbIface["hidl"].of = 0 /\ api["hidl"]
          => ~halTracking /\ (\A s \in Slot : clIface["hidl"][s] = 0)
    /\ \A h \in Hal : cbIface[h].of = 0 /\ api[h] => ~halEnabled[h]
    /\ controlOwner \in Hal => halEnabled[controlOwner]
=============================================================================
