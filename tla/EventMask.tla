----------------------------- MODULE EventMask ------------------------------
(***************************************************************************)
(* What the modem reports: every adapter keeps a mask of the events that   *)
(* its clients and services need (LocAdapterBase.h, GnssAdapter.cpp), and  *)
(* LocApiBase opens the modem, in a thread of its own, with the masks of   *)
(* all adapters together (LocApiBase.cpp).  The modem forgets both the     *)
(* events and the types of NMEA sentences when it restarts.                *)
(*                                                                         *)
(* The messages of the adapters' thread come from many threads, so what is *)
(* handled next is any of them; the order is kept where it matters, for    *)
(* the messages that LocApiBase's thread handles.                          *)
(***************************************************************************)
EXTENDS Naturals, Sequences, FiniteSets

CONSTANTS MaskClient,      \* clients of GnssAdapter
          MaskCallbacks,   \* the sets of callbacks that they may have
          Devices,         \* the devices that are looked at
          MaxMaskCalls,    \* bound: messages for the adapters
          MaxMaskStarts    \* bound: restarts of the modem

MaskCallback == {"tracking", "measurements", "nHzMeasurements", "nmea", "data"}

\* What may hold of a device, by its features and its configuration.
DeviceKind == SUBSET {"ENGINE_DEBUG_DATA", "DEBUG_NMEA", "NMEA_PROVIDER_MP", "engHub"}

ASSUME EventMaskAssumption == /\ MaskCallbacks \subseteq SUBSET MaskCallback
                              /\ Devices \subseteq DeviceKind
                              /\ {MaxMaskCalls, MaxMaskStarts} \subseteq Nat

MaskAdapter == {"gnss", "geofence"}
EventBit == {"POSITION", "NMEA", "MEASUREMENT", "NHZ", "POLYNOMIAL", "DEBUG_DATA",
             "SERVER_REQUEST", "WIFI", "BREACH"}

VARIABLES
    device,                \* what holds of this device
    mLocAdapters,          \* the adapters that LocApiBase knows
    callbacks,             \* mClientData of GnssAdapter; {} is no client
    fenceClients,          \* mClientData of GeofenceAdapter is not empty
    mEvtMask,              \* of each adapter
    mNmeaMask,             \* the types of sentences, of GnssAdapter
    registered,            \* AGPS, ODCPI and the power indication
    locMsgs,               \* messages for LocApiBase's thread
    engineUps,             \* engine-up messages for GnssAdapter
    locOpen, locMask,      \* the modem: LocApiBase has opened it, with this mask
    nmeaTypes,             \* the sentences that it makes
    nHzWanted,             \* history: what the engine hub has said last
    powerLate,             \* history: the power indication came when measurements were on
    nHzCut,                \* history: the engine hub's callback took the bit away
    dataCut,               \* history: the modem came up after the sentences were set
    maskCalls, maskStarts

maskAdapters == <<mLocAdapters, callbacks, fenceClients, mEvtMask, mNmeaMask, registered>>
maskModem == <<locOpen, locMask, nmeaTypes, maskStarts>>
maskHistory == <<nHzWanted, powerLate, nHzCut, dataCut>>
maskVars == <<device, maskAdapters, maskModem, maskHistory, locMsgs, engineUps, maskCalls>>

LocMsg(op, types) == [op |-> op, types |-> types]

\* GnssAdapter's constructor ends with doneInit.
MaskInit ==
    /\ device \in Devices
    /\ mLocAdapters = {"gnss"} /\ locMsgs = <<LocMsg("openFirst", {})>>
    /\ callbacks = [c \in MaskClient |-> {}] /\ fenceClients = FALSE
    /\ mEvtMask = [a \in MaskAdapter |-> {}]
    /\ mNmeaMask = {} /\ registered = {} /\ engineUps = 0
    /\ locOpen = FALSE /\ locMask = {} /\ nmeaTypes = {}
    /\ nHzWanted = FALSE /\ powerLate = FALSE /\ nHzCut = FALSE /\ dataCut = FALSE
    /\ maskCalls = 0 /\ maskStarts = 0

-----------------------------------------------------------------------------
(* The adapters' thread *)

With(cb, cbs) == \E c \in MaskClient : cb \in cbs[c]

\* updateClientsEventMask of GnssAdapter
ClientBits(cbs) ==
    (IF With("tracking", cbs) \/ With("data", cbs) THEN {"POSITION"} ELSE {})
    \cup (IF With("measurements", cbs)
          THEN {"MEASUREMENT"} \cup (IF "power" \in registered THEN {"POLYNOMIAL"} ELSE {})
          ELSE {})
    \cup (IF With("nHzMeasurements", cbs) THEN {"NHZ"} ELSE {})
    \cup (IF "ENGINE_DEBUG_DATA" \in device
          THEN IF \E c \in MaskClient : cbs[c] # {} THEN {"DEBUG_DATA"} ELSE {}
          ELSE IF With("data", cbs) \/ (With("nmea", cbs) /\ mNmeaMask # {}) THEN {"NMEA"} ELSE {})

HubBits == IF "engHub" \in device
           THEN {"MEASUREMENT", "POLYNOMIAL"} \cup (mEvtMask["gnss"] \cap {"NHZ"})
           ELSE {}

ServiceBits == (IF "agps" \in registered THEN {"SERVER_REQUEST"} ELSE {})
               \cup (IF "odcpi" \in registered THEN {"WIFI"} ELSE {})

\* A slip: the bits that services have enabled are forgotten.
MutMaskOfClients(cbs) == ClientBits(cbs) \cup HubBits

MaskOfClients(cbs) == ClientBits(cbs) \cup HubBits \cup ServiceBits

\* LocAdapterBase::updateEvtMask: the mask changes now, the modem is told later.
UpdateEvtMask(a, mask, before) == /\ mEvtMask' = [mEvtMask EXCEPT ![a] = mask]
                                  /\ locMsgs' = locMsgs \o before \o <<LocMsg("open", {})>>

EnableBit(bit) == UpdateEvtMask("gnss", mEvtMask["gnss"] \cup {bit}, <<>>)

MaskCall == maskCalls < MaxMaskCalls /\ maskCalls' = maskCalls + 1
            /\ UNCHANGED <<device, maskModem, engineUps>>

\* Clients with gnssDataCb need the debug sentences.
NmeaMsgs(cbs) == IF With("data", cbs) /\ "ENGINE_DEBUG_DATA" \notin device
                 THEN <<LocMsg("nmea", mNmeaMask \cup {"debug"})>> ELSE <<>>

\* saveClient, and eraseClient for a client without callbacks.
SaveClient(c, cbs) ==
    /\ MaskCall /\ callbacks[c] # cbs
    /\ callbacks' = [callbacks EXCEPT ![c] = cbs]
    /\ UpdateEvtMask("gnss", MaskOfClients(callbacks'), NmeaMsgs(callbacks'))
    /\ powerLate' = FALSE
    /\ nHzCut' = (nHzCut /\ "NHZ" \notin MaskOfClients(callbacks'))
    /\ dataCut' = (dataCut /\ NmeaMsgs(callbacks') = <<>>)
    /\ UNCHANGED <<mLocAdapters, fenceClients, mNmeaMask, registered, nHzWanted>>

\* initAgps and initOdcpi
Register(service, bit) ==
    /\ MaskCall /\ service \notin registered
    /\ registered' = registered \cup {service}
    /\ EnableBit(bit)
    /\ UNCHANGED <<mLocAdapters, callbacks, fenceClients, mNmeaMask, maskHistory>>

\* powerIndicationInitCommand: the mask is left as it is.
PowerIndicationInit ==
    /\ MaskCall /\ "power" \notin registered
    /\ registered' = registered \cup {"power"}
    /\ powerLate' = With("measurements", callbacks)
    /\ UNCHANGED <<mLocAdapters, callbacks, fenceClients, mEvtMask, mNmeaMask, locMsgs,
                   nHzWanted, nHzCut, dataCut>>

\* updateNHzRequirementCb of the engine hub: what is needed and already on is turned off.
UpdateNHzRequirement(needed) ==
    /\ MaskCall /\ "engHub" \in device
    /\ LET on == "NHZ" \in mEvtMask["gnss"]
       IN  /\ IF needed /\ ~on THEN EnableBit("NHZ")
              ELSE IF on THEN UpdateEvtMask("gnss", mEvtMask["gnss"] \ {"NHZ"}, <<>>)
                         ELSE UNCHANGED <<mEvtMask, locMsgs>>
           /\ nHzCut' = IF on THEN TRUE ELSE nHzCut /\ ~needed
    /\ nHzWanted' = needed
    /\ UNCHANGED <<mLocAdapters, callbacks, fenceClients, mNmeaMask, registered, powerLate,
                   dataCut>>

\* A library is loaded: LocAdapterBase's constructor adds the adapter.
AddAdapter(a) ==
    /\ MaskCall /\ a \notin mLocAdapters
    /\ mLocAdapters' = mLocAdapters \cup {a}
    /\ locMsgs' = Append(locMsgs, LocMsg("open", {}))
    /\ UNCHANGED <<callbacks, fenceClients, mEvtMask, mNmeaMask, registered, maskHistory>>

\* saveClient and eraseClient of GeofenceAdapter.
SaveFenceClient(present) ==
    /\ MaskCall /\ "geofence" \in mLocAdapters /\ fenceClients # present
    /\ fenceClients' = present
    /\ UpdateEvtMask("geofence", IF present THEN {"BREACH"} ELSE {}, <<>>)
    /\ UNCHANGED <<mLocAdapters, callbacks, mNmeaMask, registered, maskHistory>>

ConfTypes == (IF "NMEA_PROVIDER_MP" \in device THEN {"general"} ELSE {})
             \cup (IF "DEBUG_NMEA" \in device THEN {"debug"} ELSE {})

\* setConfig: with the sentences, the bit of the clients that have waited for them; then its
\* lambda for the modem.
SetConfigNmea ==
    LET bit == IF "ENGINE_DEBUG_DATA" \in device THEN {"DEBUG_DATA"}
               ELSE IF ConfTypes \notin {{}, mNmeaMask} /\ With("nmea", callbacks) THEN {"NMEA"}
               ELSE {}
    IN  /\ mNmeaMask' = IF "ENGINE_DEBUG_DATA" \in device THEN mNmeaMask ELSE ConfTypes
        /\ mEvtMask' = [mEvtMask EXCEPT !["gnss"] = @ \cup bit]
        /\ locMsgs' = locMsgs \o (IF bit = {} THEN <<>> ELSE <<LocMsg("open", {})>>)
                      \o (IF mNmeaMask' = {} THEN <<>> ELSE <<LocMsg("nmea", mNmeaMask')>>)

\* handleEngineUpEvent of GnssAdapter
MaskEngineUp ==
    /\ engineUps > 0 /\ engineUps' = engineUps - 1
    /\ SetConfigNmea
    /\ dataCut' = TRUE
    /\ UNCHANGED <<device, mLocAdapters, callbacks, fenceClients, registered, maskModem,
                   nHzWanted, powerLate, nHzCut, maskCalls>>

-----------------------------------------------------------------------------
(* LocApiBase's thread *)

\* getEvtMask
AllMasks == UNION {mEvtMask[a] : a \in mLocAdapters}

LocHead(ops) == locMsgs # <<>> /\ Head(locMsgs).op \in ops

\* LocOpenMsg; the one of GnssAdapter and LocSsrMsg tell it that the engine is up.
ProcLocOpen ==
    /\ LocHead({"open", "openFirst", "ssr"})
    /\ locMsgs' = Tail(locMsgs)
    /\ locOpen' = TRUE /\ locMask' = AllMasks
    /\ engineUps' = engineUps + (IF LocHead({"open"}) THEN 0 ELSE 1)
    /\ UNCHANGED <<device, maskAdapters, nmeaTypes, maskStarts, maskHistory, maskCalls>>

ProcSetNmea ==
    /\ LocHead({"nmea"})
    /\ locMsgs' = Tail(locMsgs)
    /\ nmeaTypes' = IF locOpen THEN Head(locMsgs).types ELSE nmeaTypes
    /\ UNCHANGED <<device, maskAdapters, locOpen, locMask, maskStarts, maskHistory, engineUps,
                   maskCalls>>

\* The modem restarts; handleEngineDownEvent sends LocSsrMsg.
MaskModemRestarts ==
    /\ locOpen /\ maskStarts < MaxMaskStarts
    /\ maskStarts' = maskStarts + 1
    /\ locOpen' = FALSE /\ locMask' = {} /\ nmeaTypes' = {}
    /\ locMsgs' = Append(locMsgs, LocMsg("ssr", {}))
    /\ UNCHANGED <<device, maskAdapters, maskHistory, engineUps, maskCalls>>

MaskNext == \/ \E c \in MaskClient, cbs \in MaskCallbacks : SaveClient(c, cbs)
            \/ Register("agps", "SERVER_REQUEST") \/ Register("odcpi", "WIFI")
            \/ PowerIndicationInit \/ \E needed \in BOOLEAN : UpdateNHzRequirement(needed)
            \/ AddAdapter("geofence") \/ \E present \in BOOLEAN : SaveFenceClient(present)
            \/ MaskEngineUp \/ ProcLocOpen \/ ProcSetNmea \/ MaskModemRestarts

MaskSpec == MaskInit /\ [][MaskNext]_maskVars

-----------------------------------------------------------------------------
(* Properties *)

MaskTypeOK ==
    /\ device \in DeviceKind /\ mLocAdapters \subseteq MaskAdapter
    /\ callbacks \in [MaskClient -> MaskCallbacks \cup {{}}]
    /\ mEvtMask \in [MaskAdapter -> SUBSET EventBit]
    /\ mNmeaMask \subseteq {"general", "debug"} /\ nmeaTypes \subseteq {"general", "debug"}
    /\ registered \subseteq {"agps", "odcpi", "power"}
    /\ engineUps \in Nat /\ locMask \subseteq EventBit
    /\ {fenceClients, locOpen, nHzWanted, powerLate, nHzCut, dataCut} \subseteq BOOLEAN

\* The events and sentences without which a callback is never called.
NeededBits(cb) ==
    CASE cb = "tracking" -> {"POSITION"}
      [] cb = "measurements" -> {"MEASUREMENT"}
                                \cup (IF "power" \in registered /\ ~powerLate
                                      THEN {"POLYNOMIAL"} ELSE {})
      [] cb = "nHzMeasurements" -> IF nHzCut THEN {} ELSE {"NHZ"}
      [] cb \in {"nmea", "data"} ->
            IF "ENGINE_DEBUG_DATA" \in device THEN {"DEBUG_DATA"}
            ELSE IF cb = "data" \/ ConfTypes # {} THEN {"NMEA"} ELSE {}

AtRest == locOpen /\ engineUps = 0 /\ locMsgs = <<>>

\* At rest the modem reports what every callback and every service needs, and nothing that
\* no adapter asks for, whatever came before the modem, after it, or across its restart.
EventsReported ==
    AtRest =>
      /\ locMask = AllMasks
      /\ \A c \in MaskClient : \A cb \in callbacks[c] : NeededBits(cb) \subseteq locMask
      /\ ServiceBits \subseteq locMask
      /\ fenceClients => "BREACH" \in locMask
      /\ nHzWanted /\ ~nHzCut => "NHZ" \in locMask

\* At rest the modem makes the sentences of gps.conf, and those of clients with gnssDataCb
\* unless it came up after they were set.
SentencesMade ==
    AtRest /\ "ENGINE_DEBUG_DATA" \notin device =>
      /\ ConfTypes \subseteq nmeaTypes
      /\ With("data", callbacks) /\ ~dataCut => "debug" \in nmeaTypes

ModemReports == EventsReported /\ SentencesMade
=============================================================================
