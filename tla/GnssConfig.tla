----------------------------- MODULE GnssConfig -----------------------------
(***************************************************************************)
(* The configuration of the receiver (GnssAdapter.cpp): what clients       *)
(* configure is stored in the adapter, and a copy of it is in the modem,   *)
(* which forgets it when it restarts.  Commands are handled in the         *)
(* adapter's thread; the modem is told in the thread of LocApiBase.  The   *)
(* stored values are written from both threads.                            *)
(*                                                                         *)
(* A satellite is a pair of its constellation and a number; the modem's    *)
(* answers are left out, and so are the sessions that a command suspends.  *)
(***************************************************************************)
EXTENDS Naturals, Sequences, SequencesExt, FiniteSets

CONSTANTS Constellation,
          SvNumber,        \* the satellites of each of them, without 0
          Blacklists,      \* what clients blacklist: sets of pairs, 0 for all of a constellation
          SvTypes,         \* what they enable and disable: records with the sets on and off,
                           \* and size, which is 0 in a record that was not filled
          Setting,         \* tuncConfigInfo, paceConfigInfo, robustLocationConfigInfo
          SettingValue,    \* their values, not with "default"
          CfgMay,          \* the commands that clients use
          MaxCfgCalls,     \* bound: commands
          MaxCfgQueue,     \* bound: messages under way when a command is given
          MaxCfgStarts     \* bound: restarts of the modem

Unset == "unset"           \* isValid of a setting is false

ASSUME GnssConfigAssumption == /\ 0 \notin SvNumber
                               /\ Blacklists \subseteq SUBSET (Constellation \X (SvNumber \cup {0}))
                               /\ SvTypes \subseteq [size : {1}, on : SUBSET Constellation,
                                                    off : SUBSET Constellation]
                               /\ Unset \notin SettingValue /\ IsFiniteSet(Setting)
                               /\ Setting \cap {"svs", "types"} = {}

Satellite == Constellation \X SvNumber
NoTypes == [size |-> 1, on |-> {}, off |-> {}]
UnsetTypes == [size |-> 0, on |-> {}, off |-> {}]

VARIABLES
    cfgQueue, cfgKnown, cfgPending,  \* the adapter's thread, capabilities, mPendingMsgs
    apiQueue,              \* messages for LocApiBase's thread
    loading,               \* the settings that the lambda of setConfig has read, or <<>>
    mBlacklistedSvIds,     \* entries as clients give them
    mGnssSvIdConfig,       \* masks: the satellites
    mGnssSvTypeConfig,
    mLocConfigInfo,        \* the settings
    mGnssSeconaryBandConfig,
    mGps_conf,             \* one item of it that is injected, say LPP_PROFILE
    modemConfig,           \* what the modem has
    cfgModemOpen,          \* LocApiBase::open() has succeeded since the modem's restart
    said,                  \* history: what clients have said last
    crossedWrites,         \* history: what they said crossed another write of it; "types" when
                           \* gnssUpdateSvConfig may have told the modem the old ones
    touched,               \* history: a command was handled since the modem came up
    cfgCalls, cfgStarts

cfgThread == <<cfgQueue, cfgKnown, cfgPending>>
svStored == <<mBlacklistedSvIds, mGnssSvIdConfig>>
cfgStored == <<svStored, mGnssSvTypeConfig, mLocConfigInfo, mGnssSeconaryBandConfig, mGps_conf>>
cfgApi == <<apiQueue, loading>>
cfgModem == <<modemConfig, cfgModemOpen, cfgStarts>>
cfgHistory == <<said, crossedWrites, touched>>
cfgVars == <<cfgThread, cfgStored, cfgApi, cfgModem, cfgHistory, cfgCalls>>

\* The modem as it comes up: types are what setConstellationControl was last told.
ForgetfulModem == [svs |-> {}, types |-> NoTypes, settings |-> [k \in Setting |-> "default"],
                   band |-> UnsetTypes, conf |-> 0]

CfgInit ==
    /\ cfgQueue = <<>> /\ cfgKnown = FALSE /\ cfgPending = <<>>
    /\ apiQueue = <<[op |-> "open"]>> /\ loading = <<>>
    /\ mBlacklistedSvIds = {} /\ mGnssSvIdConfig = {}
    /\ mGnssSvTypeConfig = UnsetTypes
    /\ mLocConfigInfo = [k \in Setting |-> Unset]
    /\ mGnssSeconaryBandConfig = UnsetTypes
    /\ mGps_conf = 0
    /\ modemConfig = ForgetfulModem /\ cfgModemOpen = FALSE
    /\ said = [svs |-> {}, settings |-> [k \in Setting |-> "default"], band |-> UnsetTypes,
               conf |-> 0]
    /\ crossedWrites = {} /\ touched = FALSE
    /\ cfgCalls = 0 /\ cfgStarts = 0

-----------------------------------------------------------------------------
(* Conversions *)

AllOf(types) == {sv \in Satellite : sv[1] \in types}

\* Mutant: entry 0 is taken for a satellite.
MutConvertKeepsZero(entries) == entries

\* convertToGnssSvIdConfig: entry 0 stands for all satellites of its constellation.
ConvertToGnssSvIdConfig(entries) ==
    {sv \in Satellite : sv \in entries \/ <<sv[1], 0>> \in entries}

\* convertFromGnssSvIdConfig: a full mask becomes the one entry 0.
ConvertFromGnssSvIdConfig(svs) ==
    LET full == {c \in Constellation : AllOf({c}) \subseteq svs}
    IN  (svs \ AllOf(full)) \cup {<<c, 0>> : c \in full}

\* What gnssSvTypeConfigUpdate sends: all satellites of the disabled constellations too.
Merged(types, svs) == svs \cup AllOf(types.off)

-----------------------------------------------------------------------------
(* Commands *)

CfgCall(m) == /\ m.op \in CfgMay
              /\ cfgCalls < MaxCfgCalls /\ Len(cfgQueue) + Len(apiQueue) < MaxCfgQueue
              /\ cfgCalls' = cfgCalls + 1
              /\ cfgQueue' = Append(cfgQueue, m)
              /\ UNCHANGED <<cfgKnown, cfgPending, cfgStored, cfgApi, cfgModem, cfgHistory>>

CfgClientCalls ==
    \/ \E b \in Blacklists : \/ CfgCall([op |-> "config", svs |-> b])
                             \/ \E t \in SvTypes \cup {UnsetTypes} :
                                   CfgCall([op |-> "svConfig", types |-> t,
                                            svs |-> ConvertToGnssSvIdConfig(b)])
    \/ CfgCall([op |-> "conf", value |-> cfgCalls + 1])
    \/ \E t \in SvTypes : CfgCall([op |-> "svTypes", types |-> t])
    \/ CfgCall([op |-> "resetTypes"])
    \/ \E k \in Setting, v \in SettingValue : CfgCall([op |-> "setting", key |-> k, value |-> v])
    \/ \E t \in SvTypes : CfgCall([op |-> "band", types |-> t])

-----------------------------------------------------------------------------
(* The adapter's thread *)

CfgHead(op) == cfgQueue # <<>> /\ Head(cfgQueue).op = op
SendApi(ms) == apiQueue' = apiQueue \o ms

\* Commands that wait until the capabilities are known.
Deferred == {"config", "conf", "svTypes", "resetTypes"}

ProcDeferCfg == /\ cfgQueue # <<>> /\ Head(cfgQueue).op \in Deferred /\ ~cfgKnown
                /\ cfgPending' = Append(cfgPending, Head(cfgQueue))
                /\ cfgQueue' = Tail(cfgQueue)
                /\ UNCHANGED <<cfgKnown, cfgStored, cfgApi, cfgModem, cfgHistory, cfgCalls>>

Handle(op) == /\ CfgHead(op) /\ (op \in Deferred => cfgKnown)
              /\ cfgQueue' = Tail(cfgQueue)
              /\ touched' = TRUE
              /\ UNCHANGED <<cfgKnown, cfgPending, loading, cfgModem, cfgCalls>>

\* A blacklist that is stored, or will be, when LocApiBase's thread comes to it.
OnItsWay(ops) == \E i \in 1..Len(apiQueue) : apiQueue[i].op \in ops
Crossed(ops) == IF OnItsWay(ops) THEN {"svs"} ELSE {}

\* gnssUpdateConfigCommand with a blacklist: nothing is stored yet.
ProcUpdateBlacklist ==
    /\ Handle("config")
    /\ LET m == Head(cfgQueue)
       IN  /\ SendApi(<<[op |-> "update", svs |-> m.svs]>>)
           /\ said' = [said EXCEPT !.svs = ConvertToGnssSvIdConfig(m.svs)]
    /\ crossedWrites' = crossedWrites \ {"svs"}
    /\ UNCHANGED cfgStored

\* The same with an item of gps.conf, which is stored at once.
ProcUpdateConf ==
    /\ Handle("conf")
    /\ LET v == Head(cfgQueue).value
       IN  /\ mGps_conf' = v
           /\ SendApi(<<[op |-> "updateConf", value |-> v]>>)
           /\ said' = [said EXCEPT !.conf = v]
    /\ UNCHANGED <<svStored, mGnssSvTypeConfig, mLocConfigInfo, mGnssSeconaryBandConfig,
                   crossedWrites>>

ResetIf(cond) == IF cond THEN <<[op |-> "resetTypes"]>> ELSE <<>>
Blacklist(svs) == [op |-> "blacklist", svs |-> svs]
Types(types) == [op |-> "types", types |-> types]

\* gnssSvTypeConfigUpdate(bool)
SendTypes(types, svs) ==
    IF types.size = 0 THEN <<>>
    ELSE <<Blacklist(Merged(types, svs))>>
         \o (IF types.on # {} THEN <<Types([types EXCEPT !.off = {}])>> ELSE <<>>)

\* gnssSvTypeConfigUpdate of gnssUpdateSvTypeConfigCommand.
ProcUpdateSvTypes ==
    /\ Handle("svTypes")
    /\ LET t == Head(cfgQueue).types
       IN  /\ mGnssSvTypeConfig' = t
           /\ SendApi(ResetIf(mGnssSvTypeConfig.on \ t.on # {})
                      \o SendTypes(t, mGnssSvIdConfig))
    /\ crossedWrites' = crossedWrites \cup Crossed({"update"})
    /\ UNCHANGED <<svStored, mLocConfigInfo, mGnssSeconaryBandConfig, mGps_conf, said>>

\* gnssResetSvTypeConfigCommand
ProcResetSvTypes ==
    /\ Handle("resetTypes")
    /\ mGnssSvTypeConfig' = NoTypes
    /\ SendApi(<<Blacklist(mGnssSvIdConfig), [op |-> "resetTypes"]>>)
    /\ crossedWrites' = crossedWrites \cup Crossed({"update"})
    /\ UNCHANGED <<svStored, mLocConfigInfo, mGnssSeconaryBandConfig, mGps_conf, said>>

\* gnssUpdateSvConfig: the modem is told mGnssSvTypeConfig before that gets the new value.
ProcUpdateSvConfig ==
    /\ Handle("svConfig")
    /\ LET m == Head(cfgQueue)
           types == IF m.types.size = 0 THEN ResetIf(TRUE)
                    ELSE ResetIf(mGnssSvTypeConfig.on \ m.types.on # {})
                         \o <<Types(mGnssSvTypeConfig)>>
       IN  /\ SendApi(types \o <<Blacklist(m.svs)>>)
           /\ mGnssSvTypeConfig' = m.types
           /\ mGnssSvIdConfig' = m.svs
           /\ mBlacklistedSvIds' = ConvertFromGnssSvIdConfig(m.svs)
           /\ said' = [said EXCEPT !.svs = m.svs]
    /\ crossedWrites' = (crossedWrites \ {"svs"}) \cup {"types"}
                        \cup Crossed({"update", "setConfig"})
    /\ UNCHANGED <<mLocConfigInfo, mGnssSeconaryBandConfig, mGps_conf>>

\* setConstrainedTunc, setPositionAssistedClockEstimator, configRobustLocation
ProcSetting ==
    /\ Handle("setting")
    /\ LET m == Head(cfgQueue)
       IN  /\ mLocConfigInfo' = [mLocConfigInfo EXCEPT ![m.key] = m.value]
           /\ SendApi(<<[op |-> "setting", key |-> m.key, value |-> m.value]>>)
           /\ said' = [said EXCEPT !.settings[m.key] = m.value]
           /\ crossedWrites' = IF loading = <<>> THEN crossedWrites \ {m.key}
                               ELSE crossedWrites \cup {m.key}
    /\ UNCHANGED <<svStored, mGnssSvTypeConfig, mGnssSeconaryBandConfig, mGps_conf>>

\* gnssUpdateSecondaryBandConfig
ProcBand ==
    /\ Handle("band")
    /\ LET t == Head(cfgQueue).types
       IN  /\ mGnssSeconaryBandConfig' = t
           /\ SendApi(<<[op |-> "band", types |-> t]>>)
           /\ said' = [said EXCEPT !.band = t]
    /\ UNCHANGED <<svStored, mGnssSvTypeConfig, mLocConfigInfo, mGps_conf, crossedWrites>>

\* A slip: the types are sent before the blacklist that makes them good.
MutRestoredTypesFirst ==
    SendTypes(mGnssSvTypeConfig, mGnssSvIdConfig)
    \o <<[op |-> "setConfig", svs |-> mBlacklistedSvIds, conf |-> mGps_conf],
         Blacklist(mGnssSvIdConfig)>>
    \o (IF mGnssSeconaryBandConfig.size = 0 THEN <<>>
        ELSE <<[op |-> "band", types |-> mGnssSeconaryBandConfig]>>)

\* What is sent again when the modem has come up: setConfig, with the blacklist and gps.conf
\* as they are now, gnssSvIdConfigUpdate, gnssSvTypeConfigUpdate, the secondary band.
Restored == <<[op |-> "setConfig", svs |-> mBlacklistedSvIds, conf |-> mGps_conf],
              Blacklist(mGnssSvIdConfig)>>
            \o SendTypes(mGnssSvTypeConfig, mGnssSvIdConfig)
            \o (IF mGnssSeconaryBandConfig.size = 0 THEN <<>>
                ELSE <<[op |-> "band", types |-> mGnssSeconaryBandConfig]>>)

\* handleEngineUpEvent, then the commands that have waited.
ProcCfgEngineUp ==
    /\ CfgHead("engineUp")
    /\ cfgKnown' = TRUE
    /\ SendApi(Restored)
    /\ cfgQueue' = Tail(cfgQueue) \o cfgPending /\ cfgPending' = <<>>
    /\ touched' = FALSE
    /\ crossedWrites' = crossedWrites \cup Crossed({"update"})
    /\ UNCHANGED <<cfgStored, loading, cfgModem, said, cfgCalls>>

ProcCfg == \/ ProcDeferCfg \/ ProcUpdateBlacklist \/ ProcUpdateConf
           \/ ProcUpdateSvTypes \/ ProcResetSvTypes \/ ProcUpdateSvConfig
           \/ ProcSetting \/ ProcBand \/ ProcCfgEngineUp

-----------------------------------------------------------------------------
(* LocApiBase's thread: a request reaches the modem only after open() *)

ApiHead(op) == loading = <<>> /\ apiQueue # <<>> /\ Head(apiQueue).op = op
ApiTaken == /\ apiQueue' = Tail(apiQueue) /\ UNCHANGED loading
            /\ UNCHANGED <<cfgThread, cfgModemOpen, cfgStarts, cfgHistory, cfgCalls>>

Tell(config) == modemConfig' = IF cfgModemOpen THEN config ELSE modemConfig

\* A slip: the blacklist is not stored in mBlacklistedSvIds.
MutUpdateSvsNotSaved(entries, conf) ==
    /\ mGnssSvIdConfig' = ConvertToGnssSvIdConfig(entries)
    /\ Tell([modemConfig EXCEPT !.svs = ConvertToGnssSvIdConfig(entries), !.conf = conf])
    /\ UNCHANGED <<mBlacklistedSvIds, mGnssSvTypeConfig, mGnssSeconaryBandConfig, mGps_conf>>

\* gnssUpdateConfig stores the blacklist before it tells the modem.
UpdateSvs(entries, conf) ==
    /\ mBlacklistedSvIds' = entries
    /\ mGnssSvIdConfig' = ConvertToGnssSvIdConfig(entries)
    /\ Tell([modemConfig EXCEPT !.svs = ConvertToGnssSvIdConfig(entries), !.conf = conf])
    /\ UNCHANGED <<mGnssSvTypeConfig, mGnssSeconaryBandConfig, mGps_conf>>

GnssUpdateConfig == /\ ApiHead("update")
                    /\ UpdateSvs(Head(apiQueue).svs, modemConfig.conf)
                    /\ UNCHANGED mLocConfigInfo /\ ApiTaken

\* Requests of one call of LocApiBase each.
ApiTells ==
    \/ /\ ApiHead("updateConf") /\ Tell([modemConfig EXCEPT !.conf = Head(apiQueue).value])
       /\ UNCHANGED cfgStored /\ ApiTaken
    \/ /\ ApiHead("blacklist") /\ Tell([modemConfig EXCEPT !.svs = Head(apiQueue).svs])
       /\ UNCHANGED cfgStored /\ ApiTaken
    \/ /\ ApiHead("types") /\ Tell([modemConfig EXCEPT !.types = Head(apiQueue).types])
       /\ UNCHANGED cfgStored /\ ApiTaken
    \/ /\ ApiHead("resetTypes") /\ Tell([modemConfig EXCEPT !.types = NoTypes])
       /\ UNCHANGED cfgStored /\ ApiTaken
    \/ /\ ApiHead("band") /\ Tell([modemConfig EXCEPT !.band = Head(apiQueue).types])
       /\ UNCHANGED cfgStored /\ ApiTaken
    \/ /\ ApiHead("setting")
       /\ Tell([modemConfig EXCEPT !.settings[Head(apiQueue).key] = Head(apiQueue).value])
       /\ UNCHANGED cfgStored /\ ApiTaken

\* The lambda of setConfig: gnssUpdateConfig, then the settings are read ...
SetConfigReads ==
    /\ ApiHead("setConfig")
    /\ UpdateSvs(Head(apiQueue).svs, Head(apiQueue).conf)
    /\ loading' = <<mLocConfigInfo>>
    /\ apiQueue' = Tail(apiQueue)
    /\ UNCHANGED <<mLocConfigInfo, cfgThread, cfgModemOpen, cfgStarts, cfgHistory, cfgCalls>>

\* ... and sent; those without a value get the one of gps.conf.
SetConfigSends ==
    /\ loading # <<>> /\ loading' = <<>>
    /\ mLocConfigInfo' = [k \in Setting |-> IF loading[1][k] = Unset THEN "default"
                                                                    ELSE mLocConfigInfo[k]]
    /\ LET Sent(k) == IF loading[1][k] = Unset THEN "default" ELSE loading[1][k]
       IN  SendApi(SetToSeq({[op |-> "setting", key |-> k, value |-> Sent(k)] : k \in Setting}))
    /\ UNCHANGED <<svStored, mGnssSvTypeConfig, mGnssSeconaryBandConfig, mGps_conf, cfgThread,
                   cfgModem, cfgHistory, cfgCalls>>

\* LocOpenMsg of the adapter and LocSsrMsg; the adapter is told by a message of its queue.
LocOpens == /\ ApiHead("open")
            /\ apiQueue' = Tail(apiQueue)
            /\ cfgModemOpen' = TRUE
            /\ cfgQueue' = Append(cfgQueue, [op |-> "engineUp"])
            /\ UNCHANGED <<cfgKnown, cfgPending, cfgStored, loading, modemConfig, cfgStarts,
                           cfgHistory, cfgCalls>>

\* A modem that has been opened restarts, and forgets.
CfgModemRestarts ==
    /\ cfgModemOpen /\ cfgStarts < MaxCfgStarts
    /\ cfgStarts' = cfgStarts + 1
    /\ modemConfig' = ForgetfulModem /\ cfgModemOpen' = FALSE
    /\ SendApi(<<[op |-> "open"]>>)
    /\ crossedWrites' = crossedWrites \ {"types"}
    /\ UNCHANGED <<cfgThread, cfgStored, loading, said, touched, cfgCalls>>

CfgNext == \/ CfgClientCalls \/ ProcCfg
           \/ GnssUpdateConfig \/ ApiTells \/ SetConfigReads \/ SetConfigSends \/ LocOpens
           \/ CfgModemRestarts

CfgSpec == CfgInit /\ [][CfgNext]_cfgVars

-----------------------------------------------------------------------------
(* Properties *)

CfgTypeOK ==
    /\ cfgKnown \in BOOLEAN /\ cfgModemOpen \in BOOLEAN /\ touched \in BOOLEAN
    /\ mBlacklistedSvIds \subseteq Constellation \X (SvNumber \cup {0})
    /\ mGnssSvIdConfig \subseteq Satellite
    /\ mGnssSvTypeConfig \in SvTypes \cup {UnsetTypes, NoTypes}
    /\ mLocConfigInfo \in [Setting -> SettingValue \cup {"default", Unset}]
    /\ mGnssSeconaryBandConfig \in SvTypes \cup {UnsetTypes}
    /\ modemConfig.svs \subseteq Satellite
    /\ crossedWrites \subseteq Setting \cup {"svs", "types"}
    /\ Len(loading) < 2

Quiet == cfgQueue = <<>> /\ apiQueue = <<>> /\ loading = <<>>

\* When nothing is under way, what clients have said last is stored and in the modem,
\* through restarts of the modem, deferred commands and the two threads, except for what
\* crossed another write of the same value.
ConfigKept ==
    Quiet =>
      /\ "svs" \notin crossedWrites =>
           /\ mGnssSvIdConfig = said.svs
           /\ ConvertToGnssSvIdConfig(mBlacklistedSvIds) = said.svs
           /\ said.svs \subseteq modemConfig.svs
      /\ \A k \in Setting \ crossedWrites :
           modemConfig.settings[k] = said.settings[k] /\ mLocConfigInfo[k] = said.settings[k]
      /\ modemConfig.band = said.band
      /\ modemConfig.conf = said.conf

\* A modem that has come up and been told nothing since has all that was stored: the
\* disabled constellations too, which a later blacklist would enable again.
RestartRestores ==
    Quiet /\ ~touched /\ "svs" \notin crossedWrites =>
      IF mGnssSvTypeConfig.size = 0 THEN modemConfig.svs = mGnssSvIdConfig
      ELSE /\ modemConfig.svs = Merged(mGnssSvTypeConfig, mGnssSvIdConfig)
           /\ "types" \notin crossedWrites => modemConfig.types.on = mGnssSvTypeConfig.on
=============================================================================
