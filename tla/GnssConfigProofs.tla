--------------------------- MODULE GnssConfigProofs ---------------------------
(***************************************************************************)
(* Proof that the configuration is kept, for any constellations,           *)
(* satellites, settings, commands and restarts of the modem.  What the     *)
(* modem has in the end depends on what is still under way for it, so the  *)
(* inductive invariant is about the last message of its kind in the queue  *)
(* of LocApiBase's thread, or about what there is now when there is none   *)
(* (LastFits), and two lemmas say how that changes when messages are sent  *)
(* and when one is taken.                                                  *)
(***************************************************************************)
EXTENDS GnssConfig, FiniteSetTheorems, SequenceTheorems, TLAPS
-----------------------------------------------------------------------------
(* The inductive invariant *)

TypeRecs == [size : {0, 1}, on : SUBSET Constellation, off : SUBSET Constellation]
SvEntries == SUBSET (Constellation \X (SvNumber \cup {0}))

\* The messages of the adapter's thread, and those of LocApiBase's.
CfgMsgs == [op : {"config"}, svs : SvEntries]
           \cup [op : {"svConfig"}, types : SvTypes \cup {UnsetTypes}, svs : SUBSET Satellite]
           \cup [op : {"conf"}, value : Nat]
           \cup [op : {"svTypes", "band"}, types : SvTypes]
           \cup [op : {"resetTypes", "engineUp"}]
           \cup [op : {"setting"}, key : Setting, value : SettingValue]
ApiMsgs == [op : {"update"}, svs : SvEntries]
           \cup [op : {"blacklist"}, svs : SUBSET Satellite]
           \cup [op : {"setConfig"}, svs : SvEntries, conf : Nat]
           \cup [op : {"updateConf"}, value : Nat]
           \cup [op : {"types", "band"}, types : TypeRecs]
           \cup [op : {"resetTypes", "open"}]
           \cup [op : {"setting"}, key : Setting, value : SettingValue \cup {"default"}]

Told(ops) == {m \in ApiMsgs : m.op \in ops}
SvsTold == Told({"update", "setConfig", "blacklist"})
SvsSaved == Told({"update", "setConfig"})
TypesTold == Told({"types", "resetTypes"})
ConfTold == Told({"updateConf", "setConfig"})
SettingTold(k) == {m \in Told({"setting"}) : m.key = k}

GivenSvs(m) == IF m.op = "blacklist" THEN m.svs ELSE ConvertToGnssSvIdConfig(m.svs)
GivenOn(m) == IF m.op = "types" THEN m.types.on ELSE {}
GivenConf(m) == IF m.op = "setConfig" THEN m.conf ELSE m.value

\* What counts in the end is the last message of rel in the queue, or what there is now, when
\* no message of cut comes later: it is good.
LastFits(q, cut, rel, good, now) ==
    \A i \in 0..Len(q) :
        (i = 0 \/ q[i] \in rel) /\ (\A k \in 1..Len(q) : i < k => q[k] \notin cut) =>
            IF i = 0 THEN now ELSE q[i] \in good

CfgTyped ==
    /\ cfgQueue \in Seq(CfgMsgs) /\ cfgPending \in Seq(CfgMsgs) /\ apiQueue \in Seq(ApiMsgs)
    /\ cfgCalls \in Nat /\ mGps_conf \in Nat
    /\ mBlacklistedSvIds \in SvEntries
    /\ mGnssSvTypeConfig \in TypeRecs
    /\ mGnssSeconaryBandConfig \in TypeRecs
    /\ mLocConfigInfo \in [Setting -> SettingValue \cup {"default", Unset}]
    /\ loading = <<>> \/ loading \in {<<f>> : f \in [Setting -> SettingValue \cup {"default", Unset}]}
    /\ modemConfig \in [svs : SUBSET Satellite, types : TypeRecs, band : TypeRecs, conf : Nat,
                        settings : [Setting -> SettingValue \cup {"default"}]]
    /\ said \in [svs : SUBSET Satellite, band : TypeRecs, conf : Nat,
                 settings : [Setting -> SettingValue \cup {"default"}]]

\* At most one open is under way, and only for a modem that has forgotten all.
OneOpen(q) == \A i, j \in 1..Len(q) : q[i].op = "open" /\ q[j].op = "open" => i = j
OpenFits ==
    /\ OneOpen(apiQueue)
    /\ cfgModemOpen <=> ~OnItsWay({"open"})
    /\ ~cfgModemOpen => modemConfig = ForgetfulModem

\* Everything will be restored.
UpComes == OnItsWay({"open"}) \/ \E i \in 1..Len(cfgQueue) : cfgQueue[i].op = "engineUp"
SettingsCome == UpComes \/ OnItsWay({"setConfig"}) \/ loading # <<>>

SvsFit ==
    /\ mGnssSvIdConfig = ConvertToGnssSvIdConfig(mBlacklistedSvIds)
    /\ "svs" \notin crossedWrites =>
          /\ LastFits(apiQueue, Told({"update"}), SvsSaved,
                      {m \in SvsSaved : GivenSvs(m) = said.svs}, mGnssSvIdConfig = said.svs)
          /\ ~UpComes => LastFits(apiQueue, SvsTold, SvsTold,
                                  {m \in SvsTold : said.svs \subseteq GivenSvs(m)},
                                  said.svs \subseteq modemConfig.svs)

RestoredSvs == IF mGnssSvTypeConfig.size = 0 THEN said.svs
               ELSE Merged(mGnssSvTypeConfig, said.svs)
RestoredFit ==
    "svs" \notin crossedWrites /\ ~UpComes /\ ~touched =>
        LastFits(apiQueue, SvsTold, SvsTold, {m \in SvsTold : GivenSvs(m) = RestoredSvs},
                 modemConfig.svs = RestoredSvs)

\* No constellation is on in the modem that clients have not enabled, whatever it has heard.
SvTypesFit ==
    /\ mGnssSvTypeConfig.size = 0 => mGnssSvTypeConfig.on = {}
    /\ "types" \notin crossedWrites =>
          /\ LastFits(apiQueue, TypesTold \cup Told({"open"}), TypesTold,
                      {m \in TypesTold : GivenOn(m) \subseteq mGnssSvTypeConfig.on},
                      modemConfig.types.on \subseteq mGnssSvTypeConfig.on)
          /\ ~UpComes => LastFits(apiQueue, TypesTold, TypesTold,
                                  {m \in TypesTold : GivenOn(m) = mGnssSvTypeConfig.on},
                                  modemConfig.types.on = mGnssSvTypeConfig.on)

SettingsFit ==
    \A k \in Setting :
        /\ ~SettingsCome => mLocConfigInfo[k] # Unset
        /\ loading # <<>> /\ loading[1][k] # Unset => mLocConfigInfo[k] # Unset
        /\ k \notin crossedWrites =>
              /\ \/ mLocConfigInfo[k] = said.settings[k]
                 \/ mLocConfigInfo[k] = Unset /\ said.settings[k] = "default"
              /\ loading # <<>> => loading[1][k] = mLocConfigInfo[k]
              /\ ~SettingsCome => LastFits(apiQueue, SettingTold(k), SettingTold(k),
                                           {m \in SettingTold(k) : m.value = said.settings[k]},
                                           modemConfig.settings[k] = said.settings[k])

BandFits ==
    /\ mGnssSeconaryBandConfig = said.band
    /\ said.band.size = 0 => said.band = UnsetTypes /\ modemConfig.band = UnsetTypes /\ ~OnItsWay({"band"})
    /\ ~UpComes => LastFits(apiQueue, Told({"band"}), Told({"band"}),
                            {m \in Told({"band"}) : m.types = said.band}, modemConfig.band = said.band)

ConfFits ==
    /\ mGps_conf = said.conf
    /\ ~UpComes => LastFits(apiQueue, ConfTold, ConfTold, {m \in ConfTold : GivenConf(m) = said.conf},
                            modemConfig.conf = said.conf)

CfgIInv == CfgTyped /\ OpenFits /\ SvsFit /\ RestoredFit /\ SvTypesFit /\ SettingsFit /\ BandFits /\ ConfFits

-----------------------------------------------------------------------------
(* Lemmas about the messages for LocApiBase *)

Elems(w) == {w[i] : i \in 1..Len(w)}

LEMMA Joined ==
  ASSUME NEW q \in Seq(ApiMsgs), NEW w \in Seq(ApiMsgs)
  PROVE  /\ q \o w \in Seq(ApiMsgs) /\ Elems(q \o w) = Elems(q) \cup Elems(w)
         /\ Len(q \o w) = Len(q) + Len(w) /\ Len(q) \in Nat /\ Len(w) \in Nat
         /\ \A i \in 1..Len(q) : (q \o w)[i] = q[i] /\ i \in 1..(Len(q) + Len(w))
         /\ \A i \in 1..Len(w) : (q \o w)[Len(q) + i] = w[i] /\ Len(q) + i \in 1..(Len(q) + Len(w))
         /\ \A i \in 1..(Len(q) + Len(w)) : i \in 1..Len(q) \/ (i - Len(q) \in 1..Len(w) /\ Len(q) + (i - Len(q)) = i)
<1> DEFINE p == q \o w
<1>1. /\ p \in Seq(ApiMsgs) /\ Len(p) = Len(q) + Len(w) /\ Len(q) \in Nat /\ Len(w) \in Nat
      /\ \A i \in 1..Len(p) : p[i] = IF i <= Len(q) THEN q[i] ELSE w[i - Len(q)]
  OBVIOUS
<1> HIDE DEF p
<1>2. \A i \in 1..Len(q) : p[i] = q[i] /\ i \in 1..Len(p)
  BY <1>1
<1>3. \A i \in 1..Len(w) : p[Len(q) + i] = w[i] /\ Len(q) + i \in 1..Len(p)
  <2> TAKE i \in 1..Len(w)
  <2>1. Len(q) + i \in 1..Len(p) /\ ~(Len(q) + i <= Len(q)) /\ (Len(q) + i) - Len(q) = i
    BY <1>1
  <2> QED  BY <1>1, <2>1
<1>4. \A i \in 1..Len(p) : i \in 1..Len(q) \/ (i - Len(q) \in 1..Len(w) /\ Len(q) + (i - Len(q)) = i)
  BY <1>1
<1>5. Elems(p) = Elems(q) \cup Elems(w)
  <2>1. ASSUME NEW i \in 1..Len(p) PROVE p[i] \in Elems(q) \cup Elems(w)
    <3>1. CASE i \in 1..Len(q)
      BY <1>2, <3>1 DEF Elems
    <3>2. CASE i \notin 1..Len(q)
      <4>1. i - Len(q) \in 1..Len(w) /\ p[i] = w[i - Len(q)]
        BY <1>3, <1>4, <3>2
      <4> QED  BY <4>1 DEF Elems
    <3> QED  BY <3>1, <3>2
  <2>2. ASSUME NEW i \in 1..Len(q) PROVE q[i] \in Elems(p)
    BY <1>2, <2>2 DEF Elems
  <2>3. ASSUME NEW i \in 1..Len(w) PROVE w[i] \in Elems(p)
    BY <1>3, <2>3 DEF Elems
  <2> QED  BY <2>1, <2>2, <2>3 DEF Elems
<1> QED  BY <1>1, <1>2, <1>3, <1>4, <1>5 DEF p

LEMMA Tailed ==
  ASSUME NEW q \in Seq(ApiMsgs), q # <<>>
  PROVE  /\ Tail(q) \in Seq(ApiMsgs) /\ Head(q) \in ApiMsgs /\ Head(q) = q[1]
         /\ Elems(q) = Elems(Tail(q)) \cup {Head(q)}
         /\ Len(q) \in Nat \ {0} /\ Len(Tail(q)) = Len(q) - 1
         /\ \A i \in 1..Len(Tail(q)) : Tail(q)[i] = q[i + 1] /\ i + 1 \in 1..Len(q)
<1> DEFINE p == Tail(q)
<1>1. /\ p \in Seq(ApiMsgs) /\ Head(q) \in ApiMsgs /\ Head(q) = q[1]
      /\ Len(p) = Len(q) - 1 /\ Len(q) \in Nat \ {0}
      /\ \A i \in 1..Len(p) : p[i] = q[i + 1]
  OBVIOUS
<1> HIDE DEF p
<1>2. \A i \in 1..Len(p) : i + 1 \in 1..Len(q)
  BY <1>1
<1>3. \A i \in 1..Len(q) : i = 1 \/ (i - 1 \in 1..Len(p) /\ (i - 1) + 1 = i)
  BY <1>1
<1>4. 1 \in 1..Len(q)
  BY <1>1
<1>5. Elems(q) = Elems(p) \cup {q[1]}
  <2>1. ASSUME NEW i \in 1..Len(q) PROVE q[i] \in Elems(p) \cup {q[1]}
    <3>1. CASE i = 1
      BY <3>1
    <3>2. CASE i # 1
      <4>1. i - 1 \in 1..Len(p) /\ p[i - 1] = q[i]
        BY <1>1, <1>3, <3>2
      <4> QED  BY <4>1 DEF Elems
    <3> QED  BY <3>1, <3>2
  <2>2. ASSUME NEW i \in 1..Len(p) PROVE p[i] \in Elems(q)
    BY <1>1, <1>2 DEF Elems
  <2> QED  BY <1>4, <2>1, <2>2 DEF Elems
<1> QED  BY <1>1, <1>2, <1>5 DEF p

LEMMA LastJoined ==
  ASSUME NEW q \in Seq(ApiMsgs), NEW w \in Seq(ApiMsgs), NEW cut, NEW rel, NEW good, NEW now,
         Elems(w) \cap cut # {} \/ LastFits(q, cut, rel, good, now),
         Elems(w) \cap rel \subseteq good
  PROVE  LastFits(q \o w, cut, rel, good, now)
<1> DEFINE p == q \o w
           n == Len(q)
<1>1. /\ Len(p) = n + Len(w) /\ n \in Nat /\ Len(w) \in Nat
      /\ \A i \in 1..n : p[i] = q[i] /\ i \in 1..Len(p)
      /\ \A i \in 1..Len(w) : p[n + i] = w[i] /\ n + i \in 1..Len(p)
      /\ \A i \in 1..Len(p) : i \in 1..n \/ (i - n \in 1..Len(w) /\ n + (i - n) = i)
  BY Joined
<1> HIDE DEF p, n
<1> SUFFICES ASSUME NEW i \in 0..Len(p), i = 0 \/ p[i] \in rel,
                    \A k \in 1..Len(p) : i < k => p[k] \notin cut
             PROVE  IF i = 0 THEN now ELSE p[i] \in good
  BY DEF LastFits, p
<1>2. CASE i \in 0..n
  <2>1. Elems(w) \cap cut = {}
    <3> SUFFICES ASSUME NEW j \in 1..Len(w) PROVE w[j] \notin cut
      BY DEF Elems
    <3>1. i < n + j
      BY <1>1, <1>2
    <3> QED  BY <1>1, <3>1
  <2>2. LastFits(q, cut, rel, good, now)
    BY <2>1
  <2>3. i = 0 \/ (q[i] \in rel /\ q[i] = p[i])
    BY <1>1, <1>2
  <2>4. \A k \in 1..n : i < k => q[k] \notin cut
    BY <1>1
  <2> QED  BY <1>2, <2>2, <2>3, <2>4 DEF LastFits, n
<1>3. CASE i \notin 0..n
  <2>1. i \in 1..Len(p) /\ i # 0 /\ i \notin 1..n
    BY <1>1, <1>3
  <2>2. i - n \in 1..Len(w) /\ p[i] = w[i - n]
    BY <1>1, <2>1
  <2> QED  BY <2>1, <2>2 DEF Elems
<1> QED  BY <1>2, <1>3

LEMMA LastTailed ==
  ASSUME NEW q \in Seq(ApiMsgs), q # <<>>, NEW cut, NEW rel, NEW good, NEW now, NEW next,
         LastFits(q, cut, rel, good, now),
         \/ Elems(Tail(q)) \cap cut # {}
         \/ Head(q) \in rel /\ (Head(q) \in good => next)
         \/ Head(q) \notin cut /\ (now => next)
         \/ next
  PROVE  LastFits(Tail(q), cut, rel, good, next)
<1> DEFINE p == Tail(q)
<1>1. /\ Head(q) = q[1] /\ Len(q) \in Nat \ {0} /\ Len(p) = Len(q) - 1
      /\ \A i \in 1..Len(p) : p[i] = q[i + 1] /\ i + 1 \in 1..Len(q)
  BY Tailed
<1> HIDE DEF p
<1> SUFFICES ASSUME NEW i \in 0..Len(p), i = 0 \/ p[i] \in rel,
                    \A k \in 1..Len(p) : i < k => p[k] \notin cut
             PROVE  IF i = 0 THEN next ELSE p[i] \in good
  BY DEF LastFits, p
<1>2. ASSUME NEW k \in 1..Len(q), i + 1 < k PROVE q[k] \notin cut
  <2>1. k - 1 \in 1..Len(p) /\ i < k - 1 /\ (k - 1) + 1 = k
    BY <1>1, <1>2
  <2> QED  BY <1>1, <2>1
<1>3. CASE i = 0
  <2>1. Elems(p) \cap cut = {}
    BY <1>3, <1>1 DEF Elems
  <2>2. ASSUME Head(q) \in rel, Head(q) \in good => next PROVE next
    <3>1. 1 \in 0..Len(q) /\ 1 # 0 /\ q[1] \in rel /\ \A k \in 1..Len(q) : 1 < k => q[k] \notin cut
      BY <1>1, <1>2, <1>3, <2>2
    <3>2. q[1] \in good
      BY <3>1 DEF LastFits
    <3> QED  BY <1>1, <2>2, <3>2
  <2>3. ASSUME Head(q) \notin cut, now => next PROVE next
    <3>1. ASSUME NEW k \in 1..Len(q) PROVE q[k] \notin cut
      <4>1. CASE k = 1
        BY <1>1, <2>3, <4>1
      <4>2. CASE k # 1
        <5>1. i + 1 < k
          BY <1>1, <1>3, <4>2
        <5> QED  BY <1>2, <5>1
      <4> QED  BY <4>1, <4>2
    <3>2. 0 \in 0..Len(q)
      BY <1>1
    <3>3. now
      BY <3>1, <3>2 DEF LastFits
    <3> QED  BY <2>3, <3>3
  <2> QED  BY <1>3, <2>1, <2>2, <2>3 DEF p
<1>4. CASE i # 0
  <2>1. i + 1 \in 0..Len(q) /\ i + 1 # 0 /\ p[i] = q[i + 1]
    BY <1>1, <1>4
  <2>2. q[i + 1] \in good
    BY <1>2, <1>4, <2>1 DEF LastFits
  <2> QED  BY <1>4, <2>1, <2>2
<1> QED  BY <1>3, <1>4

LEMMA OneElem == ASSUME NEW m \in ApiMsgs PROVE <<m>> \in Seq(ApiMsgs) /\ Elems(<<m>>) = {m}
<1>1. <<m>> \in Seq(ApiMsgs) /\ Len(<<m>>) = 1 /\ <<m>>[1] = m
  OBVIOUS
<1>2. 1..1 = {1}
  OBVIOUS
<1> QED  BY <1>1, <1>2 DEF Elems

LEMMA NoElems == <<>> \in Seq(ApiMsgs) /\ Elems(<<>>) = {}
<1>1. <<>> \in Seq(ApiMsgs) /\ Len(<<>>) = 0 /\ 1..0 = {}
  OBVIOUS
<1> QED  BY <1>1 DEF Elems

LEMMA WayElems == ASSUME NEW ops PROVE OnItsWay(ops) <=> \E m \in Elems(apiQueue) : m.op \in ops
  BY DEF OnItsWay, Elems

\* The messages that SetToSeq arranges.
LEMMA Arranged ==
  ASSUME NEW S, IsFiniteSet(S), S \subseteq ApiMsgs
  PROVE  SetToSeq(S) \in Seq(ApiMsgs) /\ Elems(SetToSeq(S)) = S
<1> DEFINE n == Cardinality(S)
           w == SetToSeq(S)
<1>1. n \in Nat /\ \E f \in [1..n -> S] : IsInjective(f)
  BY FS_CardinalityType DEF ExistsBijection, Bijection, Injection
<1>2. w \in [1..n -> S] /\ IsInjective(w)
  BY <1>1 DEF SetToSeq
<1>3. w \in Injection(1..n, S)
  BY <1>2 DEF Injection
<1>4. Cardinality(1..n) = n
  BY <1>1, FS_Interval
<1>5. w \in Surjection(1..n, S)
  BY <1>3, <1>4, FS_Injection
<1>6. w \in Seq(ApiMsgs) /\ Len(w) = n
  <2> HIDE DEF w
  <2>1. w \in [1..n -> ApiMsgs]
    BY <1>2
  <2> HIDE DEF n
  <2> QED  BY <1>1, <2>1
<1> HIDE DEF w, n
<1>7. Elems(w) = S
  BY <1>2, <1>5, <1>6 DEF Elems, Surjection
<1> QED  BY <1>6, <1>7 DEF w

LEMMA ConvertedBack ==
  ASSUME GnssConfigAssumption, NEW svs \in SUBSET Satellite
  PROVE  /\ ConvertFromGnssSvIdConfig(svs) \in SvEntries
         /\ ConvertToGnssSvIdConfig(ConvertFromGnssSvIdConfig(svs)) = svs
<1> DEFINE full == {c \in Constellation : AllOf({c}) \subseteq svs}
           entries == (svs \ AllOf(full)) \cup {<<c, 0>> : c \in full}
<1>1. entries = ConvertFromGnssSvIdConfig(svs)
  BY DEF ConvertFromGnssSvIdConfig
<1>2. \A sv \in Satellite : sv = <<sv[1], sv[2]>> /\ sv[1] \in Constellation /\ sv[2] # 0
  BY DEF Satellite, GnssConfigAssumption
<1>3. entries \in SvEntries
  <2>1. svs \in SvEntries
    BY DEF SvEntries, Satellite
  <2>2. \A c \in full : <<c, 0>> \in Constellation \X (SvNumber \cup {0})
    OBVIOUS
  <2>3. {<<c, 0>> : c \in full} \in SvEntries
    <3> DEFINE all == Constellation \X (SvNumber \cup {0})
               zeros == {<<c, 0>> : c \in full}
    <3>1. zeros \subseteq all
      <4> HIDE DEF all, full
      <4>1. \A c \in full : <<c, 0>> \in all
        BY <2>2 DEF all
      <4> QED  BY <4>1
    <3> QED  BY <3>1 DEF SvEntries
  <2> HIDE DEF full
  <2> QED  BY <2>1, <2>3 DEF SvEntries
<1>4. ASSUME NEW sv \in Satellite PROVE sv \in svs <=> (sv \in entries \/ <<sv[1], 0>> \in entries)
  <2>1. <<sv[1], 0>> \notin svs /\ (<<sv[1], 0>> \in entries <=> sv[1] \in full)
    <3>1. \A c \in full : sv[1] = c => <<c, 0>> = <<sv[1], 0>>
      OBVIOUS
    <3>2. \A c : <<c, 0>>[1] = c /\ <<c, 0>>[2] = 0
      OBVIOUS
    <3>3. <<sv[1], 0>> \notin Satellite
      BY <1>2, <3>2
    <3>4. <<sv[1], 0>> \in {<<c, 0>> : c \in full} <=> sv[1] \in full
      BY <3>2
    <3> QED  BY <3>3, <3>4
  <2>2. sv \in entries <=> sv \in svs /\ sv \notin AllOf(full)
    <3>1. sv \notin {<<c, 0>> : c \in full}
      <4>1. \A c : <<c, 0>>[2] = 0
        OBVIOUS
      <4> QED  BY <1>2, <4>1
    <3> QED  BY <3>1
  <2>3. sv \in AllOf(full) <=> sv[1] \in full
    BY <1>4 DEF AllOf
  <2>4. sv[1] \in full => sv \in svs
    BY <1>4 DEF AllOf
  <2> QED  BY <2>1, <2>2, <2>3, <2>4
<1> HIDE DEF entries
<1>5. ConvertToGnssSvIdConfig(entries) = svs
  BY <1>4 DEF ConvertToGnssSvIdConfig
<1> QED  BY <1>1, <1>3, <1>5

-----------------------------------------------------------------------------
(* LocApiBase's thread *)

ApiRequest == GnssUpdateConfig \/ ApiTells \/ SetConfigReads

LEMMA ApiStores ==
  ASSUME ApiRequest
  PROVE  /\ apiQueue # <<>> /\ apiQueue' = Tail(apiQueue) /\ loading = <<>>
         /\ Head(apiQueue).op # "open"
         /\ loading' = IF Head(apiQueue).op = "setConfig" THEN <<mLocConfigInfo>> ELSE <<>>
         /\ UNCHANGED <<cfgQueue, cfgPending, cfgModemOpen, said, crossedWrites, touched, cfgCalls,
                        mGnssSvTypeConfig, mGnssSeconaryBandConfig, mGps_conf, mLocConfigInfo>>
         /\ IF Head(apiQueue).op \in {"update", "setConfig"}
            THEN /\ mBlacklistedSvIds' = Head(apiQueue).svs
                 /\ mGnssSvIdConfig' = ConvertToGnssSvIdConfig(Head(apiQueue).svs)
            ELSE UNCHANGED svStored
BY DEF ApiRequest, GnssUpdateConfig, ApiTells, SetConfigReads, ApiHead, ApiTaken, cfgThread, cfgHistory,
       UpdateSvs, cfgStored, svStored

\* What a message tells an open modem.
LEMMA ApiTold ==
  ASSUME CfgTyped, ApiRequest, NEW h, h = Head(apiQueue)
  PROVE  /\ ~cfgModemOpen => modemConfig' = modemConfig
         /\ cfgModemOpen =>
              /\ modemConfig'.svs = IF h \in SvsTold THEN GivenSvs(h) ELSE modemConfig.svs
              /\ modemConfig'.types.on = IF h \in TypesTold THEN GivenOn(h) ELSE modemConfig.types.on
              /\ modemConfig'.band = IF h \in Told({"band"}) THEN h.types ELSE modemConfig.band
              /\ modemConfig'.conf = IF h \in ConfTold THEN GivenConf(h) ELSE modemConfig.conf
              /\ \A k \in Setting : modemConfig'.settings[k] =
                    IF h \in SettingTold(k) THEN h.value ELSE modemConfig.settings[k]
<1>1. /\ h \in ApiMsgs
      /\ modemConfig \in [svs : SUBSET Satellite, types : TypeRecs, band : TypeRecs, conf : Nat,
                          settings : [Setting -> SettingValue \cup {"default"}]]
  <2>1. apiQueue \in Seq(ApiMsgs) /\ apiQueue # <<>>
    BY ApiStores DEF CfgTyped
  <2> QED  BY <2>1, Tailed DEF CfgTyped
<1> USE DEF SvsTold, TypesTold, ConfTold, SettingTold, Told, GivenSvs, GivenOn, GivenConf, Tell, ApiHead
<1>2. CASE GnssUpdateConfig
  BY <1>1, <1>2 DEF GnssUpdateConfig, UpdateSvs
<1>3. CASE SetConfigReads
  BY <1>1, <1>3 DEF SetConfigReads, UpdateSvs
<1>4. CASE ApiTells
  <2>1. CASE ApiHead("updateConf") /\ Tell([modemConfig EXCEPT !.conf = Head(apiQueue).value])
    BY <1>1, <2>1
  <2>2. CASE ApiHead("blacklist") /\ Tell([modemConfig EXCEPT !.svs = Head(apiQueue).svs])
    BY <1>1, <2>2
  <2>3. CASE ApiHead("types") /\ Tell([modemConfig EXCEPT !.types = Head(apiQueue).types])
    BY <1>1, <2>3
  <2>4. CASE ApiHead("resetTypes") /\ Tell([modemConfig EXCEPT !.types = NoTypes])
    BY <1>1, <2>4 DEF NoTypes
  <2>5. CASE ApiHead("band") /\ Tell([modemConfig EXCEPT !.band = Head(apiQueue).types])
    BY <1>1, <2>5
  <2>6. CASE ApiHead("setting")
             /\ Tell([modemConfig EXCEPT !.settings[Head(apiQueue).key] = Head(apiQueue).value])
    BY <1>1, <2>6
  <2> QED  BY <1>4, <2>1, <2>2, <2>3, <2>4, <2>5, <2>6 DEF ApiTells
<1> QED  BY <1>2, <1>3, <1>4 DEF ApiRequest

LEMMA ApiTyped == ASSUME CfgTyped, ApiRequest PROVE CfgTyped'
<1> DEFINE h == Head(apiQueue)
           rec == [svs : SUBSET Satellite, types : TypeRecs, band : TypeRecs, conf : Nat,
                   settings : [Setting -> SettingValue \cup {"default"}]]
<1>1. apiQueue \in Seq(ApiMsgs) /\ apiQueue # <<>> /\ apiQueue' = Tail(apiQueue)
  BY ApiStores DEF CfgTyped
<1>2. h \in ApiMsgs /\ apiQueue' \in Seq(ApiMsgs) /\ modemConfig \in rec
  BY <1>1, Tailed DEF CfgTyped
<1>3. mBlacklistedSvIds' \in SvEntries
  <2>1. h.op \in {"update", "setConfig"} => h.svs \in SvEntries
    BY <1>2 DEF ApiMsgs
  <2> QED  BY <2>1, ApiStores DEF CfgTyped, svStored
<1>4. \A f : f = mLocConfigInfo => loading' = <<>> \/ loading' = <<f>>
  BY ApiStores
<1>5. modemConfig' \in rec
  <2> USE DEF Tell, ApiHead, ApiMsgs
  <2>1. ConvertToGnssSvIdConfig(h.svs) \in SUBSET Satellite
    BY DEF ConvertToGnssSvIdConfig
  <2>2. CASE GnssUpdateConfig
    BY <1>2, <2>1, <2>2 DEF GnssUpdateConfig, UpdateSvs
  <2>3. CASE SetConfigReads
    <3>1. h.conf \in Nat
      BY <1>2, <2>3 DEF SetConfigReads
    <3> QED  BY <1>2, <2>1, <2>3, <3>1 DEF SetConfigReads, UpdateSvs
  <2>4. CASE ApiTells
    <3>1. CASE ApiHead("updateConf") /\ Tell([modemConfig EXCEPT !.conf = h.value])
      <4>1. h.value \in Nat
        BY <1>2, <3>1
      <4> QED  BY <1>2, <3>1, <4>1
    <3>2. CASE ApiHead("blacklist") /\ Tell([modemConfig EXCEPT !.svs = h.svs])
      <4>1. h.svs \in SUBSET Satellite
        BY <1>2, <3>2
      <4> QED  BY <1>2, <3>2, <4>1
    <3>3. CASE ApiHead("types") /\ Tell([modemConfig EXCEPT !.types = h.types])
      <4>1. h.types \in TypeRecs
        BY <1>2, <3>3
      <4> QED  BY <1>2, <3>3, <4>1
    <3>4. CASE ApiHead("resetTypes") /\ Tell([modemConfig EXCEPT !.types = NoTypes])
      <4>1. NoTypes \in TypeRecs
        BY DEF NoTypes, TypeRecs
      <4> QED  BY <1>2, <3>4, <4>1
    <3>5. CASE ApiHead("band") /\ Tell([modemConfig EXCEPT !.band = h.types])
      <4>1. h.types \in TypeRecs
        BY <1>2, <3>5
      <4> QED  BY <1>2, <3>5, <4>1
    <3>6. CASE ApiHead("setting") /\ Tell([modemConfig EXCEPT !.settings[h.key] = h.value])
      <4>1. h.key \in Setting /\ h.value \in SettingValue \cup {"default"}
        BY <1>2, <3>6
      <4>2. [modemConfig.settings EXCEPT ![h.key] = h.value] \in [Setting -> SettingValue \cup {"default"}]
        BY <1>2, <4>1
      <4> QED  BY <1>2, <3>6, <4>2
    <3> QED  BY <2>4, <3>1, <3>2, <3>3, <3>4, <3>5, <3>6 DEF ApiTells
  <2> QED  BY <2>2, <2>3, <2>4 DEF ApiRequest
<1> QED  BY <1>2, <1>3, <1>4, <1>5, ApiStores DEF CfgTyped

LEMMA WayTailed ==
  ASSUME apiQueue \in Seq(ApiMsgs), apiQueue # <<>>, apiQueue' = Tail(apiQueue)
  PROVE  /\ \A ops : OnItsWay(ops) <=> OnItsWay(ops)' \/ Head(apiQueue).op \in ops
         /\ OneOpen(apiQueue) => /\ OneOpen(apiQueue')
                                 /\ Head(apiQueue).op = "open" => ~OnItsWay({"open"})'
<1>1. ASSUME NEW ops PROVE OnItsWay(ops) <=> OnItsWay(ops)' \/ Head(apiQueue).op \in ops
  <2>1. OnItsWay(ops)' <=> \E m \in Elems(apiQueue') : m.op \in ops
    BY DEF OnItsWay, Elems
  <2> QED  BY <2>1, WayElems, Tailed
<1>2. /\ Head(apiQueue) = apiQueue[1] /\ Len(apiQueue) \in Nat \ {0}
      /\ Len(apiQueue') = Len(apiQueue) - 1
      /\ \A i \in 1..Len(apiQueue') : apiQueue'[i] = apiQueue[i + 1] /\ i + 1 \in 1..Len(apiQueue)
  BY Tailed
<1>3. \A i, j \in 1..Len(apiQueue') : i + 1 = j + 1 => i = j
  BY <1>2
<1>4. \A i \in 1..Len(apiQueue') : i + 1 # 1
  BY <1>2
<1>5. 1 \in 1..Len(apiQueue)
  BY <1>2
<1>6. OneOpen(apiQueue) => OneOpen(apiQueue')
  BY <1>2, <1>3 DEF OneOpen
<1>7. OneOpen(apiQueue) /\ Head(apiQueue).op = "open" => ~OnItsWay({"open"})'
  BY <1>2, <1>4, <1>5 DEF OneOpen, OnItsWay
<1> QED  BY <1>1, <1>6, <1>7

LEMMA ApiKeeps == ASSUME CfgIInv, ApiRequest PROVE CfgIInv'
<1> DEFINE q == apiQueue
           h == Head(apiQueue)
<1>1. CfgTyped /\ OpenFits /\ SvsFit /\ RestoredFit /\ SvTypesFit /\ SettingsFit /\ BandFits /\ ConfFits
  BY DEF CfgIInv
<1>2. /\ q \in Seq(ApiMsgs) /\ q # <<>> /\ apiQueue' = Tail(q) /\ h.op # "open" /\ h \in ApiMsgs
      /\ UNCHANGED <<cfgQueue, cfgModemOpen, said, crossedWrites, touched,
                     mGnssSvTypeConfig, mGnssSeconaryBandConfig, mGps_conf, mLocConfigInfo>>
  BY <1>1, ApiStores, Tailed DEF CfgTyped
<1>3. /\ \A ops : OnItsWay(ops) <=> OnItsWay(ops)' \/ h.op \in ops
      /\ OneOpen(apiQueue')
  BY <1>1, <1>2, WayTailed DEF OpenFits
<1>4. (UpComes' <=> UpComes) /\ (~UpComes => cfgModemOpen)
  BY <1>1, <1>2, <1>3 DEF UpComes, OpenFits
<1>5. /\ ~cfgModemOpen => modemConfig' = modemConfig
      /\ cfgModemOpen =>
           /\ modemConfig'.svs = IF h \in SvsTold THEN GivenSvs(h) ELSE modemConfig.svs
           /\ modemConfig'.types.on = IF h \in TypesTold THEN GivenOn(h) ELSE modemConfig.types.on
           /\ modemConfig'.band = IF h \in Told({"band"}) THEN h.types ELSE modemConfig.band
           /\ modemConfig'.conf = IF h \in ConfTold THEN GivenConf(h) ELSE modemConfig.conf
           /\ \A k \in Setting : modemConfig'.settings[k] =
                 IF h \in SettingTold(k) THEN h.value ELSE modemConfig.settings[k]
  BY <1>1, ApiTold
<1>6. OpenFits'
  BY <1>1, <1>2, <1>3, <1>5 DEF OpenFits
<1>7. IF h \in SvsSaved
      THEN mBlacklistedSvIds' = h.svs /\ mGnssSvIdConfig' = GivenSvs(h)
           /\ mGnssSvIdConfig' = ConvertToGnssSvIdConfig(h.svs)
      ELSE UNCHANGED <<mBlacklistedSvIds, mGnssSvIdConfig>>
  BY <1>2, ApiStores DEF svStored, SvsSaved, Told, GivenSvs
<1>h. h = Head(q)
  OBVIOUS
<1> HIDE DEF h, q
<1>8. SvsFit'
  <2>1. mGnssSvIdConfig' = ConvertToGnssSvIdConfig(mBlacklistedSvIds')
    BY <1>1, <1>7 DEF SvsFit
  <2>2. ASSUME "svs" \notin crossedWrites
        PROVE  LastFits(apiQueue', Told({"update"}), SvsSaved,
                        {m \in SvsSaved : GivenSvs(m) = said.svs}, mGnssSvIdConfig' = said.svs)
    <3> DEFINE good == {m \in SvsSaved : GivenSvs(m) = said.svs}
           now == mGnssSvIdConfig = said.svs
           next == mGnssSvIdConfig' = said.svs
    <3>1. LastFits(q, Told({"update"}), SvsSaved, good, now)
      BY <1>1, <2>2 DEF SvsFit, q
    <3>2. \/ h \in SvsSaved /\ (h \in good => next)
          \/ h \notin Told({"update"}) /\ (now => next)
      BY <1>7 DEF SvsSaved, Told
    <3> HIDE DEF good, now, next
    <3>3. LastFits(Tail(q), Told({"update"}), SvsSaved, good, next)
      BY <1>2, <1>h, <3>1, <3>2, LastTailed
    <3> QED  BY <1>2, <3>3 DEF good, next
  <2>3. ASSUME "svs" \notin crossedWrites, ~UpComes
        PROVE  LastFits(apiQueue', SvsTold, SvsTold, {m \in SvsTold : said.svs \subseteq GivenSvs(m)},
                        said.svs \subseteq modemConfig'.svs)
    <3> DEFINE good == {m \in SvsTold : said.svs \subseteq GivenSvs(m)}
               now == said.svs \subseteq modemConfig.svs
               next == said.svs \subseteq modemConfig'.svs
    <3>1. LastFits(q, SvsTold, SvsTold, good, now)
      BY <1>1, <2>3 DEF SvsFit, q
    <3>2. \/ h \in SvsTold /\ (h \in good => next)
          \/ h \notin SvsTold /\ (now => next)
      BY <1>4, <1>5, <2>3
    <3> HIDE DEF good, now, next
    <3>3. LastFits(Tail(q), SvsTold, SvsTold, good, next)
      BY <1>2, <1>h, <3>1, <3>2, LastTailed
    <3> QED  BY <1>2, <3>3 DEF good, next
  <2> QED  BY <1>2, <1>4, <2>1, <2>2, <2>3 DEF SvsFit
<1>9. RestoredFit'
  <2>1. RestoredSvs' = RestoredSvs
    BY <1>2 DEF RestoredSvs
  <2> SUFFICES ASSUME "svs" \notin crossedWrites, ~UpComes, ~touched
               PROVE  LastFits(apiQueue', SvsTold, SvsTold, {m \in SvsTold : GivenSvs(m) = RestoredSvs},
                               modemConfig'.svs = RestoredSvs)
    BY <1>2, <1>4, <2>1 DEF RestoredFit
  <2> DEFINE good == {m \in SvsTold : GivenSvs(m) = RestoredSvs}
             now == modemConfig.svs = RestoredSvs
             next == modemConfig'.svs = RestoredSvs
  <2>2. LastFits(q, SvsTold, SvsTold, good, now)
    BY <1>1 DEF RestoredFit, q
  <2>3. \/ h \in SvsTold /\ (h \in good => next)
        \/ h \notin SvsTold /\ (now => next)
    BY <1>4, <1>5
  <2> HIDE DEF good, now, next
  <2>4. LastFits(Tail(q), SvsTold, SvsTold, good, next)
    BY <1>2, <1>h, <2>2, <2>3, LastTailed
  <2> QED  BY <1>2, <2>4 DEF good, next
<1>10. SvTypesFit'
  <2> DEFINE cut == TypesTold \cup Told({"open"})
  <2>1. ASSUME "types" \notin crossedWrites
        PROVE  LastFits(apiQueue', cut, TypesTold,
                        {m \in TypesTold : GivenOn(m) \subseteq mGnssSvTypeConfig.on},
                        modemConfig'.types.on \subseteq mGnssSvTypeConfig.on)
    <3> DEFINE good == {m \in TypesTold : GivenOn(m) \subseteq mGnssSvTypeConfig.on}
               now == modemConfig.types.on \subseteq mGnssSvTypeConfig.on
               next == modemConfig'.types.on \subseteq mGnssSvTypeConfig.on
    <3>1. LastFits(q, cut, TypesTold, good, now)
      BY <1>1, <2>1 DEF SvTypesFit, q
    <3>2. \/ h \in TypesTold /\ (h \in good => next)
          \/ h \notin cut /\ (now => next)
          \/ next
      <4>1. CASE cfgModemOpen
        BY <1>2, <1>5, <4>1 DEF Told
      <4>2. CASE ~cfgModemOpen
        BY <1>1, <1>5, <4>2 DEF OpenFits, ForgetfulModem, NoTypes
      <4> QED  BY <4>1, <4>2
    <3> HIDE DEF good, now, next, cut
    <3>3. LastFits(Tail(q), cut, TypesTold, good, next)
      BY <1>2, <1>h, <3>1, <3>2, LastTailed
    <3> QED  BY <1>2, <3>3 DEF good, next
  <2>2. ASSUME "types" \notin crossedWrites, ~UpComes
        PROVE  LastFits(apiQueue', TypesTold, TypesTold,
                        {m \in TypesTold : GivenOn(m) = mGnssSvTypeConfig.on},
                        modemConfig'.types.on = mGnssSvTypeConfig.on)
    <3> DEFINE good == {m \in TypesTold : GivenOn(m) = mGnssSvTypeConfig.on}
               now == modemConfig.types.on = mGnssSvTypeConfig.on
               next == modemConfig'.types.on = mGnssSvTypeConfig.on
    <3>1. LastFits(q, TypesTold, TypesTold, good, now)
      BY <1>1, <2>2 DEF SvTypesFit, q
    <3>2. \/ h \in TypesTold /\ (h \in good => next)
          \/ h \notin TypesTold /\ (now => next)
      BY <1>4, <1>5, <2>2
    <3> HIDE DEF good, now, next
    <3>3. LastFits(Tail(q), TypesTold, TypesTold, good, next)
      BY <1>2, <1>h, <3>1, <3>2, LastTailed
    <3> QED  BY <1>2, <3>3 DEF good, next
  <2> QED  BY <1>1, <1>2, <1>4, <2>1, <2>2 DEF SvTypesFit
<1>11. BandFits'
  <2>1. said.band.size = 0 => modemConfig'.band = UnsetTypes /\ ~OnItsWay({"band"})'
    <3> SUFFICES ASSUME said.band.size = 0 PROVE modemConfig'.band = UnsetTypes /\ ~OnItsWay({"band"})'
      OBVIOUS
    <3>1. h.op # "band" /\ ~OnItsWay({"band"})' /\ modemConfig.band = UnsetTypes
      BY <1>1, <1>3 DEF BandFits
    <3>2. h \notin Told({"band"})
      BY <3>1 DEF Told
    <3> QED  BY <1>5, <3>1, <3>2
  <2>2. ASSUME ~UpComes
        PROVE  LastFits(apiQueue', Told({"band"}), Told({"band"}),
                        {m \in Told({"band"}) : m.types = said.band}, modemConfig'.band = said.band)
    <3> DEFINE good == {m \in Told({"band"}) : m.types = said.band}
               now == modemConfig.band = said.band
               next == modemConfig'.band = said.band
    <3>1. LastFits(q, Told({"band"}), Told({"band"}), good, now)
      BY <1>1, <2>2 DEF BandFits, q
    <3>2. \/ h \in Told({"band"}) /\ (h \in good => next)
          \/ h \notin Told({"band"}) /\ (now => next)
      BY <1>4, <1>5, <2>2
    <3> HIDE DEF good, now, next
    <3>3. LastFits(Tail(q), Told({"band"}), Told({"band"}), good, next)
      BY <1>2, <1>h, <3>1, <3>2, LastTailed
    <3> QED  BY <1>2, <3>3 DEF good, next
  <2> QED  BY <1>1, <1>2, <1>4, <2>1, <2>2 DEF BandFits
<1>12. ConfFits'
  <2>2. ASSUME ~UpComes
        PROVE  LastFits(apiQueue', ConfTold, ConfTold, {m \in ConfTold : GivenConf(m) = said.conf},
                        modemConfig'.conf = said.conf)
    <3> DEFINE good == {m \in ConfTold : GivenConf(m) = said.conf}
               now == modemConfig.conf = said.conf
               next == modemConfig'.conf = said.conf
    <3>1. LastFits(q, ConfTold, ConfTold, good, now)
      BY <1>1, <2>2 DEF ConfFits, q
    <3>2. \/ h \in ConfTold /\ (h \in good => next)
          \/ h \notin ConfTold /\ (now => next)
      BY <1>4, <1>5, <2>2
    <3> HIDE DEF good, now, next
    <3>3. LastFits(Tail(q), ConfTold, ConfTold, good, next)
      BY <1>2, <1>h, <3>1, <3>2, LastTailed
    <3> QED  BY <1>2, <3>3 DEF good, next
  <2> QED  BY <1>1, <1>2, <1>4, <2>2 DEF ConfFits
<1>13. SettingsFit'
  <2>1. loading = <<>> /\ loading' = IF h.op = "setConfig" THEN <<mLocConfigInfo>> ELSE <<>>
    BY ApiStores DEF h
  <2>2. ~SettingsCome' => ~SettingsCome /\ ~UpComes
    BY <1>3, <1>4, <2>1 DEF SettingsCome
  <2>3. ASSUME NEW k \in Setting, ~SettingsCome', k \notin crossedWrites
        PROVE  LastFits(apiQueue', SettingTold(k), SettingTold(k),
                        {m \in SettingTold(k) : m.value = said.settings[k]},
                        modemConfig'.settings[k] = said.settings[k])
    <3> DEFINE good == {m \in SettingTold(k) : m.value = said.settings[k]}
               now == modemConfig.settings[k] = said.settings[k]
               next == modemConfig'.settings[k] = said.settings[k]
    <3>1. LastFits(q, SettingTold(k), SettingTold(k), good, now)
      BY <1>1, <2>2, <2>3 DEF SettingsFit, q
    <3>2. \/ h \in SettingTold(k) /\ (h \in good => next)
          \/ h \notin SettingTold(k) /\ (now => next)
      BY <1>4, <1>5, <2>2, <2>3
    <3> HIDE DEF good, now, next
    <3>3. LastFits(Tail(q), SettingTold(k), SettingTold(k), good, next)
      BY <1>2, <1>h, <3>1, <3>2, LastTailed
    <3> QED  BY <1>2, <3>3 DEF good, next
  <2>4. ASSUME NEW k \in Setting
        PROVE  /\ ~SettingsCome' => mLocConfigInfo[k] # Unset
               /\ loading' # <<>> => loading'[1][k] = mLocConfigInfo[k]
               /\ k \notin crossedWrites =>
                     \/ mLocConfigInfo[k] = said.settings[k]
                     \/ mLocConfigInfo[k] = Unset /\ said.settings[k] = "default"
    BY <1>1, <2>1, <2>2 DEF SettingsFit
  <2> QED  BY <1>2, <2>3, <2>4 DEF SettingsFit
<1>14. CfgTyped'
  BY <1>1, ApiTyped
<1> QED  BY <1>6, <1>8, <1>9, <1>10, <1>11, <1>12, <1>13, <1>14 DEF CfgIInv

-----------------------------------------------------------------------------
(* Messages sent to LocApiBase *)

LEMMA WayJoined ==
  ASSUME apiQueue \in Seq(ApiMsgs), NEW w \in Seq(ApiMsgs), apiQueue' = apiQueue \o w
  PROVE  /\ apiQueue' \in Seq(ApiMsgs)
         /\ \A ops : OnItsWay(ops)' <=> OnItsWay(ops) \/ \E m \in Elems(w) : m.op \in ops
         /\ OneOpen(apiQueue) /\ (\A m \in Elems(w) : m.op # "open") => OneOpen(apiQueue')
<1>1. /\ apiQueue' \in Seq(ApiMsgs) /\ Elems(apiQueue') = Elems(apiQueue) \cup Elems(w)
      /\ Len(apiQueue') = Len(apiQueue) + Len(w)
      /\ \A i \in 1..Len(apiQueue) : apiQueue'[i] = apiQueue[i]
      /\ \A i \in 1..Len(w) : apiQueue'[Len(apiQueue) + i] = w[i]
      /\ \A i \in 1..Len(apiQueue') :
            \/ i \in 1..Len(apiQueue)
            \/ i - Len(apiQueue) \in 1..Len(w) /\ Len(apiQueue) + (i - Len(apiQueue)) = i
  BY Joined
<1>2. ASSUME NEW ops PROVE OnItsWay(ops)' <=> OnItsWay(ops) \/ \E m \in Elems(w) : m.op \in ops
  <2>1. OnItsWay(ops)' <=> \E m \in Elems(apiQueue') : m.op \in ops
    BY DEF OnItsWay, Elems
  <2> QED  BY <1>1, <2>1, WayElems
<1>3. ASSUME OneOpen(apiQueue), \A m \in Elems(w) : m.op # "open" PROVE OneOpen(apiQueue')
  <2>1. ASSUME NEW i \in 1..Len(apiQueue'), apiQueue'[i].op = "open"
        PROVE  i \in 1..Len(apiQueue) /\ apiQueue[i].op = "open"
    <3>1. i - Len(apiQueue) \notin 1..Len(w)
      BY <1>1, <1>3, <2>1 DEF Elems
    <3> QED  BY <1>1, <2>1, <3>1
  <2> QED  BY <1>3, <2>1 DEF OneOpen
<1> QED  BY <1>1, <1>2, <1>3

\* What a step leaves alone when it sends nothing about it.
LEMMA SvsOthers ==
  ASSUME SvsFit, apiQueue \in Seq(ApiMsgs), NEW w \in Seq(ApiMsgs), apiQueue' = apiQueue \o w,
         Elems(w) \cap SvsTold = {}, UNCHANGED svStored, said'.svs = said.svs,
         "svs" \notin crossedWrites' => "svs" \notin crossedWrites,
         UpComes' \/ (UNCHANGED modemConfig /\ ~UpComes)
  PROVE  SvsFit'
<1>1. Elems(w) \cap SvsSaved = {}
  BY DEF SvsTold, SvsSaved, Told
<1>2. mBlacklistedSvIds' = mBlacklistedSvIds /\ mGnssSvIdConfig' = mGnssSvIdConfig
  BY DEF svStored
<1>3. ASSUME NEW cut, NEW rel, NEW good, NEW now, LastFits(apiQueue, cut, rel, good, now),
             Elems(w) \cap rel = {}
      PROVE  LastFits(apiQueue', cut, rel, good, now)
  BY <1>3, LastJoined
<1> DEFINE good1 == {m \in SvsSaved : GivenSvs(m) = said.svs}
           now1 == mGnssSvIdConfig = said.svs
           good2 == {m \in SvsTold : said.svs \subseteq GivenSvs(m)}
           now2 == said.svs \subseteq modemConfig.svs
<1>4. "svs" \notin crossedWrites =>
        /\ LastFits(apiQueue, Told({"update"}), SvsSaved, good1, now1)
        /\ ~UpComes => LastFits(apiQueue, SvsTold, SvsTold, good2, now2)
  BY DEF SvsFit
<1> HIDE DEF good1, now1, good2, now2
<1>5. "svs" \notin crossedWrites =>
        /\ LastFits(apiQueue', Told({"update"}), SvsSaved, good1, now1)
        /\ ~UpComes => LastFits(apiQueue', SvsTold, SvsTold, good2, now2)
  BY <1>1, <1>3, <1>4
<1> QED  BY <1>2, <1>5 DEF SvsFit, good1, now1, good2, now2

LEMMA SvTypesOthers ==
  ASSUME SvTypesFit, apiQueue \in Seq(ApiMsgs), NEW w \in Seq(ApiMsgs), apiQueue' = apiQueue \o w,
         Elems(w) \cap TypesTold = {}, UNCHANGED <<mGnssSvTypeConfig, modemConfig>>,
         "types" \notin crossedWrites' => "types" \notin crossedWrites, UpComes' \/ ~UpComes
  PROVE  SvTypesFit'
<1> DEFINE cut == TypesTold \cup Told({"open"})
           good1 == {m \in TypesTold : GivenOn(m) \subseteq mGnssSvTypeConfig.on}
           now1 == modemConfig.types.on \subseteq mGnssSvTypeConfig.on
           good2 == {m \in TypesTold : GivenOn(m) = mGnssSvTypeConfig.on}
           now2 == modemConfig.types.on = mGnssSvTypeConfig.on
<1>1. "types" \notin crossedWrites =>
        /\ LastFits(apiQueue, cut, TypesTold, good1, now1)
        /\ ~UpComes => LastFits(apiQueue, TypesTold, TypesTold, good2, now2)
  BY DEF SvTypesFit
<1> HIDE DEF cut, good1, now1, good2, now2
<1>2. "types" \notin crossedWrites =>
        /\ LastFits(apiQueue', cut, TypesTold, good1, now1)
        /\ ~UpComes => LastFits(apiQueue', TypesTold, TypesTold, good2, now2)
  BY <1>1, LastJoined
<1> QED  BY <1>2 DEF SvTypesFit, cut, good1, now1, good2, now2

LEMMA BandOthers ==
  ASSUME BandFits, apiQueue \in Seq(ApiMsgs), NEW w \in Seq(ApiMsgs), apiQueue' = apiQueue \o w,
         Elems(w) \cap Told({"band"}) = {}, UNCHANGED mGnssSeconaryBandConfig, said'.band = said.band,
         \/ UpComes' /\ (modemConfig'.band = UnsetTypes \/ UNCHANGED modemConfig)
         \/ UNCHANGED modemConfig /\ ~UpComes
  PROVE  BandFits'
<1> DEFINE good == {m \in Told({"band"}) : m.types = said.band}
           now == modemConfig.band = said.band
<1>1. ~UpComes => LastFits(apiQueue, Told({"band"}), Told({"band"}), good, now)
  BY DEF BandFits
<1> HIDE DEF good, now
<1>2. ~UpComes => LastFits(apiQueue', Told({"band"}), Told({"band"}), good, now)
  BY <1>1, LastJoined
<1>3. OnItsWay({"band"})' <=> OnItsWay({"band"})
  <2>1. Elems(w) \subseteq ApiMsgs
    BY DEF Elems
  <2>2. \A m \in Elems(w) : m.op # "band"
    BY <2>1 DEF Told
  <2> QED  BY <2>2, WayJoined
<1> QED  BY <1>2, <1>3 DEF BandFits, good, now

LEMMA ConfOthers ==
  ASSUME ConfFits, apiQueue \in Seq(ApiMsgs), NEW w \in Seq(ApiMsgs), apiQueue' = apiQueue \o w,
         Elems(w) \cap ConfTold = {}, UNCHANGED mGps_conf, said'.conf = said.conf,
         UpComes' \/ (UNCHANGED modemConfig /\ ~UpComes)
  PROVE  ConfFits'
<1> DEFINE good == {m \in ConfTold : GivenConf(m) = said.conf}
           now == modemConfig.conf = said.conf
<1>1. ~UpComes => LastFits(apiQueue, ConfTold, ConfTold, good, now)
  BY DEF ConfFits
<1> HIDE DEF good, now
<1>2. ~UpComes => LastFits(apiQueue', ConfTold, ConfTold, good, now)
  BY <1>1, LastJoined
<1> QED  BY <1>2 DEF ConfFits, good, now

LEMMA SettingsOthers ==
  ASSUME SettingsFit, apiQueue \in Seq(ApiMsgs), NEW w \in Seq(ApiMsgs), apiQueue' = apiQueue \o w,
         \A m \in Elems(w) : m.op # "setting", UNCHANGED <<mLocConfigInfo, loading>>,
         said'.settings = said.settings,
         \A k \in Setting : k \notin crossedWrites' => k \notin crossedWrites,
         SettingsCome' \/ (UNCHANGED modemConfig /\ ~SettingsCome)
  PROVE  SettingsFit'
<1>1. ASSUME NEW k \in Setting, k \notin crossedWrites', ~SettingsCome'
      PROVE  LastFits(apiQueue', SettingTold(k), SettingTold(k),
                      {m \in SettingTold(k) : m.value = said'.settings[k]},
                      modemConfig'.settings[k] = said'.settings[k])
  <2> DEFINE good == {m \in SettingTold(k) : m.value = said.settings[k]}
             now == modemConfig.settings[k] = said.settings[k]
  <2>1. LastFits(apiQueue, SettingTold(k), SettingTold(k), good, now)
    BY <1>1 DEF SettingsFit
  <2>2. Elems(w) \cap SettingTold(k) = {}
    BY DEF SettingTold, Told
  <2> HIDE DEF good, now
  <2>3. LastFits(apiQueue', SettingTold(k), SettingTold(k), good, now)
    BY <2>1, <2>2, LastJoined
  <2> QED  BY <1>1, <2>3 DEF good, now
<1>2. ASSUME NEW k \in Setting
      PROVE  /\ ~SettingsCome' => mLocConfigInfo'[k] # Unset
             /\ loading' # <<>> /\ loading'[1][k] # Unset => mLocConfigInfo'[k] # Unset
             /\ k \notin crossedWrites' =>
                   /\ \/ mLocConfigInfo'[k] = said'.settings[k]
                      \/ mLocConfigInfo'[k] = Unset /\ said'.settings[k] = "default"
                   /\ loading' # <<>> => loading'[1][k] = mLocConfigInfo'[k]
  BY DEF SettingsFit
<1> QED  BY <1>1, <1>2 DEF SettingsFit

LEMMA CfgRestartKeeps == ASSUME CfgIInv, CfgModemRestarts PROVE CfgIInv'
<1> DEFINE m == [op |-> "open"]
           w == <<m>>
<1>1. CfgTyped /\ OpenFits /\ SvsFit /\ RestoredFit /\ SvTypesFit /\ SettingsFit /\ BandFits /\ ConfFits
  BY DEF CfgIInv
<1>2. /\ cfgModemOpen /\ modemConfig' = ForgetfulModem /\ cfgModemOpen' = FALSE /\ apiQueue' = apiQueue \o w
      /\ crossedWrites' = crossedWrites \ {"types"}
      /\ UNCHANGED <<cfgQueue, cfgPending, svStored, mGnssSvTypeConfig, mLocConfigInfo,
                     mGnssSeconaryBandConfig, mGps_conf, loading, said, touched, cfgCalls>>
  BY DEF CfgModemRestarts, SendApi, cfgThread, cfgStored
<1>3. m \in ApiMsgs /\ m.op = "open"
  BY DEF ApiMsgs
<1> HIDE DEF m
<1>4. w \in Seq(ApiMsgs) /\ Elems(w) = {m} /\ apiQueue \in Seq(ApiMsgs)
  BY <1>1, <1>3, OneElem DEF CfgTyped
<1> HIDE DEF w
<1>5. /\ apiQueue' \in Seq(ApiMsgs)
      /\ \A ops : OnItsWay(ops)' <=> OnItsWay(ops) \/ m.op \in ops
  BY <1>2, <1>4, WayJoined
<1>6. UpComes' /\ SettingsCome' /\ OnItsWay({"open"})'
  BY <1>3, <1>5 DEF UpComes, SettingsCome
<1>7. OneOpen(apiQueue')
  <2>1. \A i \in 1..Len(apiQueue) : apiQueue[i].op # "open"
    BY <1>1, <1>2 DEF OpenFits, OnItsWay
  <2>2. /\ Len(apiQueue') = Len(apiQueue) + Len(w) /\ Len(w) = 1 /\ Len(apiQueue) \in Nat
        /\ \A i \in 1..Len(apiQueue) : apiQueue'[i] = apiQueue[i]
    BY <1>2, <1>4, Joined DEF w
  <2>3. \A i \in 1..Len(apiQueue') : i \in 1..Len(apiQueue) \/ i = Len(apiQueue')
    BY <2>2
  <2> QED  BY <2>1, <2>2, <2>3 DEF OneOpen
<1>8. OpenFits'
  BY <1>2, <1>6, <1>7 DEF OpenFits
<1>9. SvsFit'
  <2>1. Elems(w) \cap SvsTold = {}
    BY <1>3, <1>4 DEF SvsTold, Told
  <2> QED  BY <1>1, <1>2, <1>4, <1>6, <2>1, SvsOthers
<1>10. ConfFits'
  <2>1. Elems(w) \cap ConfTold = {}
    BY <1>3, <1>4 DEF ConfTold, Told
  <2> QED  BY <1>1, <1>2, <1>4, <1>6, <2>1, ConfOthers
<1>11. BandFits'
  <2>1. Elems(w) \cap Told({"band"}) = {}
    BY <1>3, <1>4 DEF Told
  <2>2. modemConfig'.band = UnsetTypes
    BY <1>2 DEF ForgetfulModem
  <2> QED  BY <1>1, <1>2, <1>4, <1>6, <2>1, <2>2, BandOthers
<1>12. SettingsFit'
  <2>1. \A k \in Setting : k \notin crossedWrites' => k \notin crossedWrites
    BY <1>2, GnssConfigAssumption DEF GnssConfigAssumption
  <2>2. \A n \in Elems(w) : n.op # "setting"
    BY <1>3, <1>4
  <2> QED  BY <1>1, <1>2, <1>4, <1>6, <2>1, <2>2, SettingsOthers
<1>13. SvTypesFit'
  <2> DEFINE cut == TypesTold \cup Told({"open"})
             good == {n \in TypesTold : GivenOn(n) \subseteq mGnssSvTypeConfig.on}
             now == modemConfig'.types.on \subseteq mGnssSvTypeConfig.on
  <2>1. Elems(w) \cap cut # {} /\ Elems(w) \cap TypesTold = {}
    BY <1>3, <1>4 DEF TypesTold, Told
  <2> HIDE DEF cut, good, now
  <2>2. LastFits(apiQueue', cut, TypesTold, good, now)
    BY <1>2, <1>4, <2>1, LastJoined
  <2> QED  BY <1>1, <1>2, <1>6, <2>2 DEF SvTypesFit, cut, good, now
<1>14. CfgTyped'
  <2>1. modemConfig' \in [svs : SUBSET Satellite, types : TypeRecs, band : TypeRecs, conf : Nat,
                          settings : [Setting -> SettingValue \cup {"default"}]]
    <3>1. NoTypes \in TypeRecs /\ UnsetTypes \in TypeRecs
      BY DEF NoTypes, UnsetTypes, TypeRecs
    <3>2. [k \in Setting |-> "default"] \in [Setting -> SettingValue \cup {"default"}]
      OBVIOUS
    <3> QED  BY <1>2, <3>1, <3>2 DEF ForgetfulModem
  <2> QED  BY <1>1, <1>2, <1>5, <2>1 DEF CfgTyped, svStored
<1> QED  BY <1>6, <1>8, <1>9, <1>10, <1>11, <1>12, <1>13, <1>14 DEF CfgIInv, RestoredFit

LEMMA LocOpensKeeps == ASSUME CfgIInv, LocOpens PROVE CfgIInv'
<1> DEFINE q == apiQueue
           h == Head(apiQueue)
           up == [op |-> "engineUp"]
<1>1. CfgTyped /\ OpenFits /\ SvsFit /\ RestoredFit /\ SvTypesFit /\ SettingsFit /\ BandFits /\ ConfFits
  BY DEF CfgIInv
<1>2. /\ q # <<>> /\ apiQueue' = Tail(q) /\ h.op = "open" /\ cfgModemOpen' = TRUE
      /\ cfgQueue' = Append(cfgQueue, up)
      /\ UNCHANGED <<cfgPending, svStored, mGnssSvTypeConfig, mLocConfigInfo,
                     mGnssSeconaryBandConfig, mGps_conf, loading, modemConfig, said, crossedWrites,
                     touched, cfgCalls>>
  BY DEF LocOpens, ApiHead, cfgStored, cfgHistory
<1>h. h = Head(q)
  OBVIOUS
<1>3. up \in CfgMsgs /\ up.op = "engineUp"
  BY DEF CfgMsgs
<1>4. q \in Seq(ApiMsgs) /\ h \in ApiMsgs /\ apiQueue' \in Seq(ApiMsgs)
  BY <1>1, <1>2, Tailed DEF CfgTyped
<1>5. /\ \A ops : OnItsWay(ops) <=> OnItsWay(ops)' \/ h.op \in ops
      /\ OneOpen(apiQueue') /\ ~OnItsWay({"open"})'
  BY <1>1, <1>2, <1>4, WayTailed DEF OpenFits
<1> HIDE DEF q, h, up
<1>6. cfgQueue' \in Seq(CfgMsgs) /\ UpComes' /\ SettingsCome'
  <2>1. cfgQueue \in Seq(CfgMsgs)
    BY <1>1 DEF CfgTyped
  <2>2. /\ cfgQueue' \in Seq(CfgMsgs) /\ Len(cfgQueue) + 1 \in 1..Len(cfgQueue')
        /\ cfgQueue'[Len(cfgQueue) + 1] = up
    BY <1>2, <1>3, <2>1
  <2> QED  BY <1>3, <2>2 DEF UpComes, SettingsCome
<1>7. OpenFits'
  BY <1>2, <1>5 DEF OpenFits
<1>8. modemConfig = ForgetfulModem
  <2>1. OnItsWay({"open"})
    BY <1>2, <1>5
  <2> QED  BY <1>1, <2>1 DEF OpenFits
<1>9. SvsFit'
  <2> DEFINE good == {m \in SvsSaved : GivenSvs(m) = said.svs}
             now == mGnssSvIdConfig = said.svs
  <2>1. "svs" \notin crossedWrites => LastFits(q, Told({"update"}), SvsSaved, good, now)
    BY <1>1 DEF SvsFit, q
  <2>2. h \notin Told({"update"})
    BY <1>2 DEF Told
  <2> HIDE DEF good, now
  <2>3. "svs" \notin crossedWrites => LastFits(Tail(q), Told({"update"}), SvsSaved, good, now)
    BY <1>2, <1>4, <1>h, <2>1, <2>2, LastTailed
  <2> QED  BY <1>1, <1>2, <1>6, <2>3 DEF SvsFit, good, now, svStored
<1>10. SvTypesFit'
  <2> DEFINE cut == TypesTold \cup Told({"open"})
             good == {m \in TypesTold : GivenOn(m) \subseteq mGnssSvTypeConfig.on}
             now == modemConfig.types.on \subseteq mGnssSvTypeConfig.on
  <2>1. "types" \notin crossedWrites => LastFits(q, cut, TypesTold, good, now)
    BY <1>1 DEF SvTypesFit, q
  <2>2. now
    BY <1>8 DEF ForgetfulModem, NoTypes
  <2> HIDE DEF cut, good, now
  <2>3. "types" \notin crossedWrites => LastFits(Tail(q), cut, TypesTold, good, now)
    BY <1>2, <1>4, <1>h, <2>1, <2>2, LastTailed
  <2> QED  BY <1>1, <1>2, <1>6, <2>3 DEF SvTypesFit, cut, good, now
<1>11. BandFits' /\ ConfFits'
  BY <1>1, <1>2, <1>5, <1>6 DEF BandFits, ConfFits
<1>12. SettingsFit'
  BY <1>1, <1>2, <1>6 DEF SettingsFit
<1>13. CfgTyped'
  BY <1>1, <1>2, <1>4, <1>6 DEF CfgTyped, svStored
<1> QED  BY <1>6, <1>7, <1>9, <1>10, <1>11, <1>12, <1>13 DEF CfgIInv, RestoredFit

\* Steps that only change what is under way for the adapter.
LEMMA IdleKeeps ==
  ASSUME CfgIInv, UNCHANGED <<apiQueue, loading, cfgStored, modemConfig, cfgModemOpen, said, crossedWrites>>,
         touched' \/ ~touched, cfgQueue' \in Seq(CfgMsgs), cfgPending' \in Seq(CfgMsgs), cfgCalls' \in Nat,
         UpComes' <=> UpComes
  PROVE  CfgIInv'
<1>1. CfgTyped /\ OpenFits /\ SvsFit /\ RestoredFit /\ SvTypesFit /\ SettingsFit /\ BandFits /\ ConfFits
  BY DEF CfgIInv
<1>2. UNCHANGED <<mBlacklistedSvIds, mGnssSvIdConfig, mGnssSvTypeConfig, mLocConfigInfo,
                  mGnssSeconaryBandConfig, mGps_conf>>
  BY DEF cfgStored, svStored
<1>3. \A ops : OnItsWay(ops)' <=> OnItsWay(ops)
  BY DEF OnItsWay
<1>4. SettingsCome' <=> SettingsCome
  BY <1>3 DEF SettingsCome
<1>5. CfgTyped' /\ OpenFits'
  BY <1>1, <1>2, <1>3 DEF CfgTyped, OpenFits
<1>6. SvsFit'
  BY <1>1, <1>2 DEF SvsFit
<1>7. RestoredFit'
  BY <1>1, <1>2 DEF RestoredFit, RestoredSvs
<1>8. SvTypesFit'
  BY <1>1, <1>2 DEF SvTypesFit
<1>9. SettingsFit'
  BY <1>1, <1>2, <1>4 DEF SettingsFit
<1>10. BandFits' /\ ConfFits'
  BY <1>1, <1>2, <1>3 DEF BandFits, ConfFits
<1> QED  BY <1>5, <1>6, <1>7, <1>8, <1>9, <1>10 DEF CfgIInv

-----------------------------------------------------------------------------
(* The adapter's thread *)

LEMMA CfgStarts == ASSUME CfgInit PROVE CfgIInv
<1> DEFINE m == [op |-> "open"]
<1>1. m \in ApiMsgs /\ m.op = "open" /\ apiQueue = <<m>>
  BY DEF CfgInit, ApiMsgs
<1> HIDE DEF m
<1>2. apiQueue \in Seq(ApiMsgs) /\ Elems(apiQueue) = {m} /\ Len(apiQueue) = 1
  BY <1>1, OneElem
<1>3. OnItsWay({"open"}) /\ ~OnItsWay({"band"})
  BY <1>1, <1>2, WayElems
<1>4. OpenFits /\ UpComes
  BY <1>2, <1>3 DEF OpenFits, OneOpen, UpComes, CfgInit
<1>5. ConvertToGnssSvIdConfig({}) = {}
  BY DEF ConvertToGnssSvIdConfig
<1>6. apiQueue[1] = m /\ 0..1 = {0, 1}
  BY <1>1
<1>7. SvsFit
  <2>1. m \notin SvsSaved
    BY <1>1 DEF SvsSaved, Told
  <2>2. LastFits(apiQueue, Told({"update"}), SvsSaved, {n \in SvsSaved : GivenSvs(n) = said.svs},
                 mGnssSvIdConfig = said.svs)
    BY <1>2, <1>6, <2>1 DEF LastFits, CfgInit
  <2> QED  BY <1>4, <1>5, <2>2 DEF SvsFit, CfgInit
<1>8. SvTypesFit
  <2>1. m \notin TypesTold
    BY <1>1 DEF TypesTold, Told
  <2>2. modemConfig.types.on \subseteq mGnssSvTypeConfig.on /\ mGnssSvTypeConfig.on = {}
    BY DEF CfgInit, ForgetfulModem, NoTypes, UnsetTypes
  <2>3. LastFits(apiQueue, TypesTold \cup Told({"open"}), TypesTold,
                 {n \in TypesTold : GivenOn(n) \subseteq mGnssSvTypeConfig.on},
                 modemConfig.types.on \subseteq mGnssSvTypeConfig.on)
    BY <1>2, <1>6, <2>1, <2>2 DEF LastFits
  <2> QED  BY <1>4, <2>2, <2>3 DEF SvTypesFit
<1>9. SettingsFit
  BY <1>4 DEF SettingsFit, SettingsCome, CfgInit
<1>10. BandFits
  BY <1>3, <1>4 DEF BandFits, CfgInit, ForgetfulModem
<1>11. ConfFits
  BY <1>4 DEF ConfFits, CfgInit
<1>12. CfgTyped
  <2>1. NoTypes \in TypeRecs /\ UnsetTypes \in TypeRecs /\ {} \in SvEntries
    BY DEF NoTypes, UnsetTypes, TypeRecs, SvEntries
  <2>2. /\ [k \in Setting |-> "default"] \in [Setting -> SettingValue \cup {"default"}]
        /\ [k \in Setting |-> Unset] \in [Setting -> SettingValue \cup {"default", Unset}]
    OBVIOUS
  <2>3. modemConfig \in [svs : SUBSET Satellite, types : TypeRecs, band : TypeRecs, conf : Nat,
                         settings : [Setting -> SettingValue \cup {"default"}]]
    BY <2>1, <2>2 DEF CfgInit, ForgetfulModem
  <2>4. said \in [svs : SUBSET Satellite, band : TypeRecs, conf : Nat,
                  settings : [Setting -> SettingValue \cup {"default"}]]
    BY <2>1, <2>2 DEF CfgInit
  <2>5. <<>> \in Seq(CfgMsgs)
    OBVIOUS
  <2> QED  BY <1>2, <2>1, <2>2, <2>3, <2>4, <2>5 DEF CfgInit, CfgTyped
<1> QED  BY <1>4, <1>7, <1>8, <1>9, <1>10, <1>11, <1>12 DEF CfgIInv, RestoredFit

LEMMA CfgCallKeeps ==
  ASSUME CfgIInv, NEW m \in CfgMsgs, m.op # "engineUp", CfgCall(m)
  PROVE  CfgIInv'
<1>1. /\ cfgQueue' = Append(cfgQueue, m) /\ cfgCalls' = cfgCalls + 1
      /\ UNCHANGED <<cfgPending, apiQueue, loading, cfgStored, modemConfig, cfgModemOpen, said,
                     crossedWrites, touched>>
  BY DEF CfgCall, cfgApi, cfgModem, cfgHistory
<1>2. cfgQueue \in Seq(CfgMsgs) /\ cfgPending \in Seq(CfgMsgs) /\ cfgCalls \in Nat
  BY DEF CfgIInv, CfgTyped
<1>3. /\ cfgQueue' \in Seq(CfgMsgs) /\ Len(cfgQueue') = Len(cfgQueue) + 1 /\ Len(cfgQueue) \in Nat
      /\ cfgQueue'[Len(cfgQueue) + 1] = m
      /\ \A i \in 1..Len(cfgQueue) : cfgQueue'[i] = cfgQueue[i]
  BY <1>1, <1>2
<1>4. UpComes' <=> UpComes
  BY <1>1, <1>3 DEF UpComes, OnItsWay
<1> QED  BY <1>1, <1>2, <1>3, <1>4, IdleKeeps

LEMMA CfgClientKeeps == ASSUME CfgIInv, CfgClientCalls PROVE CfgIInv'
<1>1. cfgCalls + 1 \in Nat
  BY DEF CfgIInv, CfgTyped
<1>2. \A b \in Blacklists : b \in SvEntries /\ ConvertToGnssSvIdConfig(b) \in SUBSET Satellite
  BY GnssConfigAssumption DEF GnssConfigAssumption, SvEntries, ConvertToGnssSvIdConfig
<1>3. ASSUME NEW b \in Blacklists, CfgCall([op |-> "config", svs |-> b]) PROVE CfgIInv'
  <2> DEFINE m == [op |-> "config", svs |-> b]
  <2>1. m \in CfgMsgs /\ m.op # "engineUp"
    BY <1>2 DEF CfgMsgs
  <2> QED  BY <1>3, <2>1, CfgCallKeeps
<1>4. ASSUME NEW b \in Blacklists, NEW t \in SvTypes \cup {UnsetTypes},
             CfgCall([op |-> "svConfig", types |-> t, svs |-> ConvertToGnssSvIdConfig(b)])
      PROVE  CfgIInv'
  <2> DEFINE m == [op |-> "svConfig", types |-> t, svs |-> ConvertToGnssSvIdConfig(b)]
  <2>1. m \in CfgMsgs /\ m.op # "engineUp"
    BY <1>2 DEF CfgMsgs
  <2> QED  BY <1>4, <2>1, CfgCallKeeps
<1>5. CASE CfgCall([op |-> "conf", value |-> cfgCalls + 1])
  <2> DEFINE m == [op |-> "conf", value |-> cfgCalls + 1]
  <2>1. m \in CfgMsgs /\ m.op # "engineUp"
    BY <1>1 DEF CfgMsgs
  <2> QED  BY <1>5, <2>1, CfgCallKeeps
<1>6. ASSUME NEW t \in SvTypes, CfgCall([op |-> "svTypes", types |-> t]) PROVE CfgIInv'
  <2> DEFINE m == [op |-> "svTypes", types |-> t]
  <2>1. m \in CfgMsgs /\ m.op # "engineUp"
    BY DEF CfgMsgs
  <2> QED  BY <1>6, <2>1, CfgCallKeeps
<1>7. CASE CfgCall([op |-> "resetTypes"])
  <2> DEFINE m == [op |-> "resetTypes"]
  <2>1. m \in CfgMsgs /\ m.op # "engineUp"
    BY DEF CfgMsgs
  <2> QED  BY <1>7, <2>1, CfgCallKeeps
<1>8. ASSUME NEW k \in Setting, NEW v \in SettingValue,
             CfgCall([op |-> "setting", key |-> k, value |-> v])
      PROVE  CfgIInv'
  <2> DEFINE m == [op |-> "setting", key |-> k, value |-> v]
  <2>1. m \in CfgMsgs /\ m.op # "engineUp"
    BY DEF CfgMsgs
  <2> QED  BY <1>8, <2>1, CfgCallKeeps
<1>9. ASSUME NEW t \in SvTypes, CfgCall([op |-> "band", types |-> t]) PROVE CfgIInv'
  <2> DEFINE m == [op |-> "band", types |-> t]
  <2>1. m \in CfgMsgs /\ m.op # "engineUp"
    BY DEF CfgMsgs
  <2> QED  BY <1>9, <2>1, CfgCallKeeps
<1> QED  BY <1>3, <1>4, <1>5, <1>6, <1>7, <1>8, <1>9 DEF CfgClientCalls

\* A message other than engineUp is taken from the adapter's queue.
LEMMA CfgTaken ==
  ASSUME cfgQueue \in Seq(CfgMsgs), cfgQueue # <<>>, cfgQueue' = Tail(cfgQueue)
  PROVE  /\ cfgQueue' \in Seq(CfgMsgs) /\ Head(cfgQueue) \in CfgMsgs
         /\ Head(cfgQueue).op # "engineUp" =>
               ((\E i \in 1..Len(cfgQueue') : cfgQueue'[i].op = "engineUp") <=>
                (\E i \in 1..Len(cfgQueue) : cfgQueue[i].op = "engineUp"))
<1>1. /\ cfgQueue' \in Seq(CfgMsgs) /\ Head(cfgQueue) \in CfgMsgs /\ Head(cfgQueue) = cfgQueue[1]
      /\ Len(cfgQueue') = Len(cfgQueue) - 1 /\ Len(cfgQueue) \in Nat \ {0}
      /\ \A i \in 1..Len(cfgQueue') : cfgQueue'[i] = cfgQueue[i + 1]
  OBVIOUS
<1>2. \A i \in 1..Len(cfgQueue') : i + 1 \in 1..Len(cfgQueue)
  BY <1>1
<1>3. \A i \in 1..Len(cfgQueue) : i = 1 \/ (i - 1 \in 1..Len(cfgQueue') /\ (i - 1) + 1 = i)
  BY <1>1
<1>4. ASSUME NEW i \in 1..Len(cfgQueue), cfgQueue[i].op = "engineUp", cfgQueue[1].op # "engineUp"
      PROVE  \E j \in 1..Len(cfgQueue') : cfgQueue'[j].op = "engineUp"
  <2>1. i - 1 \in 1..Len(cfgQueue') /\ cfgQueue'[i - 1] = cfgQueue[i]
    BY <1>1, <1>3, <1>4
  <2> QED  BY <1>4, <2>1
<1> QED  BY <1>1, <1>2, <1>4

LEMMA DeferKeeps == ASSUME CfgIInv, ProcDeferCfg PROVE CfgIInv'
<1>1. /\ cfgQueue # <<>> /\ Head(cfgQueue).op \in Deferred /\ cfgQueue' = Tail(cfgQueue)
      /\ cfgPending' = Append(cfgPending, Head(cfgQueue))
      /\ UNCHANGED <<apiQueue, loading, cfgStored, modemConfig, cfgModemOpen, said, crossedWrites,
                     touched, cfgCalls>>
  BY DEF ProcDeferCfg, cfgApi, cfgModem, cfgHistory
<1>2. cfgQueue \in Seq(CfgMsgs) /\ cfgPending \in Seq(CfgMsgs) /\ cfgCalls \in Nat
  BY DEF CfgIInv, CfgTyped
<1>3. cfgQueue' \in Seq(CfgMsgs) /\ Head(cfgQueue) \in CfgMsgs /\ Head(cfgQueue).op # "engineUp"
  BY <1>1, <1>2, CfgTaken DEF Deferred
<1>4. cfgPending' \in Seq(CfgMsgs)
  BY <1>1, <1>2, <1>3
<1>5. UpComes' <=> UpComes
  BY <1>1, <1>2, <1>3, CfgTaken DEF UpComes, OnItsWay
<1> QED  BY <1>1, <1>2, <1>3, <1>4, <1>5, IdleKeeps

\* A command is handled: what it sends is no open.
LEMMA Handled ==
  ASSUME CfgTyped, OpenFits, NEW op, op # "engineUp", Handle(op), NEW w \in Seq(ApiMsgs),
         apiQueue' = apiQueue \o w, \A m \in Elems(w) : m.op # "open"
  PROVE  /\ cfgQueue' \in Seq(CfgMsgs) /\ Head(cfgQueue) \in CfgMsgs /\ Head(cfgQueue).op = op
         /\ apiQueue' \in Seq(ApiMsgs) /\ apiQueue \in Seq(ApiMsgs)
         /\ UNCHANGED <<cfgPending, loading, modemConfig, cfgModemOpen, cfgCalls>>
         /\ OpenFits' /\ RestoredFit' /\ (UpComes' <=> UpComes)
         /\ \A ops : OnItsWay(ops)' <=> OnItsWay(ops) \/ \E m \in Elems(w) : m.op \in ops
         /\ ~SettingsCome' => ~SettingsCome
<1>1. /\ cfgQueue # <<>> /\ Head(cfgQueue).op = op /\ cfgQueue' = Tail(cfgQueue) /\ touched' = TRUE
      /\ UNCHANGED <<cfgPending, loading, modemConfig, cfgModemOpen, cfgCalls>>
  BY DEF Handle, CfgHead, cfgModem
<1>2. cfgQueue \in Seq(CfgMsgs) /\ apiQueue \in Seq(ApiMsgs)
  BY DEF CfgTyped
<1>3. /\ apiQueue' \in Seq(ApiMsgs)
      /\ \A ops : OnItsWay(ops)' <=> OnItsWay(ops) \/ \E m \in Elems(w) : m.op \in ops
      /\ OneOpen(apiQueue')
  BY <1>2, WayJoined DEF OpenFits
<1>4. OnItsWay({"open"})' <=> OnItsWay({"open"})
  BY <1>3
<1>5. UpComes' <=> UpComes
  BY <1>1, <1>2, <1>4, CfgTaken DEF UpComes
<1>6. OpenFits'
  BY <1>1, <1>3, <1>4 DEF OpenFits
<1>7. ~SettingsCome' => ~SettingsCome
  BY <1>1, <1>3, <1>5 DEF SettingsCome
<1> QED  BY <1>1, <1>2, <1>3, <1>5, <1>6, <1>7, CfgTaken DEF RestoredFit

LEMMA NoneLeft ==
  ASSUME NEW q \in Seq(ApiMsgs), NEW cut, NEW rel, NEW good, NEW now, now, Elems(q) \cap rel = {}
  PROVE  LastFits(q, cut, rel, good, now)
<1>1. \A i \in 0..Len(q) : i = 0 \/ i \in 1..Len(q)
  BY Joined
<1> QED  BY <1>1 DEF LastFits, Elems

\* What a crossing write would disturb is not under way.
LEMMA SvsNow ==
  ASSUME SvsFit, apiQueue \in Seq(ApiMsgs), "svs" \notin crossedWrites, ~OnItsWay({"update"})
  PROVE  mGnssSvIdConfig = said.svs
<1>1. 0 \in 0..Len(apiQueue)
  BY Joined
<1>2. \A k \in 1..Len(apiQueue) : apiQueue[k] \notin Told({"update"})
  BY DEF OnItsWay, Told
<1> QED  BY <1>1, <1>2 DEF SvsFit, LastFits

LEMMA BlacklistMsg ==
  ASSUME NEW svs \in SUBSET Satellite
  PROVE  Blacklist(svs) \in ApiMsgs /\ Blacklist(svs).op = "blacklist" /\ GivenSvs(Blacklist(svs)) = svs
BY DEF Blacklist, ApiMsgs, GivenSvs

LEMMA TypesMsg ==
  ASSUME NEW types \in TypeRecs
  PROVE  /\ Types(types) \in ApiMsgs /\ Types(types).op = "types" /\ GivenOn(Types(types)) = types.on
BY DEF Types, ApiMsgs, GivenOn

LEMMA ResetMsgs ==
  ASSUME NEW cond
  PROVE  /\ ResetIf(cond) \in Seq(ApiMsgs)
         /\ \A m \in Elems(ResetIf(cond)) : m.op = "resetTypes" /\ m \in TypesTold /\ GivenOn(m) = {}
         /\ cond => Elems(ResetIf(cond)) # {}
<1> DEFINE r == [op |-> "resetTypes"]
<1>1. r \in ApiMsgs /\ r.op = "resetTypes"
  BY DEF ApiMsgs
<1>2. ResetIf(cond) = IF cond THEN <<r>> ELSE <<>>
  BY DEF ResetIf
<1> HIDE DEF r
<1>3. ResetIf(cond) \in Seq(ApiMsgs) /\ Elems(ResetIf(cond)) = IF cond THEN {r} ELSE {}
  BY <1>1, <1>2, OneElem, NoElems
<1> QED  BY <1>1, <1>3 DEF TypesTold, Told, GivenOn

\* gnssSvTypeConfigUpdate(bool) sends the blacklist, then the constellations that are on.
LEMMA SentTypes ==
  ASSUME NEW types \in TypeRecs, NEW svs \in SUBSET Satellite, types.size = 0 => types.on = {}
  PROVE  /\ SendTypes(types, svs) \in Seq(ApiMsgs)
         /\ \A m \in Elems(SendTypes(types, svs)) :
               \/ m.op = "blacklist" /\ GivenSvs(m) = Merged(types, svs)
               \/ m.op = "types" /\ GivenOn(m) = types.on /\ types.on # {}
         /\ types.size # 0 => Elems(SendTypes(types, svs)) \cap Told({"blacklist"}) # {}
         /\ types.size = 0 => SendTypes(types, svs) = <<>>
         /\ types.on # {} => Elems(SendTypes(types, svs)) \cap TypesTold # {}
<1> DEFINE b == Blacklist(Merged(types, svs))
           t2 == [types EXCEPT !.off = {}]
           t == Types(t2)
<1>1. Merged(types, svs) \in SUBSET Satellite
  BY DEF Merged, AllOf
<1>2. t2 \in TypeRecs /\ t2.on = types.on
  BY DEF TypeRecs
<1>3. b \in ApiMsgs /\ b.op = "blacklist" /\ GivenSvs(b) = Merged(types, svs)
  BY <1>1, BlacklistMsg
<1>4. t \in ApiMsgs /\ t.op = "types" /\ GivenOn(t) = types.on
  BY <1>2, TypesMsg
<1>5. SendTypes(types, svs) = IF types.size = 0 THEN <<>>
                              ELSE <<b>> \o (IF types.on # {} THEN <<t>> ELSE <<>>)
  BY DEF SendTypes
<1> HIDE DEF b, t, t2
<1>6. /\ <<b>> \in Seq(ApiMsgs) /\ Elems(<<b>>) = {b} /\ <<t>> \in Seq(ApiMsgs) /\ Elems(<<t>>) = {t}
      /\ <<>> \in Seq(ApiMsgs) /\ Elems(<<>>) = {}
  BY <1>3, <1>4, OneElem, NoElems
<1>7. /\ <<b>> \o <<t>> \in Seq(ApiMsgs) /\ Elems(<<b>> \o <<t>>) = {b, t}
      /\ <<b>> \o <<>> \in Seq(ApiMsgs) /\ Elems(<<b>> \o <<>>) = {b}
  <2>1. <<b>> \o <<t>> \in Seq(ApiMsgs) /\ Elems(<<b>> \o <<t>>) = Elems(<<b>>) \cup Elems(<<t>>)
    BY <1>6, Joined
  <2>2. <<b>> \o <<>> = <<b>>
    BY <1>6
  <2> QED  BY <1>6, <2>1, <2>2
<1>8. SendTypes(types, svs) \in Seq(ApiMsgs)
      /\ Elems(SendTypes(types, svs)) = IF types.size = 0 THEN {}
                                        ELSE {b} \cup (IF types.on # {} THEN {t} ELSE {})
  BY <1>5, <1>6, <1>7
<1> QED  BY <1>3, <1>4, <1>5, <1>8 DEF TypesTold, Told

LEMMA UpdateBlacklistKeeps == ASSUME CfgIInv, ProcUpdateBlacklist PROVE CfgIInv'
<1> DEFINE h == Head(cfgQueue)
           u == [op |-> "update", svs |-> h.svs]
           w == <<u>>
<1>1. CfgTyped /\ OpenFits /\ SvsFit /\ SvTypesFit /\ SettingsFit /\ BandFits /\ ConfFits
  BY DEF CfgIInv
<1>2. /\ Handle("config") /\ apiQueue' = apiQueue \o w
      /\ said' = [said EXCEPT !.svs = ConvertToGnssSvIdConfig(h.svs)]
      /\ crossedWrites' = crossedWrites \ {"svs"}
      /\ UNCHANGED <<svStored, mGnssSvTypeConfig, mLocConfigInfo, mGnssSeconaryBandConfig, mGps_conf>>
  BY DEF ProcUpdateBlacklist, SendApi, cfgStored
<1>3. h \in CfgMsgs /\ h.op = "config"
  BY <1>1, <1>2, CfgTaken DEF CfgTyped, Handle, CfgHead
<1>4. h.svs \in SvEntries
  BY <1>3 DEF CfgMsgs
<1>5. u \in ApiMsgs /\ u.op = "update" /\ GivenSvs(u) = ConvertToGnssSvIdConfig(h.svs)
  BY <1>4 DEF ApiMsgs, GivenSvs
<1>6. ConvertToGnssSvIdConfig(h.svs) \in SUBSET Satellite
  BY DEF ConvertToGnssSvIdConfig
<1>7. /\ said' \in [svs : SUBSET Satellite, band : TypeRecs, conf : Nat,
                    settings : [Setting -> SettingValue \cup {"default"}]]
      /\ said'.svs = GivenSvs(u) /\ said'.band = said.band /\ said'.conf = said.conf
      /\ said'.settings = said.settings
  BY <1>1, <1>2, <1>5, <1>6 DEF CfgTyped
<1> HIDE DEF h, u
<1>8. w \in Seq(ApiMsgs) /\ Elems(w) = {u}
  BY <1>5, OneElem
<1> HIDE DEF w
<1>9. /\ cfgQueue' \in Seq(CfgMsgs) /\ apiQueue' \in Seq(ApiMsgs) /\ apiQueue \in Seq(ApiMsgs)
      /\ UNCHANGED <<cfgPending, loading, modemConfig, cfgModemOpen, cfgCalls>>
      /\ OpenFits' /\ RestoredFit' /\ (UpComes' <=> UpComes) /\ (~SettingsCome' => ~SettingsCome)
  BY <1>1, <1>2, <1>5, <1>8, Handled
<1>10. SvsFit'
  <2> DEFINE good1 == {m \in SvsSaved : GivenSvs(m) = said'.svs}
             now1 == mGnssSvIdConfig = said'.svs
             good2 == {m \in SvsTold : said'.svs \subseteq GivenSvs(m)}
             now2 == said'.svs \subseteq modemConfig.svs
  <2>1. u \in Told({"update"}) /\ u \in SvsTold /\ u \in good1 /\ u \in good2
    BY <1>5, <1>7 DEF Told, SvsTold, SvsSaved
  <2> HIDE DEF good1, now1, good2, now2
  <2>2. LastFits(apiQueue', Told({"update"}), SvsSaved, good1, now1)
    BY <1>2, <1>8, <1>9, <2>1, LastJoined
  <2>3. LastFits(apiQueue', SvsTold, SvsTold, good2, now2)
    BY <1>2, <1>8, <1>9, <2>1, LastJoined
  <2> QED  BY <1>1, <1>2, <1>9, <2>2, <2>3 DEF SvsFit, svStored, good1, now1, good2, now2
<1>11. SvTypesFit'
  <2>1. Elems(w) \cap TypesTold = {}
    BY <1>5, <1>8 DEF TypesTold, Told
  <2> QED  BY <1>1, <1>2, <1>8, <1>9, <2>1, SvTypesOthers
<1>12. BandFits'
  <2>1. Elems(w) \cap Told({"band"}) = {}
    BY <1>5, <1>8 DEF Told
  <2>2. UpComes' => UpComes'  /\ (modemConfig'.band = UnsetTypes \/ UNCHANGED modemConfig)
    BY <1>9
  <2> QED  BY <1>1, <1>2, <1>7, <1>8, <1>9, <2>1, <2>2, BandOthers
<1>13. ConfFits'
  <2>1. Elems(w) \cap ConfTold = {}
    BY <1>5, <1>8 DEF ConfTold, Told
  <2> QED  BY <1>1, <1>2, <1>7, <1>8, <1>9, <2>1, ConfOthers
<1>14. SettingsFit'
  <2>1. \A k \in Setting : k \notin crossedWrites' => k \notin crossedWrites
    BY <1>2, GnssConfigAssumption DEF GnssConfigAssumption
  <2>2. \A n \in Elems(w) : n.op # "setting"
    BY <1>5, <1>8
  <2> QED  BY <1>1, <1>2, <1>7, <1>8, <1>9, <2>1, <2>2, SettingsOthers
<1>15. CfgTyped'
  BY <1>1, <1>2, <1>7, <1>9 DEF CfgTyped, svStored
<1> QED  BY <1>9, <1>10, <1>11, <1>12, <1>13, <1>14, <1>15 DEF CfgIInv

LEMMA UpdateConfKeeps == ASSUME CfgIInv, ProcUpdateConf PROVE CfgIInv'
<1> DEFINE v == Head(cfgQueue).value
           u == [op |-> "updateConf", value |-> v]
           w == <<u>>
<1>1. CfgTyped /\ OpenFits /\ SvsFit /\ SvTypesFit /\ SettingsFit /\ BandFits /\ ConfFits
  BY DEF CfgIInv
<1>2. /\ Handle("conf") /\ apiQueue' = apiQueue \o w /\ mGps_conf' = v
      /\ said' = [said EXCEPT !.conf = v]
      /\ UNCHANGED <<svStored, mGnssSvTypeConfig, mLocConfigInfo, mGnssSeconaryBandConfig, crossedWrites>>
  BY DEF ProcUpdateConf, SendApi
<1>3. v \in Nat
  <2>1. Head(cfgQueue) \in CfgMsgs /\ Head(cfgQueue).op = "conf"
    BY <1>1, <1>2, CfgTaken DEF CfgTyped, Handle, CfgHead
  <2> QED  BY <2>1 DEF CfgMsgs
<1>4. u \in ApiMsgs /\ u.op = "updateConf" /\ GivenConf(u) = v
  BY <1>3 DEF ApiMsgs, GivenConf
<1>5. /\ said' \in [svs : SUBSET Satellite, band : TypeRecs, conf : Nat,
                    settings : [Setting -> SettingValue \cup {"default"}]]
      /\ said'.conf = v /\ said'.band = said.band /\ said'.svs = said.svs
      /\ said'.settings = said.settings
  BY <1>1, <1>2, <1>3 DEF CfgTyped
<1> HIDE DEF v, u
<1>6. w \in Seq(ApiMsgs) /\ Elems(w) = {u}
  BY <1>4, OneElem
<1> HIDE DEF w
<1>7. /\ cfgQueue' \in Seq(CfgMsgs) /\ apiQueue' \in Seq(ApiMsgs) /\ apiQueue \in Seq(ApiMsgs)
      /\ UNCHANGED <<cfgPending, loading, modemConfig, cfgModemOpen, cfgCalls>>
      /\ OpenFits' /\ RestoredFit' /\ (UpComes' <=> UpComes) /\ (~SettingsCome' => ~SettingsCome)
  BY <1>1, <1>2, <1>4, <1>6, Handled
<1>8. /\ Elems(w) \cap SvsTold = {} /\ Elems(w) \cap TypesTold = {} /\ Elems(w) \cap Told({"band"}) = {}
      /\ \A n \in Elems(w) : n.op # "setting"
  BY <1>4, <1>6 DEF SvsTold, TypesTold, Told
<1>9. SvsFit' /\ SvTypesFit'
  BY <1>1, <1>2, <1>5, <1>6, <1>7, <1>8, SvsOthers, SvTypesOthers
<1>10. BandFits'
  BY <1>1, <1>2, <1>5, <1>6, <1>7, <1>8, BandOthers
<1>11. SettingsFit'
  BY <1>1, <1>2, <1>5, <1>6, <1>7, <1>8, SettingsOthers
<1>12. ConfFits'
  <2> DEFINE good == {m \in ConfTold : GivenConf(m) = said'.conf}
             now == modemConfig.conf = said'.conf
  <2>1. u \in ConfTold /\ u \in good
    BY <1>4, <1>5 DEF Told, ConfTold
  <2> HIDE DEF good, now
  <2>2. LastFits(apiQueue', ConfTold, ConfTold, good, now)
    BY <1>2, <1>6, <1>7, <2>1, LastJoined
  <2> QED  BY <1>2, <1>5, <1>7, <2>2 DEF ConfFits, good, now
<1>13. CfgTyped'
  BY <1>1, <1>2, <1>3, <1>5, <1>7 DEF CfgTyped, svStored
<1> QED  BY <1>7, <1>9, <1>10, <1>11, <1>12, <1>13 DEF CfgIInv

LEMMA BandKeeps == ASSUME CfgIInv, ProcBand PROVE CfgIInv'
<1> DEFINE t == Head(cfgQueue).types
           u == [op |-> "band", types |-> t]
           w == <<u>>
<1>1. CfgTyped /\ OpenFits /\ SvsFit /\ SvTypesFit /\ SettingsFit /\ BandFits /\ ConfFits
  BY DEF CfgIInv
<1>2. /\ Handle("band") /\ apiQueue' = apiQueue \o w /\ mGnssSeconaryBandConfig' = t
      /\ said' = [said EXCEPT !.band = t]
      /\ UNCHANGED <<svStored, mGnssSvTypeConfig, mLocConfigInfo, mGps_conf, crossedWrites>>
  BY DEF ProcBand, SendApi
<1>3. t \in TypeRecs /\ t.size = 1
  <2>1. Head(cfgQueue) \in CfgMsgs /\ Head(cfgQueue).op = "band"
    BY <1>1, <1>2, CfgTaken DEF CfgTyped, Handle, CfgHead
  <2>2. t \in SvTypes
    BY <2>1 DEF CfgMsgs
  <2> QED  BY <2>2, GnssConfigAssumption DEF GnssConfigAssumption, TypeRecs
<1>4. u \in ApiMsgs /\ u.op = "band" /\ u.types = t
  BY <1>3 DEF ApiMsgs
<1>5. /\ said' \in [svs : SUBSET Satellite, band : TypeRecs, conf : Nat,
                    settings : [Setting -> SettingValue \cup {"default"}]]
      /\ said'.conf = said.conf /\ said'.band = t /\ said'.svs = said.svs
      /\ said'.settings = said.settings
  BY <1>1, <1>2, <1>3 DEF CfgTyped
<1> HIDE DEF t, u
<1>6. w \in Seq(ApiMsgs) /\ Elems(w) = {u}
  BY <1>4, OneElem
<1> HIDE DEF w
<1>7. /\ cfgQueue' \in Seq(CfgMsgs) /\ apiQueue' \in Seq(ApiMsgs) /\ apiQueue \in Seq(ApiMsgs)
      /\ UNCHANGED <<cfgPending, loading, modemConfig, cfgModemOpen, cfgCalls>>
      /\ OpenFits' /\ RestoredFit' /\ (UpComes' <=> UpComes) /\ (~SettingsCome' => ~SettingsCome)
  BY <1>1, <1>2, <1>4, <1>6, Handled
<1>8. /\ Elems(w) \cap SvsTold = {} /\ Elems(w) \cap TypesTold = {} /\ Elems(w) \cap ConfTold = {}
      /\ \A n \in Elems(w) : n.op # "setting"
  BY <1>4, <1>6 DEF SvsTold, TypesTold, ConfTold, Told
<1>9. SvsFit' /\ SvTypesFit'
  BY <1>1, <1>2, <1>5, <1>6, <1>7, <1>8, SvsOthers, SvTypesOthers
<1>10. ConfFits'
  BY <1>1, <1>2, <1>5, <1>6, <1>7, <1>8, ConfOthers
<1>11. SettingsFit'
  BY <1>1, <1>2, <1>5, <1>6, <1>7, <1>8, SettingsOthers
<1>12. BandFits'
  <2> DEFINE good == {m \in Told({"band"}) : m.types = said'.band}
             now == modemConfig.band = said'.band
  <2>1. u \in Told({"band"}) /\ u \in good
    BY <1>4, <1>5 DEF Told
  <2> HIDE DEF good, now
  <2>2. LastFits(apiQueue', Told({"band"}), Told({"band"}), good, now)
    BY <1>2, <1>6, <1>7, <2>1, LastJoined
  <2> QED  BY <1>2, <1>3, <1>5, <1>7, <2>2 DEF BandFits, good, now
<1>13. CfgTyped'
  BY <1>1, <1>2, <1>3, <1>5, <1>7 DEF CfgTyped, svStored
<1> QED  BY <1>7, <1>9, <1>10, <1>11, <1>12, <1>13 DEF CfgIInv

LEMMA SettingKeeps == ASSUME CfgIInv, ProcSetting PROVE CfgIInv'
<1> DEFINE h == Head(cfgQueue)
           u == [op |-> "setting", key |-> h.key, value |-> h.value]
           w == <<u>>
<1>1. CfgTyped /\ OpenFits /\ SvsFit /\ SvTypesFit /\ SettingsFit /\ BandFits /\ ConfFits
  BY DEF CfgIInv
<1>2. /\ Handle("setting") /\ apiQueue' = apiQueue \o w
      /\ mLocConfigInfo' = [mLocConfigInfo EXCEPT ![h.key] = h.value]
      /\ said' = [said EXCEPT !.settings[h.key] = h.value]
      /\ crossedWrites' = IF loading = <<>> THEN crossedWrites \ {h.key} ELSE crossedWrites \cup {h.key}
      /\ UNCHANGED <<svStored, mGnssSvTypeConfig, mGnssSeconaryBandConfig, mGps_conf>>
  BY DEF ProcSetting, SendApi
<1>3. h \in CfgMsgs /\ h.op = "setting"
  BY <1>1, <1>2, CfgTaken DEF CfgTyped, Handle, CfgHead
<1>4. h.key \in Setting /\ h.value \in SettingValue /\ h.value # Unset
  BY <1>3, GnssConfigAssumption DEF CfgMsgs, GnssConfigAssumption
<1>5. u \in ApiMsgs /\ u.op = "setting" /\ u.key = h.key /\ u.value = h.value
  BY <1>4 DEF ApiMsgs
<1>6. /\ mLocConfigInfo' \in [Setting -> SettingValue \cup {"default", Unset}]
      /\ \A k \in Setting : mLocConfigInfo'[k] = IF k = h.key THEN h.value ELSE mLocConfigInfo[k]
  BY <1>1, <1>2, <1>4 DEF CfgTyped
<1>7. /\ said' \in [svs : SUBSET Satellite, band : TypeRecs, conf : Nat,
                    settings : [Setting -> SettingValue \cup {"default"}]]
      /\ said'.conf = said.conf /\ said'.band = said.band /\ said'.svs = said.svs
      /\ \A k \in Setting : said'.settings[k] = IF k = h.key THEN h.value ELSE said.settings[k]
  <2> DEFINE f == [said.settings EXCEPT ![h.key] = h.value]
  <2>1. said \in [svs : SUBSET Satellite, band : TypeRecs, conf : Nat,
                  settings : [Setting -> SettingValue \cup {"default"}]]
    BY <1>1 DEF CfgTyped
  <2>2. /\ f \in [Setting -> SettingValue \cup {"default"}]
        /\ \A k \in Setting : f[k] = IF k = h.key THEN h.value ELSE said.settings[k]
    BY <1>4, <2>1
  <2>3. said' = [said EXCEPT !.settings = f]
    BY <1>2
  <2> HIDE DEF f, h
  <2> QED  BY <2>1, <2>2, <2>3
<1> HIDE DEF h, u
<1>8. w \in Seq(ApiMsgs) /\ Elems(w) = {u}
  BY <1>5, OneElem
<1> HIDE DEF w
<1>9. /\ cfgQueue' \in Seq(CfgMsgs) /\ apiQueue' \in Seq(ApiMsgs) /\ apiQueue \in Seq(ApiMsgs)
      /\ UNCHANGED <<cfgPending, loading, modemConfig, cfgModemOpen, cfgCalls>>
      /\ OpenFits' /\ RestoredFit' /\ (UpComes' <=> UpComes) /\ (~SettingsCome' => ~SettingsCome)
  BY <1>1, <1>2, <1>5, <1>8, Handled
<1>10. /\ Elems(w) \cap SvsTold = {} /\ Elems(w) \cap TypesTold = {} /\ Elems(w) \cap ConfTold = {}
       /\ Elems(w) \cap Told({"band"}) = {}
  BY <1>5, <1>8 DEF SvsTold, TypesTold, ConfTold, Told
<1>11. \A k \in {"svs", "types"} : k \notin crossedWrites' => k \notin crossedWrites
  BY <1>2, <1>4, GnssConfigAssumption DEF GnssConfigAssumption
<1>12. SvsFit'
  BY <1>1, <1>2, <1>7, <1>8, <1>9, <1>10, <1>11, SvsOthers
<1>13. SvTypesFit'
  BY <1>1, <1>2, <1>7, <1>8, <1>9, <1>10, <1>11, SvTypesOthers
<1>14. ConfFits'
  BY <1>1, <1>2, <1>7, <1>8, <1>9, <1>10, ConfOthers
<1>15. BandFits'
  BY <1>1, <1>2, <1>7, <1>8, <1>9, <1>10, BandOthers
<1>16. ASSUME NEW k \in Setting, k \notin crossedWrites', ~SettingsCome'
       PROVE  LastFits(apiQueue', SettingTold(k), SettingTold(k),
                       {m \in SettingTold(k) : m.value = said'.settings[k]},
                       modemConfig'.settings[k] = said'.settings[k])
  <2> DEFINE good == {m \in SettingTold(k) : m.value = said'.settings[k]}
             now == modemConfig.settings[k] = said'.settings[k]
  <2>1. CASE k = h.key
    <3>1. u \in SettingTold(k) /\ u \in good
      BY <1>5, <1>7, <2>1 DEF SettingTold, Told
    <3> HIDE DEF good, now
    <3>2. LastFits(apiQueue', SettingTold(k), SettingTold(k), good, now)
      BY <1>2, <1>8, <1>9, <3>1, LastJoined
    <3> QED  BY <1>9, <3>2 DEF good, now
  <2>2. CASE k # h.key
    <3>1. k \notin crossedWrites /\ said'.settings[k] = said.settings[k]
      BY <1>2, <1>7, <1>16, <2>2
    <3>2. LastFits(apiQueue, SettingTold(k), SettingTold(k), good, now)
      BY <1>1, <1>9, <1>16, <3>1 DEF SettingsFit
    <3>3. Elems(w) \cap SettingTold(k) = {}
      BY <1>5, <1>8, <2>2 DEF SettingTold
    <3> HIDE DEF good, now
    <3>4. LastFits(apiQueue', SettingTold(k), SettingTold(k), good, now)
      BY <1>2, <1>8, <1>9, <3>2, <3>3, LastJoined
    <3> QED  BY <1>9, <3>4 DEF good, now
  <2> QED  BY <2>1, <2>2
<1>17. ASSUME NEW k \in Setting
       PROVE  /\ ~SettingsCome' => mLocConfigInfo'[k] # Unset
              /\ loading' # <<>> /\ loading'[1][k] # Unset => mLocConfigInfo'[k] # Unset
              /\ k \notin crossedWrites' =>
                    /\ \/ mLocConfigInfo'[k] = said'.settings[k]
                       \/ mLocConfigInfo'[k] = Unset /\ said'.settings[k] = "default"
                    /\ loading' # <<>> => loading'[1][k] = mLocConfigInfo'[k]
  BY <1>1, <1>2, <1>4, <1>6, <1>7, <1>9 DEF SettingsFit
<1>18. CfgTyped'
  BY <1>1, <1>2, <1>6, <1>7, <1>9 DEF CfgTyped, svStored
<1> QED  BY <1>9, <1>12, <1>13, <1>14, <1>15, <1>16, <1>17, <1>18 DEF CfgIInv, SettingsFit

LEMMA UpdateSvTypesKeeps == ASSUME CfgIInv, ProcUpdateSvTypes PROVE CfgIInv'
<1> DEFINE t == Head(cfgQueue).types
           reset == mGnssSvTypeConfig.on \ t.on # {}
           v == ResetIf(reset)
           x == SendTypes(t, mGnssSvIdConfig)
           w == v \o x
<1>1. CfgTyped /\ OpenFits /\ SvsFit /\ SvTypesFit /\ SettingsFit /\ BandFits /\ ConfFits
  BY DEF CfgIInv
<1>2. /\ Handle("svTypes") /\ apiQueue' = apiQueue \o w /\ mGnssSvTypeConfig' = t
      /\ crossedWrites' = crossedWrites \cup Crossed({"update"})
      /\ UNCHANGED <<svStored, mLocConfigInfo, mGnssSeconaryBandConfig, mGps_conf, said>>
  BY DEF ProcUpdateSvTypes, SendApi
<1>3. t \in TypeRecs /\ t.size = 1
  <2>1. Head(cfgQueue) \in CfgMsgs /\ Head(cfgQueue).op = "svTypes"
    BY <1>1, <1>2, CfgTaken DEF CfgTyped, Handle, CfgHead
  <2>2. t \in SvTypes
    BY <2>1 DEF CfgMsgs
  <2> QED  BY <2>2, GnssConfigAssumption DEF GnssConfigAssumption, TypeRecs
<1>4. mGnssSvIdConfig \in SUBSET Satellite /\ apiQueue \in Seq(ApiMsgs)
  BY <1>1 DEF SvsFit, CfgTyped, ConvertToGnssSvIdConfig
<1> HIDE DEF t
<1>5. /\ v \in Seq(ApiMsgs) /\ \A m \in Elems(v) : m.op = "resetTypes" /\ m \in TypesTold /\ GivenOn(m) = {}
      /\ reset => Elems(v) # {}
  BY ResetMsgs
<1>6. /\ x \in Seq(ApiMsgs)
      /\ \A m \in Elems(x) :
            \/ m.op = "blacklist" /\ GivenSvs(m) = Merged(t, mGnssSvIdConfig)
            \/ m.op = "types" /\ GivenOn(m) = t.on /\ t.on # {}
      /\ Elems(x) \cap Told({"blacklist"}) # {}
      /\ t.on # {} => Elems(x) \cap TypesTold # {}
  BY <1>3, <1>4, SentTypes
<1> HIDE DEF v, x
<1>7. w \in Seq(ApiMsgs) /\ Elems(w) = Elems(v) \cup Elems(x)
  BY <1>5, <1>6, Joined
<1>8. /\ apiQueue \o w = (apiQueue \o v) \o x
      /\ apiQueue \o v \in Seq(ApiMsgs)
  BY <1>4, <1>5, <1>6
<1> HIDE DEF w
<1>9. /\ cfgQueue' \in Seq(CfgMsgs) /\ apiQueue' \in Seq(ApiMsgs) /\ apiQueue \in Seq(ApiMsgs)
      /\ UNCHANGED <<cfgPending, loading, modemConfig, cfgModemOpen, cfgCalls>>
      /\ OpenFits' /\ RestoredFit' /\ (UpComes' <=> UpComes) /\ (~SettingsCome' => ~SettingsCome)
  <2>1. \A m \in Elems(w) : m.op # "open"
    BY <1>5, <1>6, <1>7
  <2> QED  BY <1>1, <1>2, <1>7, <2>1, Handled
<1>10. /\ Elems(w) \cap SvsSaved = {} /\ Elems(w) \cap ConfTold = {} /\ Elems(w) \cap Told({"band"}) = {}
       /\ \A n \in Elems(w) : n.op # "setting"
  BY <1>5, <1>6, <1>7 DEF SvsSaved, ConfTold, Told
<1>11. /\ "svs" \notin crossedWrites' => "svs" \notin crossedWrites /\ ~OnItsWay({"update"})
       /\ \A k \in Setting \cup {"types"} : k \notin crossedWrites' => k \notin crossedWrites
  BY <1>2 DEF Crossed
<1>12. ConfFits' /\ BandFits'
  BY <1>1, <1>2, <1>7, <1>9, <1>10, ConfOthers, BandOthers
<1>13. SettingsFit'
  BY <1>1, <1>2, <1>7, <1>9, <1>10, <1>11, SettingsOthers
<1>14. SvsFit'
  <2> DEFINE good1 == {m \in SvsSaved : GivenSvs(m) = said.svs}
             now1 == mGnssSvIdConfig = said.svs
             good2 == {m \in SvsTold : said.svs \subseteq GivenSvs(m)}
             now2 == said.svs \subseteq modemConfig.svs
  <2> SUFFICES ASSUME "svs" \notin crossedWrites'
               PROVE  /\ LastFits(apiQueue', Told({"update"}), SvsSaved, good1, now1)
                      /\ LastFits(apiQueue', SvsTold, SvsTold, good2, now2)
    BY <1>1, <1>2, <1>9 DEF SvsFit, svStored
  <2>1. LastFits(apiQueue, Told({"update"}), SvsSaved, good1, now1)
    BY <1>1, <1>11 DEF SvsFit
  <2>2. mGnssSvIdConfig = said.svs
    BY <1>1, <1>4, <1>11, SvsNow
  <2>3. said.svs \subseteq Merged(t, mGnssSvIdConfig)
    BY <2>2 DEF Merged
  <2>4. Elems(w) \subseteq ApiMsgs
    BY <1>7 DEF Elems
  <2>5. Elems(w) \cap SvsTold \subseteq good2
    BY <1>5, <1>6, <1>7, <2>3, <2>4 DEF SvsTold, Told
  <2>6. Elems(w) \cap SvsTold # {}
    BY <1>6, <1>7 DEF SvsTold, Told
  <2> HIDE DEF good1, now1, good2, now2
  <2> QED  BY <1>2, <1>7, <1>9, <1>10, <2>1, <2>5, <2>6, LastJoined
<1>15. SvTypesFit'
  <2> DEFINE cut == TypesTold \cup Told({"open"})
             good1 == {m \in TypesTold : GivenOn(m) \subseteq t.on}
             now1 == modemConfig.types.on \subseteq t.on
             good2 == {m \in TypesTold : GivenOn(m) = t.on}
             now2 == modemConfig.types.on = t.on
  <2> SUFFICES ASSUME "types" \notin crossedWrites
               PROVE  /\ LastFits(apiQueue', cut, TypesTold, good1, now1)
                      /\ ~UpComes => LastFits(apiQueue', TypesTold, TypesTold, good2, now2)
    BY <1>2, <1>3, <1>9, <1>11 DEF SvTypesFit
  <2>1. /\ Elems(v) \cap TypesTold \subseteq good1 /\ Elems(x) \cap TypesTold \subseteq good1
        /\ Elems(x) \cap TypesTold \subseteq good2
        /\ t.on = {} => Elems(v) \cap TypesTold \subseteq good2
    BY <1>5, <1>6 DEF TypesTold, Told
  <2>2. CASE t.on # {}
    <3>1. Elems(x) \cap TypesTold # {} /\ Elems(x) \cap cut # {}
      BY <1>6, <2>2
    <3> HIDE DEF good1, now1, good2, now2, cut
    <3> QED  BY <1>2, <1>6, <1>8, <2>1, <3>1, LastJoined
  <2>3. CASE t.on = {} /\ reset
    <3>1. Elems(v) \cap TypesTold # {} /\ Elems(v) \cap cut # {}
      BY <1>5, <2>3
    <3> HIDE DEF good1, now1, good2, now2, cut
    <3>2. /\ LastFits(apiQueue \o v, cut, TypesTold, good1, now1)
          /\ LastFits(apiQueue \o v, TypesTold, TypesTold, good2, now2)
      BY <1>4, <1>5, <2>1, <2>3, <3>1, LastJoined
    <3> QED  BY <1>2, <1>6, <1>8, <2>1, <3>2, LastJoined
  <2>4. CASE t.on = {} /\ ~reset
    <3>1. mGnssSvTypeConfig.on = t.on
      BY <2>4
    <3>2. /\ LastFits(apiQueue, cut, TypesTold, good1, now1)
          /\ ~UpComes => LastFits(apiQueue, TypesTold, TypesTold, good2, now2)
      BY <1>1, <3>1 DEF SvTypesFit
    <3> HIDE DEF good1, now1, good2, now2, cut
    <3>3. /\ LastFits(apiQueue \o v, cut, TypesTold, good1, now1)
          /\ ~UpComes => LastFits(apiQueue \o v, TypesTold, TypesTold, good2, now2)
      BY <1>4, <1>5, <2>1, <2>4, <3>2, LastJoined
    <3> QED  BY <1>2, <1>6, <1>8, <2>1, <3>3, LastJoined
  <2> QED  BY <2>2, <2>3, <2>4
<1>16. CfgTyped'
  BY <1>1, <1>2, <1>3, <1>9 DEF CfgTyped, svStored
<1> QED  BY <1>9, <1>12, <1>13, <1>14, <1>15, <1>16 DEF CfgIInv

LEMMA ResetSvTypesKeeps == ASSUME CfgIInv, ProcResetSvTypes PROVE CfgIInv'
<1> DEFINE b == Blacklist(mGnssSvIdConfig)
           r == [op |-> "resetTypes"]
           w == <<b, r>>
<1>1. CfgTyped /\ OpenFits /\ SvsFit /\ SvTypesFit /\ SettingsFit /\ BandFits /\ ConfFits
  BY DEF CfgIInv
<1>2. /\ Handle("resetTypes") /\ apiQueue' = apiQueue \o w /\ mGnssSvTypeConfig' = NoTypes
      /\ crossedWrites' = crossedWrites \cup Crossed({"update"})
      /\ UNCHANGED <<svStored, mLocConfigInfo, mGnssSeconaryBandConfig, mGps_conf, said>>
  BY DEF ProcResetSvTypes, SendApi
<1>3. NoTypes \in TypeRecs /\ NoTypes.size = 1 /\ NoTypes.on = {}
  BY DEF NoTypes, TypeRecs
<1>4. mGnssSvIdConfig \in SUBSET Satellite /\ apiQueue \in Seq(ApiMsgs)
  BY <1>1 DEF SvsFit, CfgTyped, ConvertToGnssSvIdConfig
<1>5. b \in ApiMsgs /\ b.op = "blacklist" /\ GivenSvs(b) = mGnssSvIdConfig
  BY <1>4, BlacklistMsg
<1>6. r \in ApiMsgs /\ r.op = "resetTypes" /\ GivenOn(r) = {}
  BY DEF ApiMsgs, GivenOn
<1> HIDE DEF b, r
<1>7. w \in Seq(ApiMsgs) /\ Elems(w) = {b, r}
  <2>1. w \in Seq(ApiMsgs) /\ Len(w) = 2 /\ w[1] = b /\ w[2] = r
    BY <1>5, <1>6
  <2>2. 1..2 = {1, 2}
    OBVIOUS
  <2> QED  BY <2>1, <2>2 DEF Elems
<1> HIDE DEF w
<1>9. /\ cfgQueue' \in Seq(CfgMsgs) /\ apiQueue' \in Seq(ApiMsgs) /\ apiQueue \in Seq(ApiMsgs)
      /\ UNCHANGED <<cfgPending, loading, modemConfig, cfgModemOpen, cfgCalls>>
      /\ OpenFits' /\ RestoredFit' /\ (UpComes' <=> UpComes) /\ (~SettingsCome' => ~SettingsCome)
  <2>1. \A m \in Elems(w) : m.op # "open"
    BY <1>5, <1>6, <1>7
  <2> QED  BY <1>1, <1>2, <1>7, <2>1, Handled
<1>10. /\ Elems(w) \cap SvsSaved = {} /\ Elems(w) \cap ConfTold = {} /\ Elems(w) \cap Told({"band"}) = {}
       /\ \A n \in Elems(w) : n.op # "setting"
  BY <1>5, <1>6, <1>7 DEF SvsSaved, ConfTold, Told
<1>11. /\ "svs" \notin crossedWrites' => "svs" \notin crossedWrites /\ ~OnItsWay({"update"})
       /\ \A k \in Setting \cup {"types"} : k \notin crossedWrites' => k \notin crossedWrites
  BY <1>2 DEF Crossed
<1>12. ConfFits' /\ BandFits'
  BY <1>1, <1>2, <1>7, <1>9, <1>10, ConfOthers, BandOthers
<1>13. SettingsFit'
  BY <1>1, <1>2, <1>7, <1>9, <1>10, <1>11, SettingsOthers
<1>14. SvsFit'
  <2> DEFINE good1 == {m \in SvsSaved : GivenSvs(m) = said.svs}
             now1 == mGnssSvIdConfig = said.svs
             good2 == {m \in SvsTold : said.svs \subseteq GivenSvs(m)}
             now2 == said.svs \subseteq modemConfig.svs
  <2> SUFFICES ASSUME "svs" \notin crossedWrites'
               PROVE  /\ LastFits(apiQueue', Told({"update"}), SvsSaved, good1, now1)
                      /\ LastFits(apiQueue', SvsTold, SvsTold, good2, now2)
    BY <1>1, <1>2, <1>9 DEF SvsFit, svStored
  <2>1. LastFits(apiQueue, Told({"update"}), SvsSaved, good1, now1)
    BY <1>1, <1>11 DEF SvsFit
  <2>2. mGnssSvIdConfig = said.svs
    BY <1>1, <1>4, <1>11, SvsNow
  <2>3. Elems(w) \cap SvsTold \subseteq good2 /\ Elems(w) \cap SvsTold # {}
    BY <1>5, <1>6, <1>7, <2>2 DEF SvsTold, Told
  <2> HIDE DEF good1, now1, good2, now2
  <2> QED  BY <1>2, <1>7, <1>9, <1>10, <2>1, <2>3, LastJoined
<1>15. SvTypesFit'
  <2> DEFINE cut == TypesTold \cup Told({"open"})
             good1 == {m \in TypesTold : GivenOn(m) \subseteq {}}
             now1 == modemConfig.types.on \subseteq {}
             good2 == {m \in TypesTold : GivenOn(m) = {}}
             now2 == modemConfig.types.on = {}
  <2>1. r \in cut /\ r \in TypesTold /\ b \notin TypesTold /\ r \in good1 /\ r \in good2
    BY <1>5, <1>6 DEF TypesTold, Told
  <2>2. Elems(w) \cap TypesTold \subseteq good1 /\ Elems(w) \cap TypesTold \subseteq good2
    BY <1>7, <2>1
  <2> HIDE DEF good1, now1, good2, now2, cut
  <2>3. /\ LastFits(apiQueue', cut, TypesTold, good1, now1)
        /\ LastFits(apiQueue', TypesTold, TypesTold, good2, now2)
    BY <1>2, <1>7, <1>9, <2>1, <2>2, LastJoined
  <2> QED  BY <1>2, <1>3, <1>9, <2>3 DEF SvTypesFit, cut, good1, now1, good2, now2
<1>16. CfgTyped'
  BY <1>1, <1>2, <1>3, <1>9 DEF CfgTyped, svStored
<1> QED  BY <1>9, <1>12, <1>13, <1>14, <1>15, <1>16 DEF CfgIInv

LEMMA UpdateSvConfigKeeps == ASSUME CfgIInv, ProcUpdateSvConfig PROVE CfgIInv'
<1> DEFINE h == Head(cfgQueue)
           t == Types(mGnssSvTypeConfig)
           b == Blacklist(h.svs)
           cond == h.types.size = 0 \/ mGnssSvTypeConfig.on \ h.types.on # {}
           v == IF h.types.size = 0 THEN ResetIf(TRUE)
                ELSE ResetIf(mGnssSvTypeConfig.on \ h.types.on # {}) \o <<t>>
           w == v \o <<b>>
<1>1. CfgTyped /\ OpenFits /\ SvsFit /\ SvTypesFit /\ SettingsFit /\ BandFits /\ ConfFits
  BY DEF CfgIInv
<1>2. /\ Handle("svConfig") /\ apiQueue' = apiQueue \o w
      /\ mGnssSvTypeConfig' = h.types /\ mGnssSvIdConfig' = h.svs
      /\ mBlacklistedSvIds' = ConvertFromGnssSvIdConfig(h.svs)
      /\ said' = [said EXCEPT !.svs = h.svs]
      /\ crossedWrites' = (crossedWrites \ {"svs"}) \cup {"types"} \cup Crossed({"update", "setConfig"})
      /\ UNCHANGED <<mLocConfigInfo, mGnssSeconaryBandConfig, mGps_conf>>
  BY DEF ProcUpdateSvConfig, SendApi
<1>3. h \in CfgMsgs /\ h.op = "svConfig"
  BY <1>1, <1>2, CfgTaken DEF CfgTyped, Handle, CfgHead
<1>4. /\ h.svs \in SUBSET Satellite
      /\ h.types \in TypeRecs /\ (h.types.size = 0 => h.types.on = {})
  <2>1. h.svs \in SUBSET Satellite /\ h.types \in SvTypes \cup {UnsetTypes}
    BY <1>3 DEF CfgMsgs
  <2>2. SvTypes \subseteq [size : {1}, on : SUBSET Constellation, off : SUBSET Constellation]
    BY GnssConfigAssumption DEF GnssConfigAssumption
  <2>3. UnsetTypes \in TypeRecs /\ UnsetTypes.on = {}
    BY DEF UnsetTypes, TypeRecs
  <2>4. \A x \in SvTypes : x \in TypeRecs /\ x.size = 1
    BY <2>2 DEF TypeRecs
  <2> QED  BY <2>1, <2>3, <2>4
<1>5. b \in ApiMsgs /\ b.op = "blacklist" /\ GivenSvs(b) = h.svs
  BY <1>4, BlacklistMsg
<1>6. t \in ApiMsgs /\ t.op = "types"
  BY <1>1, TypesMsg DEF CfgTyped
<1>7. /\ ConvertFromGnssSvIdConfig(h.svs) \in SvEntries
      /\ ConvertToGnssSvIdConfig(ConvertFromGnssSvIdConfig(h.svs)) = h.svs
  BY <1>4, ConvertedBack, GnssConfigAssumption
<1>8. /\ said' \in [svs : SUBSET Satellite, band : TypeRecs, conf : Nat,
                    settings : [Setting -> SettingValue \cup {"default"}]]
      /\ said'.svs = h.svs /\ said'.band = said.band /\ said'.conf = said.conf
      /\ said'.settings = said.settings
  BY <1>1, <1>2, <1>4 DEF CfgTyped
<1> HIDE DEF h, b, t
<1>9. v \in Seq(ApiMsgs) /\ \A m \in Elems(v) : m.op \in {"resetTypes", "types"}
  <2>1. <<t>> \in Seq(ApiMsgs) /\ Elems(<<t>>) = {t} 
    BY <1>6, OneElem
  <2> DEFINE r == ResetIf(mGnssSvTypeConfig.on \ h.types.on # {})
  <2>2. r \in Seq(ApiMsgs) /\ \A m \in Elems(r) : m.op = "resetTypes"
    BY ResetMsgs
  <2>3. ResetIf(TRUE) \in Seq(ApiMsgs) /\ \A m \in Elems(ResetIf(TRUE)) : m.op = "resetTypes"
    BY ResetMsgs
  <2> HIDE DEF r
  <2>4. r \o <<t>> \in Seq(ApiMsgs) /\ Elems(r \o <<t>>) = Elems(r) \cup {t}
    BY <2>1, <2>2, Joined
  <2>5. \A m \in Elems(r \o <<t>>) : m.op \in {"resetTypes", "types"}
    BY <1>6, <2>2, <2>4
  <2> QED  BY <2>3, <2>4, <2>5 DEF r
<1> HIDE DEF v
<1>10. w \in Seq(ApiMsgs) /\ Elems(w) = Elems(v) \cup {b}
  <2>1. <<b>> \in Seq(ApiMsgs) /\ Elems(<<b>>) = {b}
    BY <1>5, OneElem
  <2> QED  BY <1>9, <2>1, Joined
<1> HIDE DEF w
<1>11. /\ cfgQueue' \in Seq(CfgMsgs) /\ apiQueue' \in Seq(ApiMsgs) /\ apiQueue \in Seq(ApiMsgs)
       /\ UNCHANGED <<cfgPending, loading, modemConfig, cfgModemOpen, cfgCalls>>
       /\ OpenFits' /\ RestoredFit' /\ (UpComes' <=> UpComes) /\ (~SettingsCome' => ~SettingsCome)
       /\ \A ops : OnItsWay(ops)' <=> OnItsWay(ops) \/ \E m \in Elems(w) : m.op \in ops
  <2>1. \A m \in Elems(w) : m.op # "open"
    BY <1>5, <1>9, <1>10
  <2> QED  BY <1>1, <1>2, <1>10, <2>1, Handled
<1>12. /\ Elems(w) \cap ConfTold = {} /\ Elems(w) \cap Told({"band"}) = {}
       /\ \A n \in Elems(w) : n.op \notin {"setting", "update", "setConfig"}
  BY <1>5, <1>9, <1>10 DEF ConfTold, Told
<1>13. ConfFits' /\ BandFits'
  BY <1>1, <1>2, <1>8, <1>10, <1>11, <1>12, ConfOthers, BandOthers
<1>14. SettingsFit'
  <2>1. \A k \in Setting : k \notin crossedWrites' => k \notin crossedWrites
    BY <1>2, GnssConfigAssumption DEF GnssConfigAssumption
  <2>2. \A n \in Elems(w) : n.op # "setting"
    BY <1>12
  <2> QED  BY <1>1, <1>2, <1>8, <1>10, <1>11, <2>1, <2>2, SettingsOthers
<1>15. SvsFit'
  <2> DEFINE good1 == {m \in SvsSaved : GivenSvs(m) = h.svs}
             now1 == mGnssSvIdConfig' = h.svs
             good2 == {m \in SvsTold : h.svs \subseteq GivenSvs(m)}
             now2 == h.svs \subseteq modemConfig.svs
  <2> SUFFICES ASSUME "svs" \notin crossedWrites'
               PROVE  /\ LastFits(apiQueue', Told({"update"}), SvsSaved, good1, now1)
                      /\ LastFits(apiQueue', SvsTold, SvsTold, good2, now2)
    BY <1>2, <1>7, <1>8, <1>11 DEF SvsFit
  <2>1. ~OnItsWay({"update", "setConfig"})
    BY <1>2 DEF Crossed
  <2>2. ~OnItsWay({"update", "setConfig"})'
    BY <1>11, <1>12, <2>1
  <2>3. Elems(apiQueue') \cap SvsSaved = {}
    BY <2>2 DEF OnItsWay, Elems, SvsSaved, Told
  <2>4. now1
    BY <1>2
  <2>5. b \in SvsTold /\ b \in good2
    BY <1>5 DEF SvsTold, Told
  <2>6. Elems(w) \cap SvsTold = {b}
    BY <1>9, <1>10, <2>5 DEF SvsTold, Told
  <2> HIDE DEF good1, now1, good2, now2
  <2>7. LastFits(apiQueue', Told({"update"}), SvsSaved, good1, now1)
    BY <1>11, <2>3, <2>4, NoneLeft
  <2>8. LastFits(apiQueue', SvsTold, SvsTold, good2, now2)
    BY <1>2, <1>10, <1>11, <2>5, <2>6, LastJoined
  <2> QED  BY <2>7, <2>8
<1>16. SvTypesFit'
  BY <1>2, <1>4 DEF SvTypesFit
<1>17. CfgTyped'
  BY <1>1, <1>2, <1>4, <1>7, <1>8, <1>11 DEF CfgTyped
<1> QED  BY <1>11, <1>13, <1>14, <1>15, <1>16, <1>17 DEF CfgIInv

LEMMA SettingsSendKeeps == ASSUME CfgIInv, SetConfigSends PROVE CfgIInv'
<1> DEFINE sent(k) == IF loading[1][k] = Unset THEN "default" ELSE loading[1][k]
           msg(k) == [op |-> "setting", key |-> k, value |-> sent(k)]
           S == {msg(k) : k \in Setting}
           w == SetToSeq(S)
           V == SettingValue \cup {"default", Unset}
<1>1. CfgTyped /\ OpenFits /\ SvsFit /\ RestoredFit /\ SvTypesFit /\ SettingsFit /\ BandFits /\ ConfFits
  BY DEF CfgIInv
<1>2. /\ loading # <<>> /\ loading' = <<>> /\ apiQueue' = apiQueue \o w
      /\ mLocConfigInfo' = [k \in Setting |-> IF loading[1][k] = Unset THEN "default" ELSE mLocConfigInfo[k]]
      /\ UNCHANGED <<svStored, mGnssSvTypeConfig, mGnssSeconaryBandConfig, mGps_conf, cfgQueue, cfgPending,
                     modemConfig, cfgModemOpen, said, crossedWrites, touched, cfgCalls>>
  BY DEF SetConfigSends, SendApi, cfgThread, cfgModem, cfgHistory
<1>3. PICK f \in [Setting -> V] : loading = <<f>>
  BY <1>1, <1>2 DEF CfgTyped
<1>4. \A k \in Setting : sent(k) \in SettingValue \cup {"default"} /\ loading[1][k] = f[k] /\ f[k] \in V
  BY <1>3
<1>5. \A k \in Setting : msg(k) \in ApiMsgs /\ msg(k).op = "setting" /\ msg(k).key = k /\ msg(k).value = sent(k)
  BY <1>4 DEF ApiMsgs
<1> HIDE DEF sent, msg
<1>6. S \subseteq ApiMsgs /\ IsFiniteSet(S)
  <2> DEFINE g == [m \in S |-> m.key]
  <2>1. g \in [S -> Setting] /\ \A m, n \in S : g[m] = g[n] => m = n
    BY <1>5
  <2>2. g \in Injection(S, Setting)
    BY <2>1 DEF Injection, IsInjective
  <2>3. IsFiniteSet(Setting)
    BY GnssConfigAssumption DEF GnssConfigAssumption
  <2>4. IsFiniteSet(S)
    BY <2>2, <2>3, FS_Injection
  <2> QED  BY <1>5, <2>4
<1>7. w \in Seq(ApiMsgs) /\ Elems(w) = S
  <2> HIDE DEF S
  <2> QED  BY <1>6, Arranged
<1> HIDE DEF w
<1>8. apiQueue \in Seq(ApiMsgs)
  BY <1>1 DEF CfgTyped
<1>9. \A m \in Elems(w) : m.op = "setting"
  BY <1>5, <1>7
<1>10. /\ apiQueue' \in Seq(ApiMsgs) /\ OneOpen(apiQueue')
       /\ \A ops : OnItsWay(ops)' <=> OnItsWay(ops) \/ \E m \in Elems(w) : m.op \in ops
  BY <1>1, <1>2, <1>7, <1>8, <1>9, WayJoined DEF OpenFits
<1>11. (OnItsWay({"open"})' <=> OnItsWay({"open"})) /\ (OnItsWay({"setConfig"})' <=> OnItsWay({"setConfig"}))
  BY <1>9, <1>10
<1>12. (UpComes' <=> UpComes) /\ SettingsCome
  BY <1>2, <1>11 DEF UpComes, SettingsCome
<1>13. OpenFits'
  BY <1>1, <1>2, <1>10, <1>11 DEF OpenFits
<1>14. Elems(w) \cap SvsTold = {} /\ Elems(w) \cap TypesTold = {} /\ Elems(w) \cap ConfTold = {}
       /\ Elems(w) \cap Told({"band"}) = {}
  BY <1>9 DEF SvsTold, TypesTold, ConfTold, Told
<1>15. SvsFit' /\ SvTypesFit'
  BY <1>1, <1>2, <1>7, <1>8, <1>12, <1>14, SvsOthers, SvTypesOthers
<1>16. ConfFits' /\ BandFits'
  BY <1>1, <1>2, <1>7, <1>8, <1>12, <1>14, ConfOthers, BandOthers
<1>17. RestoredFit'
  <2> DEFINE good == {m \in SvsTold : GivenSvs(m) = RestoredSvs}
             now == modemConfig.svs = RestoredSvs
  <2>1. RestoredSvs' = RestoredSvs
    BY <1>2 DEF RestoredSvs
  <2>2. "svs" \notin crossedWrites /\ ~UpComes /\ ~touched => LastFits(apiQueue, SvsTold, SvsTold, good, now)
    BY <1>1 DEF RestoredFit
  <2> HIDE DEF good, now
  <2>3. "svs" \notin crossedWrites /\ ~UpComes /\ ~touched => LastFits(apiQueue', SvsTold, SvsTold, good, now)
    BY <1>2, <1>7, <1>8, <1>14, <2>2, LastJoined
  <2> QED  BY <1>2, <1>12, <2>1, <2>3 DEF RestoredFit, good, now
<1>18. ASSUME NEW k \in Setting
       PROVE  /\ ~SettingsCome' => mLocConfigInfo'[k] # Unset
              /\ loading' # <<>> /\ loading'[1][k] # Unset => mLocConfigInfo'[k] # Unset
              /\ k \notin crossedWrites' =>
                    /\ \/ mLocConfigInfo'[k] = said'.settings[k]
                       \/ mLocConfigInfo'[k] = Unset /\ said'.settings[k] = "default"
                    /\ loading' # <<>> => loading'[1][k] = mLocConfigInfo'[k]
                    /\ ~SettingsCome' => LastFits(apiQueue', SettingTold(k), SettingTold(k),
                                                  {m \in SettingTold(k) : m.value = said'.settings[k]},
                                                  modemConfig'.settings[k] = said'.settings[k])
  <2>1. mLocConfigInfo'[k] = IF loading[1][k] = Unset THEN "default" ELSE mLocConfigInfo[k]
    BY <1>2
  <2>2. mLocConfigInfo'[k] # Unset
    BY <1>1, <1>2, <2>1 DEF SettingsFit, Unset
  <2>3. said.settings[k] # Unset
    <3>1. said.settings[k] \in SettingValue \cup {"default"}
      BY <1>1 DEF CfgTyped
    <3> QED  BY <3>1, GnssConfigAssumption DEF GnssConfigAssumption, Unset
  <2>4. k \notin crossedWrites => mLocConfigInfo'[k] = said.settings[k] /\ sent(k) = said.settings[k]
    BY <1>1, <1>2, <2>1, <2>3 DEF SettingsFit, sent
  <2>5. ASSUME k \notin crossedWrites
        PROVE  LastFits(apiQueue', SettingTold(k), SettingTold(k),
                        {m \in SettingTold(k) : m.value = said.settings[k]},
                        modemConfig.settings[k] = said.settings[k])
    <3> DEFINE good == {m \in SettingTold(k) : m.value = said.settings[k]}
               now == modemConfig.settings[k] = said.settings[k]
    <3>1. msg(k) \in SettingTold(k) /\ msg(k) \in good
      BY <1>5, <2>4, <2>5 DEF SettingTold, Told
    <3>2. Elems(w) \cap SettingTold(k) = {msg(k)}
      BY <1>5, <1>7, <3>1 DEF SettingTold
    <3> HIDE DEF good, now
    <3>3. LastFits(apiQueue', SettingTold(k), SettingTold(k), good, now)
      BY <1>2, <1>7, <1>8, <3>1, <3>2, LastJoined
    <3> QED  BY <3>3 DEF good, now
  <2> QED  BY <1>2, <2>2, <2>4, <2>5
<1>19. SettingsFit'
  BY <1>18 DEF SettingsFit
<1>20. CfgTyped'
  <2>1. mLocConfigInfo' \in [Setting -> V]
    BY <1>1, <1>2 DEF CfgTyped
  <2> QED  BY <1>1, <1>2, <1>10, <2>1 DEF CfgTyped, svStored
<1> QED  BY <1>13, <1>15, <1>16, <1>17, <1>19, <1>20 DEF CfgIInv

\* Without another open under way, what the modem was told at most is what it was told.
LEMMA BoundIsExact ==
  ASSUME NEW q \in Seq(ApiMsgs), NEW cut, NEW more, NEW rel, NEW good, NEW now,
         LastFits(q, cut \cup more, rel, good, now), Elems(q) \cap more = {}
  PROVE  LastFits(q, cut, rel, good, now)
<1> SUFFICES ASSUME NEW i \in 0..Len(q), i = 0 \/ q[i] \in rel,
                    \A k \in 1..Len(q) : i < k => q[k] \notin cut
             PROVE  IF i = 0 THEN now ELSE q[i] \in good
  BY DEF LastFits
<1>1. \A k \in 1..Len(q) : i < k => q[k] \notin cut \cup more
  BY DEF Elems
<1> QED  BY <1>1 DEF LastFits

\* The messages that restore the modem, in their order.
LEMMA RestoredParts ==
  ASSUME CfgTyped, SvTypesFit, mGnssSvIdConfig \in SUBSET Satellite
  PROVE  \E sc \in ApiMsgs, bl \in ApiMsgs, y \in Seq(ApiMsgs) :
            /\ sc.op = "setConfig" /\ sc.conf = mGps_conf
            /\ GivenSvs(sc) = ConvertToGnssSvIdConfig(mBlacklistedSvIds)
            /\ bl.op = "blacklist" /\ GivenSvs(bl) = mGnssSvIdConfig
            /\ \A m \in Elems(y) : m.op = "band" /\ m.types = mGnssSeconaryBandConfig
            /\ mGnssSeconaryBandConfig.size = 0 => Elems(y) = {}
            /\ mGnssSeconaryBandConfig.size # 0 => Elems(y) \cap Told({"band"}) # {}
            /\ Restored = (<<sc, bl>> \o SendTypes(mGnssSvTypeConfig, mGnssSvIdConfig)) \o y
<1> DEFINE sc == [op |-> "setConfig", svs |-> mBlacklistedSvIds, conf |-> mGps_conf]
           bl == Blacklist(mGnssSvIdConfig)
           bd == [op |-> "band", types |-> mGnssSeconaryBandConfig]
           y == IF mGnssSeconaryBandConfig.size = 0 THEN <<>> ELSE <<bd>>
<1>1. sc \in ApiMsgs /\ sc.op = "setConfig" /\ sc.conf = mGps_conf
      /\ GivenSvs(sc) = ConvertToGnssSvIdConfig(mBlacklistedSvIds)
  BY DEF CfgTyped, ApiMsgs, GivenSvs
<1>2. bl \in ApiMsgs /\ bl.op = "blacklist" /\ GivenSvs(bl) = mGnssSvIdConfig
  BY BlacklistMsg
<1>3. bd \in ApiMsgs /\ bd.op = "band" /\ bd.types = mGnssSeconaryBandConfig
  BY DEF CfgTyped, ApiMsgs
<1>4. Restored = (<<sc, bl>> \o SendTypes(mGnssSvTypeConfig, mGnssSvIdConfig)) \o y
  BY DEF Restored
<1> HIDE DEF sc, bl, bd
<1>5. y \in Seq(ApiMsgs) /\ Elems(y) = IF mGnssSeconaryBandConfig.size = 0 THEN {} ELSE {bd}
  BY <1>3, OneElem, NoElems
<1> HIDE DEF y
<1>6. bd \in Told({"band"})
  BY <1>3 DEF Told
<1> QED  BY <1>1, <1>2, <1>3, <1>4, <1>5, <1>6

LEMMA CfgEngineUpKeeps == ASSUME CfgIInv, ProcCfgEngineUp PROVE CfgIInv'
<1> DEFINE x == SendTypes(mGnssSvTypeConfig, mGnssSvIdConfig)
<1>1. CfgTyped /\ OpenFits /\ SvsFit /\ SvTypesFit /\ SettingsFit /\ BandFits /\ ConfFits
  BY DEF CfgIInv
<1>2. /\ cfgQueue # <<>> /\ apiQueue' = apiQueue \o Restored
      /\ cfgQueue' = Tail(cfgQueue) \o cfgPending /\ cfgPending' = <<>> /\ touched' = FALSE
      /\ crossedWrites' = crossedWrites \cup Crossed({"update"})
      /\ UNCHANGED <<svStored, mGnssSvTypeConfig, mLocConfigInfo, mGnssSeconaryBandConfig, mGps_conf,
                     loading, modemConfig, cfgModemOpen, said, cfgCalls>>
  BY DEF ProcCfgEngineUp, CfgHead, SendApi, cfgStored, cfgModem
<1>3. mGnssSvIdConfig \in SUBSET Satellite /\ apiQueue \in Seq(ApiMsgs)
  BY <1>1 DEF SvsFit, CfgTyped, ConvertToGnssSvIdConfig
<1>4. PICK sc \in ApiMsgs, bl \in ApiMsgs, y \in Seq(ApiMsgs) :
            /\ sc.op = "setConfig" /\ sc.conf = mGps_conf
            /\ GivenSvs(sc) = ConvertToGnssSvIdConfig(mBlacklistedSvIds)
            /\ bl.op = "blacklist" /\ GivenSvs(bl) = mGnssSvIdConfig
            /\ \A m \in Elems(y) : m.op = "band" /\ m.types = mGnssSeconaryBandConfig
            /\ mGnssSeconaryBandConfig.size = 0 => Elems(y) = {}
            /\ mGnssSeconaryBandConfig.size # 0 => Elems(y) \cap Told({"band"}) # {}
            /\ Restored = (<<sc, bl>> \o x) \o y
  BY <1>1, <1>3, RestoredParts
<1>5. /\ x \in Seq(ApiMsgs)
      /\ \A m \in Elems(x) :
            \/ m.op = "blacklist" /\ GivenSvs(m) = Merged(mGnssSvTypeConfig, mGnssSvIdConfig)
            \/ m.op = "types" /\ GivenOn(m) = mGnssSvTypeConfig.on /\ mGnssSvTypeConfig.on # {}
      /\ mGnssSvTypeConfig.size # 0 => Elems(x) \cap Told({"blacklist"}) # {}
      /\ mGnssSvTypeConfig.size = 0 => Elems(x) = {}
      /\ mGnssSvTypeConfig.on # {} => Elems(x) \cap TypesTold # {}
  <2>1. mGnssSvTypeConfig \in TypeRecs /\ (mGnssSvTypeConfig.size = 0 => mGnssSvTypeConfig.on = {})
    BY <1>1 DEF CfgTyped, SvTypesFit
  <2> QED  BY <1>3, <2>1, SentTypes, NoElems
<1> HIDE DEF x
<1> DEFINE v == <<sc, bl>>
           w == (v \o x) \o y
<1>6. v \in Seq(ApiMsgs) /\ Elems(v) = {sc, bl}
  <2>1. v \in Seq(ApiMsgs) /\ Len(v) = 2 /\ v[1] = sc /\ v[2] = bl
    OBVIOUS
  <2>2. 1..2 = {1, 2}
    OBVIOUS
  <2> QED  BY <2>1, <2>2 DEF Elems
<1> HIDE DEF v
<1>7. w \in Seq(ApiMsgs) /\ Elems(w) = {sc, bl} \cup Elems(x) \cup Elems(y)
  <2>1. v \o x \in Seq(ApiMsgs) /\ Elems(v \o x) = Elems(v) \cup Elems(x)
    BY <1>5, <1>6, Joined
  <2> QED  BY <1>6, <2>1, Joined
<1>8. apiQueue \o w = ((apiQueue \o v) \o x) \o y /\ apiQueue \o v \in Seq(ApiMsgs)
      /\ (apiQueue \o v) \o x \in Seq(ApiMsgs)
  BY <1>3, <1>5, <1>6
<1>9. apiQueue' = apiQueue \o w
  BY <1>2, <1>4 DEF v
<1> HIDE DEF w
<1>10. Elems(w) \subseteq ApiMsgs /\ \A m \in Elems(w) : m.op \in {"setConfig", "blacklist", "types", "band"}
  <2>1. Elems(w) \subseteq ApiMsgs
    BY <1>7 DEF Elems
  <2> QED  BY <1>4, <1>5, <1>7, <2>1
<1>11. /\ apiQueue' \in Seq(ApiMsgs) /\ OneOpen(apiQueue')
       /\ \A ops : OnItsWay(ops)' <=> OnItsWay(ops) \/ \E m \in Elems(w) : m.op \in ops
  BY <1>1, <1>3, <1>7, <1>9, <1>10, WayJoined DEF OpenFits
<1>12. (OnItsWay({"open"})' <=> OnItsWay({"open"})) /\ SettingsCome'
  <2>1. OnItsWay({"setConfig"})'
    BY <1>4, <1>7, <1>11
  <2> QED  BY <1>10, <1>11, <2>1 DEF SettingsCome
<1>13. OpenFits'
  BY <1>1, <1>2, <1>11, <1>12 DEF OpenFits
<1>14. cfgQueue' \in Seq(CfgMsgs) /\ cfgPending' \in Seq(CfgMsgs)
  BY <1>1, <1>2 DEF CfgTyped
<1>15. "svs" \notin crossedWrites' => "svs" \notin crossedWrites /\ mGnssSvIdConfig = said.svs
  <2>1. "svs" \notin crossedWrites' => "svs" \notin crossedWrites /\ ~OnItsWay({"update"})
    BY <1>2 DEF Crossed
  <2> QED  BY <1>1, <1>3, <2>1, SvsNow
<1>16. \A k \in Setting \cup {"types"} : k \notin crossedWrites' => k \notin crossedWrites
  BY <1>2
<1>17. sc \in SvsSaved /\ sc \in SvsTold /\ bl \in SvsTold /\ bl \notin SvsSaved /\ sc \notin Told({"update"})
       /\ sc \in ConfTold /\ sc \notin TypesTold /\ bl \notin TypesTold
  BY <1>4 DEF SvsSaved, SvsTold, ConfTold, TypesTold, Told
<1>18. SvsFit'
  <2> DEFINE good1 == {m \in SvsSaved : GivenSvs(m) = said.svs}
             now1 == mGnssSvIdConfig = said.svs
             good2 == {m \in SvsTold : said.svs \subseteq GivenSvs(m)}
             now2 == said.svs \subseteq modemConfig.svs
  <2> SUFFICES ASSUME "svs" \notin crossedWrites'
               PROVE  /\ LastFits(apiQueue', Told({"update"}), SvsSaved, good1, now1)
                      /\ LastFits(apiQueue', SvsTold, SvsTold, good2, now2)
    BY <1>1, <1>2 DEF SvsFit, svStored
  <2>1. LastFits(apiQueue, Told({"update"}), SvsSaved, good1, now1)
    BY <1>1, <1>15 DEF SvsFit
  <2>2. GivenSvs(sc) = said.svs /\ GivenSvs(bl) = said.svs
        /\ said.svs \subseteq Merged(mGnssSvTypeConfig, mGnssSvIdConfig)
    BY <1>1, <1>4, <1>15 DEF SvsFit, Merged
  <2>3. Elems(w) \cap SvsSaved = {sc} /\ sc \in good1
    BY <1>4, <1>5, <1>7, <1>17, <2>2 DEF SvsSaved, Told
  <2>4. Elems(w) \cap SvsTold \subseteq good2 /\ Elems(w) \cap SvsTold # {}
    <3>1. \A m \in Elems(w) : m \in SvsTold => said.svs \subseteq GivenSvs(m)
      <4>1. \A m \in SvsTold : m.op \notin {"types", "band"}
        BY DEF SvsTold, Told
      <4> QED  BY <1>4, <1>5, <1>7, <2>2, <4>1
    <3> QED  BY <1>7, <1>17, <3>1
  <2> HIDE DEF good1, now1, good2, now2
  <2> QED  BY <1>3, <1>7, <1>9, <2>1, <2>3, <2>4, LastJoined
<1>19. RestoredFit'
  <2> DEFINE good == {m \in SvsTold : GivenSvs(m) = RestoredSvs}
             now == modemConfig.svs = RestoredSvs
  <2>1. RestoredSvs' = RestoredSvs
    BY <1>2 DEF RestoredSvs
  <2> SUFFICES ASSUME "svs" \notin crossedWrites'
               PROVE  LastFits(apiQueue', SvsTold, SvsTold, good, now)
    BY <1>2, <2>1 DEF RestoredFit
  <2>2. Elems(y) \cap SvsTold \subseteq good
    BY <1>4 DEF SvsTold, Told
  <2>3. \A m \in Elems(x) \cap SvsTold : GivenSvs(m) = Merged(mGnssSvTypeConfig, said.svs)
    BY <1>5, <1>15 DEF SvsTold, Told
  <2>4. LastFits((apiQueue \o v) \o x, SvsTold, SvsTold, good, now)
    <3>1. CASE mGnssSvTypeConfig.size = 0
      <4>1. RestoredSvs = said.svs /\ GivenSvs(sc) = said.svs /\ GivenSvs(bl) = said.svs
        BY <1>1, <1>4, <1>15, <3>1 DEF RestoredSvs, SvsFit
      <4>2. Elems(v) \cap SvsTold \subseteq good /\ Elems(v) \cap SvsTold # {}
        BY <1>6, <1>17, <4>1
      <4>3. Elems(x) = {}
        BY <1>5, <3>1
      <4> HIDE DEF good, now
      <4>4. LastFits(apiQueue \o v, SvsTold, SvsTold, good, now)
        BY <1>3, <1>6, <4>2, LastJoined
      <4> QED  BY <1>5, <1>8, <4>3, <4>4, LastJoined
    <3>2. CASE mGnssSvTypeConfig.size # 0
      <4>1. Elems(x) \cap SvsTold # {}
        BY <1>5, <3>2 DEF SvsTold, Told
      <4>2. Elems(x) \cap SvsTold \subseteq good
        BY <2>3, <3>2 DEF RestoredSvs
      <4> HIDE DEF good, now
      <4> QED  BY <1>5, <1>8, <4>1, <4>2, LastJoined
    <3> QED  BY <3>1, <3>2
  <2> HIDE DEF good, now
  <2>5. LastFits(((apiQueue \o v) \o x) \o y, SvsTold, SvsTold, good, now)
    BY <1>8, <2>2, <2>4, LastJoined
  <2> QED  BY <1>8, <1>9, <2>5
<1>20. SvTypesFit'
  <2> DEFINE open == Told({"open"})
             good1 == {m \in TypesTold : GivenOn(m) \subseteq mGnssSvTypeConfig.on}
             now1 == modemConfig.types.on \subseteq mGnssSvTypeConfig.on
             good2 == {m \in TypesTold : GivenOn(m) = mGnssSvTypeConfig.on}
             now2 == modemConfig.types.on = mGnssSvTypeConfig.on
  <2> SUFFICES ASSUME "types" \notin crossedWrites'
               PROVE  /\ LastFits(apiQueue', TypesTold \cup open, TypesTold, good1, now1)
                      /\ ~UpComes' => LastFits(apiQueue', TypesTold, TypesTold, good2, now2)
    BY <1>1, <1>2 DEF SvTypesFit
  <2>1. LastFits(apiQueue, TypesTold \cup open, TypesTold, good1, now1)
    BY <1>1, <1>16 DEF SvTypesFit
  <2>2. \A m \in Elems(w) \cap TypesTold : m \in Elems(x) /\ GivenOn(m) = mGnssSvTypeConfig.on
    BY <1>4, <1>5, <1>7, <1>17 DEF TypesTold, Told
  <2>3. Elems(w) \cap TypesTold \subseteq good1 /\ Elems(w) \cap TypesTold \subseteq good2
    BY <2>2
  <2>4. LastFits(apiQueue', TypesTold \cup open, TypesTold, good1, now1)
    <3> HIDE DEF good1, now1, open
    <3> QED  BY <1>3, <1>7, <1>9, <2>1, <2>3, LastJoined
  <2>5. ASSUME ~UpComes' PROVE LastFits(apiQueue', TypesTold, TypesTold, good2, now2)
    <3>1. CASE mGnssSvTypeConfig.on # {}
      <4>1. Elems(w) \cap TypesTold # {}
        BY <1>5, <1>7, <3>1
      <4> HIDE DEF good2, now2
      <4> QED  BY <1>3, <1>7, <1>9, <2>3, <4>1, LastJoined
    <3>2. CASE mGnssSvTypeConfig.on = {}
      <4>1. good1 = good2 /\ (now1 <=> now2)
        BY <3>2
      <4>2. Elems(apiQueue') \cap open = {}
        BY <2>5 DEF UpComes, OnItsWay, Elems, Told
      <4> HIDE DEF good1, now1, good2, now2, open
      <4>3. LastFits(apiQueue', TypesTold, TypesTold, good1, now1)
        BY <1>11, <2>4, <4>2, BoundIsExact
      <4> QED  BY <4>1, <4>3 DEF LastFits
    <3> QED  BY <3>1, <3>2
  <2> QED  BY <2>4, <2>5
<1>21. ConfFits'
  <2> DEFINE good == {m \in ConfTold : GivenConf(m) = said.conf}
             now == modemConfig.conf = said.conf
  <2>1. Elems(w) \cap ConfTold = {sc}
    BY <1>4, <1>5, <1>7, <1>17 DEF ConfTold, Told
  <2>2. sc \in good
    BY <1>1, <1>4, <1>17 DEF ConfFits, GivenConf
  <2> HIDE DEF good, now
  <2>3. LastFits(apiQueue', ConfTold, ConfTold, good, now)
    BY <1>3, <1>7, <1>9, <1>17, <2>1, <2>2, LastJoined
  <2> QED  BY <1>1, <1>2, <2>3 DEF ConfFits, good, now
<1>22. BandFits'
  <2> DEFINE B == Told({"band"})
             good == {m \in B : m.types = said.band}
             now == modemConfig.band = said.band
  <2>1. \A m \in Elems(w) : m.op = "band" => m \in Elems(y)
    BY <1>4, <1>5, <1>7
  <2>2. Elems(w) \cap B \subseteq good
    BY <1>1, <1>4, <2>1 DEF BandFits, Told
  <2>3. CASE said.band.size = 0
    <3>1. said.band = UnsetTypes /\ modemConfig.band = UnsetTypes /\ ~OnItsWay({"band"})
      BY <1>1, <2>3 DEF BandFits
    <3>2. \A m \in Elems(w) : m.op # "band"
      BY <1>1, <1>4, <2>1, <2>3 DEF BandFits
    <3>3. ~OnItsWay({"band"})'
      BY <1>11, <3>1, <3>2
    <3>4. Elems(apiQueue') \cap B = {}
      BY <3>3 DEF OnItsWay, Elems, Told
    <3>5. now
      BY <3>1
    <3> HIDE DEF good, now, B
    <3>6. LastFits(apiQueue', B, B, good, now)
      BY <1>11, <3>4, <3>5, NoneLeft
    <3> QED  BY <1>1, <1>2, <3>1, <3>3, <3>6 DEF BandFits, good, now, B
  <2>4. CASE said.band.size # 0
    <3>1. Elems(w) \cap B # {}
      BY <1>1, <1>4, <1>7, <2>4 DEF BandFits
    <3> HIDE DEF good, now, B
    <3>2. LastFits(apiQueue', B, B, good, now)
      BY <1>3, <1>7, <1>9, <2>2, <3>1, LastJoined
    <3> QED  BY <1>1, <1>2, <2>4, <3>2 DEF BandFits, good, now, B
  <2> QED  BY <2>3, <2>4
<1>23. SettingsFit'
  <2>1. \A n \in Elems(w) : n.op # "setting"
    BY <1>10
  <2> QED  BY <1>1, <1>2, <1>3, <1>7, <1>9, <1>12, <1>16, <2>1, SettingsOthers
<1>24. CfgTyped'
  BY <1>1, <1>2, <1>11, <1>14 DEF CfgTyped, svStored
<1> QED  BY <1>13, <1>18, <1>19, <1>20, <1>21, <1>22, <1>23, <1>24 DEF CfgIInv

-----------------------------------------------------------------------------
(* The theorems *)

LEMMA CfgStepKeeps == ASSUME CfgIInv, [CfgNext]_cfgVars PROVE CfgIInv'
<1>1. CASE UNCHANGED cfgVars
  <2>1. /\ UNCHANGED <<apiQueue, loading, cfgStored, modemConfig, cfgModemOpen, said, crossedWrites,
                       touched, cfgQueue, cfgPending, cfgCalls>>
    BY <1>1 DEF cfgVars, cfgThread, cfgApi, cfgModem, cfgHistory
  <2>2. UpComes' <=> UpComes
    BY <2>1 DEF UpComes, OnItsWay
  <2>3. cfgQueue' \in Seq(CfgMsgs) /\ cfgPending' \in Seq(CfgMsgs) /\ cfgCalls' \in Nat
    BY <2>1 DEF CfgIInv, CfgTyped
  <2> QED  BY <2>1, <2>2, <2>3, IdleKeeps
<1>2. CASE CfgClientCalls
  BY <1>2, CfgClientKeeps
<1>3. CASE ProcCfg
  BY <1>3, DeferKeeps, UpdateBlacklistKeeps, UpdateConfKeeps, UpdateSvTypesKeeps, ResetSvTypesKeeps,
     UpdateSvConfigKeeps, SettingKeeps, BandKeeps, CfgEngineUpKeeps DEF ProcCfg
<1>4. CASE GnssUpdateConfig \/ ApiTells \/ SetConfigReads
  BY <1>4, ApiKeeps DEF ApiRequest
<1>5. CASE SetConfigSends \/ LocOpens \/ CfgModemRestarts
  BY <1>5, SettingsSendKeeps, LocOpensKeeps, CfgRestartKeeps
<1> QED  BY <1>1, <1>2, <1>3, <1>4, <1>5 DEF CfgNext

LEMMA QuietIsSettled ==
  ASSUME Quiet
  PROVE  /\ ~UpComes /\ ~SettingsCome
         /\ \A cut, rel, good, now : LastFits(apiQueue, cut, rel, good, now) => now
<1>1. Len(cfgQueue) = 0 /\ Len(apiQueue) = 0 /\ loading = <<>>
  BY DEF Quiet
<1>2. 1..0 = {} /\ 0 \in 0..0
  OBVIOUS
<1>3. \A ops : ~OnItsWay(ops)
  BY <1>1, <1>2 DEF OnItsWay
<1>4. ~UpComes /\ ~SettingsCome
  BY <1>1, <1>2, <1>3 DEF UpComes, SettingsCome
<1>5. ASSUME NEW cut, NEW rel, NEW good, NEW now, LastFits(apiQueue, cut, rel, good, now) PROVE now
  BY <1>1, <1>2, <1>5 DEF LastFits
<1> QED  BY <1>4, <1>5

LEMMA CfgSettled == ASSUME CfgIInv, Quiet PROVE ConfigKept /\ RestartRestores
<1>1. /\ ~UpComes /\ ~SettingsCome
      /\ \A cut, rel, good, now : LastFits(apiQueue, cut, rel, good, now) => now
  BY QuietIsSettled
<1>2. CfgTyped /\ SvsFit /\ RestoredFit /\ SvTypesFit /\ SettingsFit /\ BandFits /\ ConfFits
  BY DEF CfgIInv
<1>3. "svs" \notin crossedWrites => /\ mGnssSvIdConfig = said.svs
                                    /\ ConvertToGnssSvIdConfig(mBlacklistedSvIds) = said.svs
                                    /\ said.svs \subseteq modemConfig.svs
  BY <1>1, <1>2 DEF SvsFit
<1>4. modemConfig.band = said.band /\ modemConfig.conf = said.conf
  BY <1>1, <1>2 DEF BandFits, ConfFits
<1>5. ASSUME NEW k \in Setting \ crossedWrites
      PROVE  modemConfig.settings[k] = said.settings[k] /\ mLocConfigInfo[k] = said.settings[k]
  BY <1>1, <1>2 DEF SettingsFit
<1>6. "svs" \notin crossedWrites /\ ~touched => modemConfig.svs = RestoredSvs
  BY <1>1, <1>2 DEF RestoredFit
<1>7. "types" \notin crossedWrites => modemConfig.types.on = mGnssSvTypeConfig.on
  BY <1>1, <1>2 DEF SvTypesFit
<1>8. ConfigKept
  BY <1>3, <1>4, <1>5 DEF ConfigKept
<1>9. RestartRestores
  BY <1>3, <1>6, <1>7 DEF RestartRestores, RestoredSvs
<1> QED  BY <1>8, <1>9

LEMMA CfgIsSafe == CfgIInv => ConfigKept /\ RestartRestores
BY CfgSettled DEF ConfigKept, RestartRestores

\* Whenever nothing is under way, the blacklist, the settings, the secondary band and the
\* item of gps.conf that clients gave last are what the adapter has stored and what the modem
\* has, whatever restarts, deferred commands and interleavings of the adapter's thread with
\* LocApiBase's there were, except for what crossed another write of the same value.
THEOREM ConfigIsKept == CfgSpec => []ConfigKept
<1>1. CfgInit => CfgIInv
  BY CfgStarts
<1>2. CfgIInv /\ [CfgNext]_cfgVars => CfgIInv'
  BY CfgStepKeeps
<1>3. CfgIInv => ConfigKept
  BY CfgIsSafe
<1> QED  BY <1>1, <1>2, <1>3, PTL DEF CfgSpec

\* A modem that has come up after a restart and was told nothing since has the satellites
\* that were blacklisted, those of the disabled constellations too, and the constellations
\* that are on: what handleEngineUpEvent sends again is sent in an order that gives this.
THEOREM RestartIsRestored == CfgSpec => []RestartRestores
<1>1. CfgInit => CfgIInv
  BY CfgStarts
<1>2. CfgIInv /\ [CfgNext]_cfgVars => CfgIInv'
  BY CfgStepKeeps
<1>3. CfgIInv => RestartRestores
  BY CfgIsSafe
<1> QED  BY <1>1, <1>2, <1>3, PTL DEF CfgSpec
=============================================================================
