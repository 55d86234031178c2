------------------------ MODULE AudioProvidersProofs ------------------------
(***************************************************************************)
(* What holds of a provider of any session type and of the session behind  *)
(* it, whatever configurations, updates, latency modes, files and queries  *)
(* the stack comes with: the session follows the provider, low latency is  *)
(* offered as it was allowed, capabilities, queues and ports agree on a    *)
(* configuration, A2DP offers are acceptable to both sides, LE capabilities *)
(* are those of the file, and the LE queries are answered exactly.         *)
(***************************************************************************)
EXTENDS AudioProviders, FiniteSetTheorems, WellFoundedInduction, TLAPS

-----------------------------------------------------------------------------
(* The inductive invariant *)

\* The session has its four fields, and the flags are Booleans.
Shapes ==
    /\ session_type \in Types
    /\ opened \in BOOLEAN /\ stack_iface_ \in BOOLEAN /\ low_latency_allowed_ \in BOOLEAN
    /\ session = [stack_iface_ |-> session.stack_iface_, audio_config_ |-> session.audio_config_,
                  data_mq_ |-> session.data_mq_, latency_modes_ |-> session.latency_modes_]
    /\ session.stack_iface_ \in BOOLEAN

\* What a provider of a session type accepts: Accepts, of any type.
AcceptsOf(t, c) ==
    CASE t \in A2dpSoftware -> A2dpSoftwareAccepts(c)
      [] t \in HearingAid -> HearingAidAccepts(c)
      [] t \in LeSoftware -> LeSoftwareAccepts(c)
      [] t \in HfpSoftware -> HfpSoftwareAccepts(c)
      [] t \in A2dpOffload -> A2dpOffloadAccepts(c)
      [] t \in HfpOffload -> HfpOffloadAccepts(c)
      [] OTHER -> c.tag = IF t \in LeBroadcastOffload THEN "leAudioBroadcastConfig"
                          ELSE "leAudioConfig"

\* The session has a stack only while the provider has one, and a provider that
\* needs a queue from the start has it.  Of a unicast offload session both sides
\* have the same configuration; of every other one the session's configuration is
\* one that the provider accepted, with the queue that was made for it.
FollowInv ==
    /\ session.stack_iface_ => stack_iface_
    /\ opened /\ session_type \in A2dpSoftware \cup HearingAid => data_mq_ # NoQueue
    /\ session_type \in LeUnicastOffload /\ stack_iface_ => audio_config_.tag = "leAudioConfig"
    /\ session_type \in LeUnicastOffload /\ IsSessionReady => session.audio_config_ = audio_config_
    /\ session_type \notin LeUnicastOffload /\ IsSessionReady =>
          /\ session.audio_config_ \in Configurations
          /\ AcceptsOf(session_type, session.audio_config_)
          /\ session_type \in LeSoftware => session.data_mq_ = LeDataMqSize(session.audio_config_)
          /\ session_type \in HfpSoftware => session.data_mq_ = HfpDataMqSize(session.audio_config_)

\* What the last report said is what is remembered, and if it allowed low latency
\* the session has that mode.
ReportInv ==
    /\ told \in BOOLEAN \cup {Nothing}
    /\ told = TRUE => low_latency_allowed_ /\ "LOW_LATENCY" \in session.latency_modes_
    /\ told = FALSE => ~low_latency_allowed_

\* Together: the inductive invariant of provider and session.
ProvidersInv == Shapes /\ FollowInv /\ ReportInv /\ SessionFollowsProvider /\ AdvertisedIsAccepted

-----------------------------------------------------------------------------
(* What a provider accepts *)

\* A configuration of a kind is none that says there is none.
LEMMA TagOfNull == \A c : c.tag # "null" => c # Null
BY DEF Null

\* Every session type belongs to one class of providers.
LEMMA Classes ==
    /\ \A t \in A2dpSoftware :
          t \notin HearingAid \cup LeSoftware \cup HfpSoftware \cup A2dpOffload \cup HfpOffload \cup LeTypes
    /\ \A t \in HearingAid : t \notin LeSoftware \cup HfpSoftware \cup A2dpOffload \cup HfpOffload \cup LeTypes
    /\ \A t \in LeSoftware : t \notin HfpSoftware \cup A2dpOffload \cup HfpOffload \cup LeTypes
    /\ \A t \in HfpSoftware : t \notin A2dpOffload \cup HfpOffload \cup LeTypes
    /\ \A t \in A2dpOffload : t \notin HfpOffload \cup LeTypes
    /\ \A t \in HfpOffload : t \notin LeTypes
    /\ LeUnicastOffload \subseteq LeTypes
<1>1. \A t \in A2dpSoftware :
          t \notin HearingAid \cup LeSoftware \cup HfpSoftware \cup A2dpOffload \cup HfpOffload \cup LeTypes
  BY DEF A2dpSoftware, HearingAid, LeSoftware, HfpSoftware, A2dpOffload, HfpOffload, LeTypes
<1>2. \A t \in HearingAid : t \notin LeSoftware \cup HfpSoftware \cup A2dpOffload \cup HfpOffload \cup LeTypes
  BY DEF HearingAid, LeSoftware, HfpSoftware, A2dpOffload, HfpOffload, LeTypes
<1>3. \A t \in LeSoftware : t \notin HfpSoftware \cup A2dpOffload \cup HfpOffload \cup LeTypes
  BY DEF LeSoftware, HfpSoftware, A2dpOffload, HfpOffload, LeTypes
<1>4. \A t \in HfpSoftware : t \notin A2dpOffload \cup HfpOffload \cup LeTypes
  BY DEF HfpSoftware, A2dpOffload, HfpOffload, LeTypes
<1>5. \A t \in A2dpOffload : t \notin HfpOffload \cup LeTypes
  BY DEF A2dpOffload, HfpOffload, LeTypes
<1>6. \A t \in HfpOffload : t \notin LeTypes
  BY DEF HfpOffload, LeTypes
<1>7. LeUnicastOffload \subseteq LeTypes
  BY DEF LeUnicastOffload, LeTypes
<1> QED BY <1>1, <1>2, <1>3, <1>4, <1>5, <1>6, <1>7

\* The session takes every configuration that the provider in front of it accepts.
LEMMA AcceptsTaken ==
    ASSUME session_type \in Types, NEW c, Accepts(c)
    PROVE  /\ UpdateAudioConfig(c) /\ AcceptsOf(session_type, c)
           /\ c # Null
           /\ session_type \in LeUnicastOffload => c.tag = "leAudioConfig"
           /\ session_type \in Software => c.tag = "pcmConfig" /\ IsSoftwarePcmConfigurationValid(c)
<1> USE Classes DEF Software
<1>0. AcceptsOf(session_type, c)
  BY DEF Accepts, AcceptsOf, LeOffloadAccepts
<1>1. CASE session_type \in A2dpSoftware
  <2>1. A2dpSoftwareAccepts(c)
    BY <1>1 DEF Accepts
  <2> QED BY <1>0, <1>1, <2>1, TagOfNull DEF A2dpSoftwareAccepts, UpdateAudioConfig
<1>2. CASE session_type \in HearingAid
  <2>1. HearingAidAccepts(c)
    BY <1>2 DEF Accepts
  <2> QED BY <1>0, <1>2, <2>1, TagOfNull DEF HearingAidAccepts, UpdateAudioConfig
<1>3. CASE session_type \in LeSoftware
  <2>1. LeSoftwareAccepts(c)
    BY <1>3 DEF Accepts
  <2> QED BY <1>0, <1>3, <2>1, TagOfNull DEF LeSoftwareAccepts, UpdateAudioConfig
<1>4. CASE session_type \in HfpSoftware
  <2>1. HfpSoftwareAccepts(c)
    BY <1>4 DEF Accepts
  <2> QED BY <1>0, <1>4, <2>1, TagOfNull DEF HfpSoftwareAccepts, UpdateAudioConfig
<1>5. CASE session_type \in A2dpOffload
  <2>1. A2dpOffloadAccepts(c)
    BY <1>5 DEF Accepts
  <2> QED BY <1>0, <1>5, <2>1, TagOfNull DEF A2dpOffloadAccepts, UpdateAudioConfig
<1>6. CASE session_type \in HfpOffload
  <2>1. HfpOffloadAccepts(c)
    BY <1>6 DEF Accepts
  <2> QED BY <1>0, <1>6, <2>1, TagOfNull DEF HfpOffloadAccepts, UpdateAudioConfig
<1>7. CASE session_type \in LeTypes
  <2>1. LeOffloadAccepts(c)
    BY <1>7 DEF Accepts
  <2> QED BY <1>0, <1>7, <2>1, TagOfNull DEF LeOffloadAccepts, UpdateAudioConfig, LeBroadcastOffload
<1> QED BY <1>1, <1>2, <1>3, <1>4, <1>5, <1>6, <1>7 DEF Types

\* The sizes of an accepted configuration, by what its parameters can be.
LEMMA PcmParameters ==
    ASSUME NEW c, IsSoftwarePcmConfigurationValid(c)
    PROVE  /\ c.rate \in {8000, 16000, 24000, 32000, 44100, 48000, 88200, 96000}
           /\ c.channelMode \in {"MONO", "STEREO"}
           /\ c.bits \in {16, 24, 32}
BY DEF IsSoftwarePcmConfigurationValid, ContainedInVector, kDefaultSoftwarePcmCapabilities

\* The bytes that a millisecond of an accepted configuration takes, times a thousand.
BytesRate(c) ==
    c.rate * channel_mode_to_channel_count(c.channelMode) * (IF c.bits = 24 THEN 4 ELSE c.bits \div 8)

\* They are one of a few numbers.
LEMMA BytesRates ==
    ASSUME NEW c, IsSoftwarePcmConfigurationValid(c)
    PROVE  /\ BytesRate(c) \in {n * k : n \in {8000, 16000, 24000, 32000, 44100, 48000, 88200, 96000},
                                        k \in {2, 4, 8}}
           /\ LeDataMqSize(c) = (BytesRate(c) * (c.interval \div 1000) * 2) \div 1000
<1>1. channel_mode_to_channel_count(c.channelMode) \in {1, 2}
  BY PcmParameters DEF channel_mode_to_channel_count
<1>2. (IF c.bits = 24 THEN 4 ELSE c.bits \div 8) \in {2, 4}
  BY PcmParameters
<1> DEFINE n == channel_mode_to_channel_count(c.channelMode)
           k == IF c.bits = 24 THEN 4 ELSE c.bits \div 8
<1>3. n * k \in {2, 4, 8} /\ c.rate * n * k = c.rate * (n * k)
  BY <1>1, <1>2, PcmParameters
<1> QED BY <1>3, PcmParameters DEF BytesRate, LeDataMqSize

\* A queue for an interval of a millisecond or more is not empty.
LEMMA AcceptedSize ==
    ASSUME NEW c \in Configurations, c.tag = "pcmConfig", IsSoftwarePcmConfigurationValid(c)
    PROVE  LeDataMqSize(c) > 0 <=> c.interval >= 1000
<1>1. c.interval \in Nat
  BY ProvidersAssumption
<1>2. PICK b \in Nat : b = BytesRate(c) /\ b >= 16000
  BY BytesRates
<1> DEFINE m == c.interval \div 1000
<1>3. m \in Nat /\ (m >= 1 <=> c.interval >= 1000)
  BY <1>1
<1>4. LeDataMqSize(c) = (b * m * 2) \div 1000
  BY <1>2, BytesRates
<1> HIDE DEF m
<1>5. CASE m = 0
  BY <1>2, <1>3, <1>4, <1>5
<1>6. CASE m >= 1
  <2>1. b * m \in Nat /\ b * m >= 16000
    BY <1>2, <1>3, <1>6
  <2> QED BY <2>1, <1>3, <1>4, <1>6
<1> QED BY <1>3, <1>5, <1>6

\* A configuration within the capabilities that the factory advertises is one that
\* the provider accepts.
LEMMA AdvertisedAccepts ==
    ASSUME session_type \in Types, NEW c \in Configurations, Advertised(c)
    PROVE  Accepts(c)
<1> USE Classes DEF Software
<1>1. CASE c.tag = "a2dpConfig"
  <2>0. /\ session_type \in A2dpOffload
        /\ c.codecType \in {"SBC", "AAC", "LDAC", "APTX", "APTX_HD", "OPUS"}
        /\ c.specific.tag = KindOf(c.codecType)
        /\ ContainedInVector(GetA2dpOffloadCodecCapabilities[c.codecType], c.specific)
        /\ c.codecType = "SBC" => SbcBitpools.min <= c.specific.min /\ c.specific.min <= c.specific.max
                                  /\ c.specific.max <= SbcBitpools.max
    BY <1>1 DEF Advertised, GetA2dpOffloadCodecCapabilities
  <2>1. IsOffloadCodecConfigurationValid(c.codecType, c.specific)
    <3> USE DEF IsOffloadCodecConfigurationValid, GetA2dpOffloadCodecCapabilities, KindOf
    <3>1. CASE c.codecType = "SBC"
      BY <2>0, <3>1 DEF IsOffloadSbcConfigurationValid
    <3>2. CASE c.codecType = "AAC"
      BY <2>0, <3>2 DEF IsOffloadAacConfigurationValid
    <3>3. CASE c.codecType = "LDAC"
      BY <2>0, <3>3 DEF IsOffloadLdacConfigurationValid
    <3>4. CASE c.codecType = "APTX"
      BY <2>0, <3>4 DEF IsOffloadAptxConfigurationValid
    <3>5. CASE c.codecType = "APTX_HD"
      BY <2>0, <3>5 DEF IsOffloadAptxHdConfigurationValid
    <3>6. CASE c.codecType = "OPUS"
      BY <2>0, <3>6 DEF IsOffloadOpusConfigurationValid
    <3> QED BY <2>0, <3>1, <3>2, <3>3, <3>4, <3>5, <3>6
  <2>2. A2dpOffloadAccepts(c)
    BY <1>1, <2>1 DEF A2dpOffloadAccepts
  <2> QED BY <2>0, <2>2 DEF Accepts
<1>2. CASE c.tag = "pcmConfig"
  <2>0. /\ session_type \in Software \ HfpSoftware
        /\ IsSoftwarePcmConfigurationValid(c) /\ c.interval >= 1000
    BY <1>2 DEF Advertised, IsSoftwarePcmConfigurationValid
  <2>1. LeDataMqSize(c) > 0
    BY <1>2, <2>0, AcceptedSize
  <2>2. A2dpSoftwareAccepts(c) /\ HearingAidAccepts(c) /\ LeSoftwareAccepts(c)
    BY <1>2, <2>0, <2>1 DEF A2dpSoftwareAccepts, HearingAidAccepts, LeSoftwareAccepts
  <2> QED BY <2>0, <2>2 DEF Accepts
<1> QED BY <1>1, <1>2 DEF Advertised

-----------------------------------------------------------------------------
(* The steps *)

\* A new provider has no session, and nothing was reported.
LEMMA ProvidersInit == Init => ProvidersInv
<1> SUFFICES ASSUME Init PROVE ProvidersInv
  OBVIOUS
<1>1. Shapes
  BY DEF Init, Shapes
<1>2. answer.call = "none" /\ ~session.stack_iface_ /\ ~opened /\ ~stack_iface_ /\ told = Nothing
  BY DEF Init, Idle
<1>3. FollowInv /\ SessionFollowsProvider /\ AdvertisedIsAccepted
  BY <1>2 DEF FollowInv, IsSessionReady, SessionFollowsProvider, AdvertisedIsAccepted
<1>4. ReportInv
  BY <1>2, ProvidersAssumption DEF ReportInv
<1> QED BY <1>1, <1>3, <1>4 DEF ProvidersInv

\* A call that leaves the provider and the session alone, and is no start.
LEMMA QuietKeeps ==
    ASSUME ProvidersInv, UNCHANGED <<session_type, provider, session, low_latency_allowed_, told>>,
           answer'.call # "start"
    PROVE  ProvidersInv'
<1>1. UNCHANGED <<session_type, opened, stack_iface_, audio_config_, data_mq_, session,
                  low_latency_allowed_, told>>
  BY DEF provider
<1>2. Shapes' /\ ReportInv'
  BY <1>1 DEF ProvidersInv, Shapes, ReportInv
<1>3. FollowInv'
  BY <1>1 DEF ProvidersInv, FollowInv, IsSessionReady
<1>4. SessionFollowsProvider' /\ AdvertisedIsAccepted'
  BY <1>1 DEF ProvidersInv, SessionFollowsProvider, AdvertisedIsAccepted, IsSessionReady, GetAudioConfig
<1> QED BY <1>2, <1>3, <1>4 DEF ProvidersInv

\* openProvider keeps the invariant: what needs a queue has one.
LEMMA OpenKeeps == ASSUME ProvidersInv, openProvider PROVE ProvidersInv'
<1>1. UNCHANGED <<session_type, stack_iface_, audio_config_, session, low_latency_allowed_, told>>
  BY DEF openProvider, fixed, provider
<1>2. answer'.call # "start" /\ opened' \in BOOLEAN
  <2>1. \/ answer' = [call |-> "refused"] /\ opened' = opened
        \/ answer' = [call |-> "open"] /\ opened' = TRUE
    BY DEF openProvider, Refused, Answers, provider
  <2>2. answer'.call # "start"
    BY <2>1
  <2>3. opened' \in BOOLEAN
    BY <2>1, Zenon DEF ProvidersInv, Shapes
  <2> QED BY <2>2, <2>3
<1>3. opened' /\ session_type' \in A2dpSoftware \cup HearingAid => data_mq_' # NoQueue
  <2>1. CASE opened'
    <3>1. data_mq_' = OpenedWith
      BY <2>1 DEF openProvider, provider, Refused
    <3>2. session_type \in A2dpSoftware \cup HearingAid => OpenedWith \in Nat \ {0}
      BY Classes DEF OpenedWith, A2dpDataMqSize, HearingAidDataMqSize
    <3> QED BY <1>1, <3>1, <3>2 DEF NoQueue
  <2> QED BY <2>1
<1>4. Shapes' /\ ReportInv'
  BY <1>1, <1>2 DEF ProvidersInv, Shapes, ReportInv
<1>5. FollowInv'
  BY <1>1, <1>3 DEF ProvidersInv, FollowInv, IsSessionReady
<1>6. SessionFollowsProvider' /\ AdvertisedIsAccepted'
  BY <1>1, <1>2 DEF ProvidersInv, SessionFollowsProvider, AdvertisedIsAccepted, IsSessionReady, GetAudioConfig
<1> QED BY <1>4, <1>5, <1>6 DEF ProvidersInv

\* endSession keeps the invariant: a session ends with its provider's.
LEMMA EndKeeps == ASSUME ProvidersInv, endSession PROVE ProvidersInv'
<1>1. /\ UNCHANGED <<session_type, opened, data_mq_, low_latency_allowed_, told>>
      /\ stack_iface_' = FALSE /\ answer'.call = "end"
  BY DEF endSession, fixed, Answers
<1>2. /\ session' = [stack_iface_ |-> session'.stack_iface_, audio_config_ |-> session'.audio_config_,
                     data_mq_ |-> session'.data_mq_, latency_modes_ |-> session'.latency_modes_]
      /\ session'.stack_iface_ = FALSE /\ session'.latency_modes_ = session.latency_modes_
  <2>1. CASE stack_iface_
    <3>1. session' = [session EXCEPT !.stack_iface_ = FALSE, !.audio_config_ = Null,
                                     !.data_mq_ = NoQueue]
      BY <2>1 DEF endSession, OnSessionEnded
    <3> QED BY <3>1 DEF ProvidersInv, Shapes
  <2>2. CASE ~stack_iface_
    BY <2>2 DEF endSession, ProvidersInv, Shapes, FollowInv
  <2> QED BY <2>1, <2>2
<1>3. Shapes' /\ ReportInv'
  BY <1>1, <1>2 DEF ProvidersInv, Shapes, ReportInv
<1>4. ~IsSessionReady'
  BY <1>2 DEF IsSessionReady
<1>5. FollowInv'
  BY <1>1, <1>2, <1>4 DEF ProvidersInv, FollowInv
<1>6. SessionFollowsProvider' /\ AdvertisedIsAccepted'
  BY <1>1, <1>4 DEF SessionFollowsProvider, AdvertisedIsAccepted
<1> QED BY <1>3, <1>5, <1>6 DEF ProvidersInv

\* updateAudioConfiguration keeps the invariant: what the provider takes, a unicast
\* offload session takes as well.
LEMMA UpdateKeeps ==
    ASSUME ProvidersInv, NEW c \in Updates, updateAudioConfiguration(c)
    PROVE  ProvidersInv'
<1>1. /\ UNCHANGED <<session_type, opened, stack_iface_, data_mq_, low_latency_allowed_, told>>
      /\ answer'.call # "start"
  BY DEF updateAudioConfiguration, fixed, Answers, Refused
<1>2. CASE UNCHANGED <<audio_config_, session>>
  BY <1>1, <1>2, QuietKeeps DEF provider
<1>3. CASE /\ stack_iface_ /\ c.tag = audio_config_.tag
           /\ audio_config_' = c /\ ReportAudioConfigChanged(c)
  <2>1. CASE session_type \in LeUnicastOffload
    <3>1. c.tag = "leAudioConfig"
      BY <1>3, <2>1 DEF ProvidersInv, FollowInv
    <3>2. session' = [session EXCEPT !.audio_config_ = c]
      BY <1>3, <2>1, <3>1 DEF ReportAudioConfigChanged
    <3>3. session' = [stack_iface_ |-> session.stack_iface_, audio_config_ |-> c,
                      data_mq_ |-> session.data_mq_, latency_modes_ |-> session.latency_modes_]
      BY <3>2 DEF ProvidersInv, Shapes
    <3>4. Shapes' /\ ReportInv'
      BY <1>1, <3>3 DEF ProvidersInv, Shapes, ReportInv
    <3>5. FollowInv'
      BY <1>1, <1>3, <2>1, <3>1, <3>3, Classes DEF ProvidersInv, FollowInv
    <3>6. SessionFollowsProvider' /\ AdvertisedIsAccepted'
      BY <1>1, <1>3, <3>3 DEF SessionFollowsProvider, AdvertisedIsAccepted, GetAudioConfig
    <3> QED BY <3>4, <3>5, <3>6 DEF ProvidersInv
  <2>2. CASE session_type \notin LeUnicastOffload
    <3>1. UNCHANGED session
      BY <1>3, <2>2 DEF ReportAudioConfigChanged
    <3>2. Shapes' /\ ReportInv'
      BY <1>1, <3>1 DEF ProvidersInv, Shapes, ReportInv
    <3>3. FollowInv'
      BY <1>1, <2>2, <3>1 DEF ProvidersInv, FollowInv, IsSessionReady
    <3>4. SessionFollowsProvider' /\ AdvertisedIsAccepted'
      BY <1>1, <2>2 DEF SessionFollowsProvider, AdvertisedIsAccepted
    <3> QED BY <3>2, <3>3, <3>4 DEF ProvidersInv
  <2> QED BY <2>1, <2>2
<1> QED BY <1>2, <1>3 DEF updateAudioConfiguration

\* setLowLatencyModeAllowed keeps the invariant.
LEMMA LowLatencyKeeps ==
    ASSUME ProvidersInv, NEW allowed \in BOOLEAN, setLowLatencyModeAllowed(allowed)
    PROVE  ProvidersInv'
<1>1. /\ UNCHANGED session_type /\ UNCHANGED provider
      /\ answer'.call # "start"
  <2>1. answer' = [call |-> "refused"] \/ answer' = [call |-> "latency"]
    BY DEF setLowLatencyModeAllowed, Answers, Refused
  <2>2. answer'.call # "start"
    BY <2>1
  <2>3. UNCHANGED session_type /\ UNCHANGED provider
    BY DEF setLowLatencyModeAllowed, fixed
  <2> QED BY <2>2, <2>3
<1>2. CASE UNCHANGED <<session, low_latency_allowed_, told>>
  BY <1>1, <1>2, QuietKeeps
<1>3. CASE /\ session_type = "A2DP_HARDWARE_OFFLOAD_ENCODING"
           /\ low_latency_allowed_' = allowed /\ told' = allowed
           /\ session' = IF allowed
                         THEN [session EXCEPT !.latency_modes_ = @ \cup {"LOW_LATENCY"}]
                         ELSE session
  <2>0. UNCHANGED <<session_type, opened, stack_iface_, audio_config_, data_mq_>>
    BY <1>1 DEF provider
  <2>1. /\ session' = [stack_iface_ |-> session.stack_iface_, audio_config_ |-> session.audio_config_,
                       data_mq_ |-> session.data_mq_, latency_modes_ |-> session'.latency_modes_]
        /\ allowed => "LOW_LATENCY" \in session'.latency_modes_
    <3>1. CASE allowed = TRUE
      <4>1. session' = [session EXCEPT !.latency_modes_ = @ \cup {"LOW_LATENCY"}]
        BY <1>3, <3>1
      <4> QED BY <4>1 DEF ProvidersInv, Shapes
    <3>2. CASE allowed = FALSE
      BY <1>3, <3>2 DEF ProvidersInv, Shapes
    <3> QED BY <3>1, <3>2
  <2>2. Shapes'
    BY <1>3, <2>0, <2>1 DEF ProvidersInv, Shapes
  <2>3. ReportInv'
    BY <1>3, <2>1 DEF ReportInv
  <2>4. FollowInv'
    BY <2>0, <2>1 DEF ProvidersInv, FollowInv, IsSessionReady
  <2>5. SessionFollowsProvider' /\ AdvertisedIsAccepted'
    BY <1>1, <2>0, <2>1 DEF ProvidersInv, SessionFollowsProvider, AdvertisedIsAccepted, IsSessionReady,
                            GetAudioConfig
  <2> QED BY <2>2, <2>3, <2>4, <2>5 DEF ProvidersInv
<1> QED BY <1>2, <1>3 DEF setLowLatencyModeAllowed, ReportLowLatencyModeAllowedChanged

\* A provider of a software session that goes on with a start has a queue.
LEMMA QueueMade ==
    ASSUME ProvidersInv, opened, session_type \in Software, NEW c \in Configurations, Accepts(c)
    PROVE  QueueFor(c) # NoQueue
<1> USE Classes DEF NoQueue
<1>1. CASE session_type \in LeSoftware
  <2>1. LeDataMqSize(c) > 0
    BY <1>1 DEF Accepts, LeSoftwareAccepts
  <2> QED BY <1>1, <2>1 DEF QueueFor
<1>2. CASE session_type \in HfpSoftware
  <2>1. c.bits = 16 /\ c.rate \in {8000, 16000, 32000} /\ c.interval = 7500
    BY <1>2 DEF Accepts, HfpSoftwareAccepts
  <2>2. HfpDataMqSize(c) > 0
    BY <2>1 DEF HfpDataMqSize
  <2> QED BY <1>2, <2>2 DEF QueueFor
<1>3. CASE session_type \in A2dpSoftware \cup HearingAid
  BY <1>3 DEF QueueFor, ProvidersInv, FollowInv
<1> QED BY <1>1, <1>2, <1>3 DEF Software

\* startSession keeps the invariant.  The session takes what the provider accepts;
\* without a host nothing is told it, and a queue that cannot be mapped leaves a
\* session that is not ready.
LEMMA StartKeeps ==
    ASSUME ProvidersInv, NEW c \in Configurations, NEW modes \in LatencyModes,
           NEW host_if \in BOOLEAN, NEW allocated \in BOOLEAN, NEW mapped \in BOOLEAN,
           startSession(c, modes, host_if, allocated, mapped)
    PROVE  ProvidersInv'
<1>0. UNCHANGED session_type /\ UNCHANGED low_latency_allowed_ /\ session_type \in Types /\ opened
  BY DEF startSession, fixed, ProvidersInv, Shapes
<1>1. CASE ~Accepts(c) \/ (session_type \in LeSoftware \cup HfpSoftware /\ ~allocated)
  <2>1. /\ UNCHANGED <<opened, stack_iface_, audio_config_, data_mq_, session, told>>
        /\ answer' = [call |-> "start", of |-> c, ok |-> FALSE,
                      served |-> host_if /\ allocated /\ mapped]
    BY <1>1 DEF startSession, provider, Answers
  <2>2. Shapes' /\ ReportInv'
    BY <1>0, <2>1 DEF ProvidersInv, Shapes, ReportInv
  <2>3. FollowInv'
    BY <1>0, <2>1 DEF ProvidersInv, FollowInv, IsSessionReady
  <2>4. SessionFollowsProvider'
    BY <1>0, <2>1 DEF ProvidersInv, SessionFollowsProvider, IsSessionReady, GetAudioConfig
  <2>5. AdvertisedIsAccepted'
    <3>1. SUFFICES ASSUME answer'.served, Advertised(answer.of)' PROVE FALSE
      BY DEF AdvertisedIsAccepted
    <3>2. Advertised(c)
      BY <1>0, <2>1, <3>1 DEF Advertised
    <3>3. allocated
      BY <2>1, <3>1
    <3> QED BY <1>0, <1>1, <3>2, <3>3, AdvertisedAccepts
  <2> QED BY <2>2, <2>3, <2>4, <2>5 DEF ProvidersInv
<1>2. CASE ~(~Accepts(c) \/ (session_type \in LeSoftware \cup HfpSoftware /\ ~allocated))
  <2>0. /\ data_mq_' = QueueFor(c) /\ UNCHANGED opened /\ Accepts(c)
        /\ answer' = [call |-> "start", of |-> c, modes |-> modes, ok |-> host_if,
                      served |-> host_if /\ allocated /\ mapped]
    BY <1>2 DEF startSession, Answers
  <2>1. session_type \in A2dpSoftware \cup HearingAid => data_mq_' # NoQueue
    BY <1>0, <2>0, QueueMade DEF Software
  <2>2. AdvertisedIsAccepted'
    BY <2>0 DEF AdvertisedIsAccepted
  <2>3. CASE ~host_if
    <3>1. UNCHANGED <<stack_iface_, audio_config_, session, told>>
      BY <1>2, <2>3 DEF startSession
    <3>2. Shapes' /\ ReportInv'
      BY <1>0, <2>0, <3>1 DEF ProvidersInv, Shapes, ReportInv
    <3>3. FollowInv'
      BY <1>0, <2>1, <3>1 DEF ProvidersInv, FollowInv, IsSessionReady
    <3>4. SessionFollowsProvider'
      BY <1>0, <2>0, <2>3, <3>1 DEF ProvidersInv, SessionFollowsProvider, IsSessionReady, GetAudioConfig
    <3> QED BY <2>2, <3>2, <3>3, <3>4 DEF ProvidersInv
  <2>4. CASE host_if
    <3>0. stack_iface_' = TRUE /\ audio_config_' = c /\ OnSessionStarted(data_mq_', c, modes, mapped)
      BY <1>2, <2>4 DEF startSession
    <3>1. /\ UpdateAudioConfig(c) /\ c # Null /\ AcceptsOf(session_type, c)
          /\ session_type \in LeUnicastOffload => c.tag = "leAudioConfig"
      BY <1>0, <2>0, AcceptsTaken
    <3>2. CASE data_mq_' # NoQueue /\ ~mapped
      <4>1. /\ session' = [session EXCEPT !.audio_config_ = Null, !.data_mq_ = NoQueue]
            /\ UNCHANGED told
        BY <3>0, <3>1, <3>2 DEF OnSessionStarted
      <4>2. session' = [stack_iface_ |-> session.stack_iface_, audio_config_ |-> Null,
                        data_mq_ |-> NoQueue, latency_modes_ |-> session.latency_modes_]
        BY <4>1 DEF ProvidersInv, Shapes
      <4>3. ~IsSessionReady'
        BY <4>2 DEF IsSessionReady
      <4>4. Shapes' /\ ReportInv'
        BY <1>0, <2>0, <3>0, <4>1, <4>2 DEF ProvidersInv, Shapes, ReportInv
      <4>5. FollowInv'
        BY <1>0, <2>1, <3>0, <3>1, <4>3 DEF FollowInv
      <4>6. SessionFollowsProvider'
        BY <2>0, <3>2, <4>3 DEF SessionFollowsProvider
      <4> QED BY <2>2, <4>4, <4>5, <4>6 DEF ProvidersInv
    <3>3. CASE ~(data_mq_' # NoQueue /\ ~mapped)
      <4>1. /\ session' = [stack_iface_ |-> TRUE, audio_config_ |-> c, data_mq_ |-> data_mq_',
                           latency_modes_ |-> modes]
            /\ told' = Nothing
        BY <3>0, <3>1, <3>3 DEF OnSessionStarted
      <4>2. IsSessionReady'
        BY <1>0, <2>0, <3>1, <4>1, QueueMade DEF IsSessionReady
      <4>3. Shapes'
        BY <1>0, <2>0, <3>0, <4>1 DEF ProvidersInv, Shapes
      <4>4. ReportInv'
        BY <4>1, ProvidersAssumption DEF ReportInv
      <4>5. /\ session_type \in LeSoftware => data_mq_' = LeDataMqSize(c)
            /\ session_type \in HfpSoftware => data_mq_' = HfpDataMqSize(c)
        BY <2>0, Classes DEF QueueFor
      <4>6. FollowInv'
        BY <1>0, <2>1, <3>0, <3>1, <4>1, <4>5 DEF FollowInv
      <4>7. SessionFollowsProvider'
        BY <2>0, <3>0, <4>1, <4>2 DEF SessionFollowsProvider, GetAudioConfig
      <4> QED BY <2>2, <4>3, <4>4, <4>6, <4>7 DEF ProvidersInv
    <3> QED BY <3>2, <3>3
  <2> QED BY <2>3, <2>4
<1> QED BY <1>1, <1>2

\* The calls that only ask leave the provider and the session as they are.
LEMMA AskingIsQuiet ==
    ASSUME \/ AskCapabilities \/ AskInfo \/ Return
           \/ \E remote \in Remotes, hint \in Hints : getA2dpConfiguration(remote, hint)
           \/ \E c \in {x \in Configurations : x.tag = "a2dp"} : parseA2dpConfiguration(c)
           \/ \E codec \in Codecs, priority \in {Disabled, 0} :
                 OffloadQuery(setCodecPriority(codec, priority))
           \/ \E q \in AseQueries :
                 OffloadQuery(getLeAudioAseConfiguration(q.direction, q.remote, q.requirements))
           \/ \E q \in QosQueries :
                 OffloadQuery(getLeAudioAseQosConfiguration(q.context, q.direction, q.required))
           \/ \E q \in BroadcastQueries :
                 OffloadQuery(getLeAudioBroadcastConfiguration(q.remote, q.counts))
    PROVE  /\ UNCHANGED <<session_type, provider, session, low_latency_allowed_, told>>
           /\ answer'.call # "start"
<1> USE DEF Answers, Refused
<1>1. CASE AskCapabilities
  <2>1. answer'.call \in {"capabilities", "advertised"}
    BY <1>1 DEF AskCapabilities, getProviderCapabilities
  <2> QED BY <1>1, <2>1 DEF AskCapabilities, fixed
<1>2. CASE AskInfo
  <2>1. answer'.call \in {"info", "refused"}
    BY <1>2 DEF AskInfo, getProviderInfo
  <2> QED BY <1>2, <2>1 DEF AskInfo, fixed
<1>3. CASE Return
  BY <1>3 DEF Return, Unchanged, fixed, Idle
<1>4. ASSUME NEW remote \in Remotes, NEW hint \in Hints, getA2dpConfiguration(remote, hint)
      PROVE  /\ UNCHANGED <<session_type, provider, session, low_latency_allowed_, told>>
             /\ answer'.call # "start"
  <2>1. answer'.call \in {"a2dp", "refused"}
    BY <1>4 DEF getA2dpConfiguration
  <2> QED BY <1>4, <2>1 DEF getA2dpConfiguration, Unchanged, fixed
<1>5. ASSUME NEW c \in Configurations, parseA2dpConfiguration(c)
      PROVE  /\ UNCHANGED <<session_type, provider, session, low_latency_allowed_, told>>
             /\ answer'.call # "start"
  <2>1. answer'.call \in {"parsed", "refused"}
    BY <1>5 DEF parseA2dpConfiguration
  <2> QED BY <1>5, <2>1 DEF parseA2dpConfiguration, Unchanged, fixed
<1>6. ASSUME NEW codec \in Codecs, NEW priority \in {Disabled, 0},
             OffloadQuery(setCodecPriority(codec, priority))
      PROVE  /\ UNCHANGED <<session_type, provider, session, low_latency_allowed_, told>>
             /\ answer'.call # "start"
  <2>1. answer'.call \in {"priority", "refused"}
    BY <1>6 DEF OffloadQuery, setCodecPriority
  <2> QED BY <1>6, <2>1 DEF OffloadQuery, fixed
<1>7. ASSUME NEW q \in AseQueries,
             OffloadQuery(getLeAudioAseConfiguration(q.direction, q.remote, q.requirements))
      PROVE  /\ UNCHANGED <<session_type, provider, session, low_latency_allowed_, told>>
             /\ answer'.call # "start"
  <2>1. answer'.call \in {"ase", "died", "refused"}
    BY <1>7 DEF OffloadQuery, getLeAudioAseConfiguration, Dies, Died
  <2> QED BY <1>7, <2>1 DEF OffloadQuery, fixed
<1>8. ASSUME NEW q \in QosQueries,
             OffloadQuery(getLeAudioAseQosConfiguration(q.context, q.direction, q.required))
      PROVE  /\ UNCHANGED <<session_type, provider, session, low_latency_allowed_, told>>
             /\ answer'.call # "start"
  <2>1. answer'.call \in {"qos", "died", "refused"}
    BY <1>8 DEF OffloadQuery, getLeAudioAseQosConfiguration, Dies, Died
  <2> QED BY <1>8, <2>1 DEF OffloadQuery, fixed
<1>9. ASSUME NEW q \in BroadcastQueries,
             OffloadQuery(getLeAudioBroadcastConfiguration(q.remote, q.counts))
      PROVE  /\ UNCHANGED <<session_type, provider, session, low_latency_allowed_, told>>
             /\ answer'.call # "start"
  <2>1. answer'.call \in {"broadcast", "refused"}
    BY <1>9 DEF OffloadQuery, getLeAudioBroadcastConfiguration
  <2> QED BY <1>9, <2>1 DEF OffloadQuery, fixed
<1> QED BY <1>1, <1>2, <1>3, <1>4, <1>5, <1>6, <1>7, <1>8, <1>9

\* Every step keeps the invariant.
LEMMA ProvidersStep == ASSUME ProvidersInv, [Next]_vars PROVE ProvidersInv'
<1>1. CASE UNCHANGED vars
  <2>1. UNCHANGED <<session_type, opened, stack_iface_, audio_config_, data_mq_, session,
                    low_latency_allowed_, told, answer>>
    BY <1>1 DEF vars, fixed, provider
  <2> QED BY <2>1 DEF ProvidersInv, Shapes, FollowInv, ReportInv, SessionFollowsProvider,
                      AdvertisedIsAccepted, Advertised, IsSessionReady, GetAudioConfig
<1>2. CASE openProvider \/ endSession
  BY <1>2, OpenKeeps, EndKeeps
<1>3. ASSUME NEW c \in Configurations, NEW modes \in LatencyModes, NEW host_if \in BOOLEAN,
             NEW allocated \in BOOLEAN, NEW mapped \in BOOLEAN,
             startSession(c, modes, host_if, allocated, mapped)
      PROVE  ProvidersInv'
  BY <1>3, StartKeeps
<1>4. ASSUME NEW c \in Updates, updateAudioConfiguration(c) PROVE ProvidersInv'
  BY <1>4, UpdateKeeps
<1>5. ASSUME NEW allowed \in BOOLEAN, setLowLatencyModeAllowed(allowed) PROVE ProvidersInv'
  BY <1>5, LowLatencyKeeps
<1>6. CASE \/ AskCapabilities \/ AskInfo \/ Return
           \/ \E remote \in Remotes, hint \in Hints : getA2dpConfiguration(remote, hint)
           \/ \E c \in {x \in Configurations : x.tag = "a2dp"} : parseA2dpConfiguration(c)
           \/ \E codec \in Codecs, priority \in {Disabled, 0} :
                 OffloadQuery(setCodecPriority(codec, priority))
           \/ \E q \in AseQueries :
                 OffloadQuery(getLeAudioAseConfiguration(q.direction, q.remote, q.requirements))
           \/ \E q \in QosQueries :
                 OffloadQuery(getLeAudioAseQosConfiguration(q.context, q.direction, q.required))
           \/ \E q \in BroadcastQueries :
                 OffloadQuery(getLeAudioBroadcastConfiguration(q.remote, q.counts))
  BY <1>6, AskingIsQuiet, QuietKeeps
<1> QED BY <1>1, <1>2, <1>3, <1>4, <1>5, <1>6 DEF Next

-----------------------------------------------------------------------------
(* What the invariant says of low latency *)

\* Low latency is offered as it was allowed.
LEMMA LowLatencyImplied == ProvidersInv => LowLatencyAgrees
<1> SUFFICES ASSUME ProvidersInv, session_type = "A2DP_HARDWARE_OFFLOAD_ENCODING", IsSessionReady
             PROVE  /\ told = TRUE => "LOW_LATENCY" \in GetSupportedLatencyModes
                    /\ told = FALSE => "LOW_LATENCY" \notin GetSupportedLatencyModes
                    /\ ~low_latency_allowed_ => "LOW_LATENCY" \notin GetSupportedLatencyModes
  BY DEF LowLatencyAgrees
<1>1. GetSupportedLatencyModes =
         session.latency_modes_
            \ ({"DYNAMIC_SPATIAL_AUDIO_SOFTWARE", "DYNAMIC_SPATIAL_AUDIO_HARDWARE"}
               \cup IF low_latency_allowed_ THEN {} ELSE {"LOW_LATENCY"})
  BY DEF GetSupportedLatencyModes
<1>2. /\ told = TRUE => low_latency_allowed_ /\ "LOW_LATENCY" \in session.latency_modes_
      /\ told = FALSE => ~low_latency_allowed_
  BY DEF ProvidersInv, ReportInv
<1> QED BY <1>1, <1>2

-----------------------------------------------------------------------------
(* What the invariant says of queues and ports *)

\* A ready software session has a valid PCM configuration of the stack's.
LEMMA ReadyPcm ==
    ASSUME ProvidersInv, IsSessionReady, session_type \in Software
    PROVE  /\ GetAudioConfig = session.audio_config_
           /\ session.audio_config_ \in Configurations
           /\ session.audio_config_.tag = "pcmConfig"
           /\ IsSoftwarePcmConfigurationValid(session.audio_config_)
<1>1. session_type \notin LeUnicastOffload
  BY Classes DEF Software
<1>2. session.audio_config_ \in Configurations /\ Accepts(session.audio_config_)
  BY <1>1 DEF ProvidersInv, FollowInv, Accepts, AcceptsOf, LeOffloadAccepts
<1> QED BY <1>2, AcceptsTaken DEF ProvidersInv, Shapes, GetAudioConfig

\* Two intervals of whole milliseconds cover one interval, and no more than twice it.
LEMMA TwoIntervals ==
    ASSUME NEW n \in Nat, n >= 1000,
           NEW r \in {8000, 16000, 24000, 32000, 44100, 48000, 88200, 96000}, NEW k \in {2, 4, 8}
    PROVE  LET needed == (r \div 100) * k * (n \div 10)
               size == (r * k * (n \div 1000) * 2) \div 1000
           IN  size * 1000 >= needed /\ size * 1000 <= 2 * needed
<1> DEFINE m == n \div 1000
           d == n \div 10
<1>1. m \in Nat /\ d \in Nat /\ m >= 1 /\ d >= 100 * m /\ d <= 100 * m + 99
  OBVIOUS
<1> HIDE DEF m, d
<1> SUFFICES LET needed == (r \div 100) * k * d
                 size == (r * k * m * 2) \div 1000
             IN  size * 1000 >= needed /\ size * 1000 <= 2 * needed
  BY DEF m, d
<1>2. CASE k = 2
  BY <1>1, <1>2
<1>3. CASE k = 4
  BY <1>1, <1>3
<1>4. CASE k = 8
  BY <1>1, <1>4
<1> QED BY <1>2, <1>3, <1>4

\* The queue of an LE or HFP software session holds an interval, and at most two.
LEMMA QueueImplied == ProvidersInv => QueueHoldsInterval
<1> SUFFICES ASSUME ProvidersInv, session_type \in LeSoftware \cup HfpSoftware, IsSessionReady
             PROVE  LET c == GetAudioConfig
                        port == aidl_LoadAudioConfig(c, session_type, FALSE)
                        needed == (port[1] \div 100) * port[2] * BytesOf(port[3]) * (c.interval \div 10)
                    IN  session.data_mq_ * 1000 >= needed /\ session.data_mq_ * 1000 <= 2 * needed
  BY DEF QueueHoldsInterval
<1> DEFINE c == GetAudioConfig
           n == channel_mode_to_channel_count(c.channelMode)
           k == IF c.bits = 24 THEN 4 ELSE c.bits \div 8
<1>0. session_type \in Software
  BY DEF Software
<1>1. session.audio_config_ = c /\ c \in Configurations /\ c.tag = "pcmConfig" /\ IsSoftwarePcmConfigurationValid(c)
  BY <1>0, ReadyPcm
<1>2. /\ c.rate \in {8000, 16000, 24000, 32000, 44100, 48000, 88200, 96000}
      /\ c.channelMode \in {"MONO", "STEREO"} /\ c.bits \in {16, 24, 32} /\ c.interval \in Nat
  BY <1>1, PcmParameters, ProvidersAssumption
<1>3. n \in {1, 2} /\ k \in {2, 4} /\ n * k \in {2, 4, 8}
  <2>1. n \in {1, 2} /\ k \in {2, 4}
    BY <1>2 DEF channel_mode_to_channel_count
  <2> QED BY <2>1
<1> DEFINE port == aidl_LoadAudioConfig(c, session_type, FALSE)
<1>4. port[1] = c.rate /\ port[2] = n /\ BytesOf(port[3]) = k
  <2>1. session_type \notin {"A2DP_HARDWARE_OFFLOAD_ENCODING", "A2DP_SOFTWARE_ENCODING"}
    BY DEF LeSoftware, HfpSoftware
  <2>2. port = <<c.rate, ChannelModeToAudioFormat(c.channelMode),
                 BitsPerSampleToAudioFormat(c.bits, session_type)>>
    BY <1>2 DEF aidl_LoadAudioConfig
  <2>3. ChannelModeToAudioFormat(c.channelMode) = n
    BY <1>2 DEF ChannelModeToAudioFormat, channel_mode_to_channel_count
  <2>4. BytesOf(BitsPerSampleToAudioFormat(c.bits, session_type)) = k
    BY <1>2, <2>1 DEF BytesOf, BitsPerSampleToAudioFormat
  <2> HIDE DEF port, n, k, c
  <2> QED BY <2>2, <2>3, <2>4
<1> DEFINE Fits == LET needed == (port[1] \div 100) * port[2] * BytesOf(port[3]) * (c.interval \div 10)
                   IN  session.data_mq_ * 1000 >= needed /\ session.data_mq_ * 1000 <= 2 * needed
<1> SUFFICES Fits
  OBVIOUS
<1>5. session_type \notin LeUnicastOffload
  BY Classes
<1>6. CASE session_type \in LeSoftware
  <2>1. session.data_mq_ = LeDataMqSize(c) /\ LeSoftwareAccepts(c)
    BY <1>1, <1>5, <1>6, Classes DEF ProvidersInv, FollowInv, AcceptsOf
  <2>2. c.interval >= 1000
    BY <1>1, <2>1, AcceptedSize DEF LeSoftwareAccepts
  <2>3. session.data_mq_ = (c.rate * (n * k) * (c.interval \div 1000) * 2) \div 1000
    BY <1>2, <1>3, <2>1 DEF LeDataMqSize
  <2>4. (c.rate \div 100) * n * k * (c.interval \div 10) = (c.rate \div 100) * (n * k) * (c.interval \div 10)
    BY <1>2, <1>3
  <2> DEFINE needed == (c.rate \div 100) * (n * k) * (c.interval \div 10)
  <2>5. session.data_mq_ * 1000 >= needed /\ session.data_mq_ * 1000 <= 2 * needed
    <3> HIDE DEF n, k, c
    <3> QED BY <1>2, <1>3, <2>2, <2>3, TwoIntervals
  <2> HIDE DEF port, n, k, c
  <2> QED BY <1>4, <2>4, <2>5
<1>7. CASE session_type \in HfpSoftware
  <2>1. session.data_mq_ = HfpDataMqSize(c) /\ HfpSoftwareAccepts(c)
    BY <1>1, <1>5, <1>7, Classes DEF ProvidersInv, FollowInv, AcceptsOf
  <2>2. c.bits = 16 /\ c.rate \in {8000, 16000, 32000} /\ c.interval = 7500 /\ n = 1 /\ k = 2
    BY <2>1 DEF HfpSoftwareAccepts, channel_mode_to_channel_count
  <2>3. session.data_mq_ = (2 * (16 \div 8) * (c.rate \div 1000) * 7500) \div 1000
    BY <2>1, <2>2 DEF HfpDataMqSize
  <2> DEFINE needed == (c.rate \div 100) * 1 * 2 * (7500 \div 10)
  <2>4. session.data_mq_ * 1000 >= needed /\ session.data_mq_ * 1000 <= 2 * needed
    <3> HIDE DEF c
    <3> QED BY <2>2, <2>3
  <2> HIDE DEF port, n, k, c
  <2> QED BY <1>4, <2>2, <2>4
<1> QED BY <1>6, <1>7

\* A value that the map has is the one bit that is set.
LEMMA OnlyBit == ASSUME NEW S, NEW v \in S PROVE OnlyIn(v, S) = {v}
BY Zenon DEF OnlyIn

\* The middleware keeps every parameter of a valid PCM configuration.
LEMMA PcmConverted ==
    ASSUME NEW c, IsSoftwarePcmConfigurationValid(c)
    PROVE  LET hidl == to_hidl_pcm_config_2_1(c)
           IN  /\ hidl.rate = {c.rate} /\ hidl.channelMode = {c.channelMode}
               /\ hidl.bits = {c.bits} /\ hidl.interval = c.interval
<1>1. /\ c.rate \in {8000, 16000, 24000, 32000, 44100, 48000, 88200, 96000}
      /\ c.channelMode \in {"MONO", "STEREO"} /\ c.bits \in {16, 24, 32}
  BY PcmParameters
<1>2. to_hidl_sample_rate_2_1(c.rate) = {c.rate}
  <2>1. c.rate \in Rates_2_1
    BY <1>1 DEF Rates_2_1, Rates_2_0
  <2> QED BY <2>1, OnlyBit DEF to_hidl_sample_rate_2_1
<1>3. to_hidl_channel_mode(c.channelMode) = {c.channelMode}
  BY <1>1, OnlyBit DEF to_hidl_channel_mode
<1>4. to_hidl_bits_per_sample(c.bits) = {c.bits}
  <2>1. c.bits \in AllBits
    BY <1>1 DEF AllBits
  <2> QED BY <2>1, OnlyBit DEF to_hidl_bits_per_sample
<1> QED BY <1>2, <1>3, <1>4 DEF to_hidl_pcm_config_2_1

\* Ports of both kinds agree on a software session.
LEMMA PortsImplied == ProvidersInv => PortsAgree
<1> SUFFICES ASSUME ProvidersInv, session_type \in Software
             PROVE  LET c == GetAudioConfig
                        aidl == aidl_LoadAudioConfig(c, session_type, FALSE)
                        hidl == hidl_LoadAudioConfig(to_hidl_pcm_config_2_1(c), FALSE)
                    IN  IF ~IsSessionReady THEN aidl = <<>> /\ hidl = <<>>
                        ELSE /\ aidl # <<>> /\ hidl # <<>>
                             /\ aidl[1] = hidl[1] /\ aidl[2] = hidl[2]
                             /\ aidl[3] = hidl[3] \/ c.bits = 24
  BY DEF PortsAgree
<1> DEFINE c == GetAudioConfig
           aidl == aidl_LoadAudioConfig(c, session_type, FALSE)
           hidl == hidl_LoadAudioConfig(to_hidl_pcm_config_2_1(c), FALSE)
<1>1. CASE ~IsSessionReady
  <2>1. c = [tag |-> "pcmConfig", rate |-> 0, channelMode |-> "UNKNOWN", bits |-> 0, interval |-> 0]
    BY <1>1, Classes DEF GetAudioConfig, Software, LeBroadcastOffload
  <2>2. aidl = <<>>
    BY <2>1 DEF aidl_LoadAudioConfig
  <2>3. to_hidl_pcm_config_2_1(c).channelMode = {}
    BY <2>1 DEF to_hidl_pcm_config_2_1, to_hidl_channel_mode, OnlyIn
  <2>4. hidl = <<>>
    BY <2>3 DEF hidl_LoadAudioConfig
  <2> QED BY <1>1, <2>2, <2>4
<1>2. CASE IsSessionReady
  <2>1. IsSoftwarePcmConfigurationValid(c)
    BY <1>2, ReadyPcm
  <2>2. /\ c.rate \in {8000, 16000, 24000, 32000, 44100, 48000, 88200, 96000}
        /\ c.channelMode \in {"MONO", "STEREO"} /\ c.bits \in {16, 24, 32}
    BY <2>1, PcmParameters
  <2> DEFINE h == to_hidl_pcm_config_2_1(c)
  <2>3. h.rate = {c.rate} /\ h.channelMode = {c.channelMode} /\ h.bits = {c.bits}
    BY <2>1, PcmConverted
  <2>4. aidl = <<c.rate, ChannelModeToAudioFormat(c.channelMode),
                 BitsPerSampleToAudioFormat(c.bits, session_type)>>
    BY <2>2 DEF aidl_LoadAudioConfig
  <2> HIDE DEF h, c
  <2>5. hidl = <<SampleRateToAudioFormat(h.rate),
                 ChannelModeToAudioFormat(CHOOSE m \in h.channelMode : TRUE),
                 hidl_BitsPerSampleToAudioFormat(h.bits)>>
    BY <2>3 DEF hidl_LoadAudioConfig, h
  <2>6. SampleRateToAudioFormat(h.rate) = c.rate
    <3>1. h.rate \in {{r} : r \in Rates_2_1}
      BY <2>2, <2>3 DEF Rates_2_1, Rates_2_0
    <3>2. (CHOOSE r \in h.rate : TRUE) = c.rate
      BY <2>3
    <3> QED BY <3>1, <3>2 DEF SampleRateToAudioFormat
  <2>7. (CHOOSE m \in h.channelMode : TRUE) = c.channelMode
    BY <2>3
  <2>8. hidl_BitsPerSampleToAudioFormat(h.bits) = BitsPerSampleToAudioFormat(c.bits, session_type)
           \/ c.bits = 24
    BY <2>2, <2>3 DEF hidl_BitsPerSampleToAudioFormat, BitsPerSampleToAudioFormat
  <2>9. /\ aidl[1] = hidl[1] /\ aidl[2] = hidl[2] /\ aidl # <<>> /\ hidl # <<>>
        /\ aidl[3] = hidl[3] \/ c.bits = 24
    <3> HIDE DEF aidl, hidl
    <3> QED BY <2>4, <2>5, <2>6, <2>7, <2>8
  <2> QED BY <1>2, <2>9 DEF c
<1> QED BY <1>1, <1>2

\* One value of a field, converted, is a single bit of the mask, and within the capability.
LEMMA FieldAccepted ==
    ASSUME NEW h, NEW f, NEW v, NEW S, NEW mask, NEW capability, h[f] = OnlyIn(v, S),
           v \in S, v \in mask, v \in capability
    PROVE  IsSingleBit(h[f], mask) /\ Within(h, f, capability)
<1>1. h[f] = {v}
  BY Zenon DEF OnlyIn
<1>2. h[f] \cap mask = {v} /\ v \in h[f] \cap capability
  BY <1>1, Zenon
<1> QED BY <1>2, FS_Singleton DEF IsSingleBit, Within

\* The rates, and the samples, that the middleware can convert to HIDL.
LEMMA RateAccepted ==
    ASSUME NEW h, NEW v, NEW capability, h["rate"] = to_hidl_sample_rate_2_1(v),
           v \in Rates_2_0, v \in capability
    PROVE  IsSingleBit(h["rate"], Rates_2_0) /\ Within(h, "rate", capability)
<1>1. v \in Rates_2_1
  BY SMT DEF Rates_2_1
<1> QED BY <1>1, FieldAccepted DEF to_hidl_sample_rate_2_1
\* The same of the bits of a sample.
LEMMA BitsAccepted ==
    ASSUME NEW h, NEW v, NEW capability, h["bits"] = to_hidl_bits_per_sample(v),
           v \in AllBits, v \in capability
    PROVE  IsSingleBit(h["bits"], AllBits) /\ Within(h, "bits", capability)
  BY FieldAccepted DEF to_hidl_bits_per_sample

\* Codec by codec: what is valid for the AIDL session is, converted, for the HIDL one.
LEMMA SbcConverted ==
    ASSUME NEW c, IsOffloadSbcConfigurationValid(c)
    PROVE  hidl_IsOffloadSbcConfigurationValid(to_hidl_codec_config_2_0(c))
<1> DEFINE h == to_hidl_codec_config_2_0(c)
<1>1. c.tag = "sbc"
  BY DEF IsOffloadSbcConfigurationValid
<1>2. h = to_hidl_sbc_config(c)
  BY <1>1 DEF to_hidl_codec_config_2_0
<1> HIDE DEF h
<1>3. IsSingleBit(h["rate"], Rates_2_0) /\ Within(h, "rate", {44100})
  <2>1. c.rate \in {44100}
    BY SMT DEF IsOffloadSbcConfigurationValid, ContainedInVector, kDefaultOffloadSbcCapability
  <2>2. c.rate \in Rates_2_0
    BY <2>1, SMT DEF Rates_2_0
  <2>3. h["rate"] = to_hidl_sample_rate_2_1(c.rate)
    BY <1>2, SMT DEF to_hidl_sbc_config
  <2> QED BY <2>1, <2>2, <2>3, RateAccepted, SMT
<1>4. IsSingleBit(h["bits"], AllBits) /\ Within(h, "bits", {16})
  <2>1. c.bits \in {16}
    BY SMT DEF IsOffloadSbcConfigurationValid, ContainedInVector, kDefaultOffloadSbcCapability
  <2>2. c.bits \in AllBits
    BY <2>1, SMT DEF AllBits
  <2>3. h["bits"] = to_hidl_bits_per_sample(c.bits)
    BY <1>2, SMT DEF to_hidl_sbc_config
  <2> QED BY <2>1, <2>2, <2>3, BitsAccepted, SMT
<1>5. /\ IsSingleBit(h["channelMode"], {"JOINT_STEREO", "STEREO", "DUAL", "MONO"})
     /\ Within(h, "channelMode", {"MONO", "JOINT_STEREO"})
  <2>1. c.channelMode \in {"MONO", "JOINT_STEREO"} /\ c.channelMode \in {"JOINT_STEREO", "STEREO", "DUAL", "MONO"}
    BY SMT DEF IsOffloadSbcConfigurationValid, ContainedInVector, kDefaultOffloadSbcCapability
  <2>2. h["channelMode"] = OnlyIn(c.channelMode, {"JOINT_STEREO", "STEREO", "DUAL", "MONO"})
    BY <1>2, SMT DEF to_hidl_sbc_config, to_hidl_channel_mode
  <2> QED BY <2>1, <2>2, FieldAccepted, SMT
<1>6. /\ IsSingleBit(h["blockLength"], {4, 8, 12, 16})
     /\ Within(h, "blockLength", {4, 8, 12, 16})
  <2>1. c.blockLength \in {4, 8, 12, 16} /\ c.blockLength \in {4, 8, 12, 16}
    BY SMT DEF IsOffloadSbcConfigurationValid, ContainedInVector, kDefaultOffloadSbcCapability
  <2>2. h["blockLength"] = OnlyIn(c.blockLength, {4, 8, 12, 16})
    BY <1>2, SMT DEF to_hidl_sbc_config, to_hidl_channel_mode
  <2> QED BY <2>1, <2>2, FieldAccepted, SMT
<1>7. /\ IsSingleBit(h["numSubbands"], {4, 8})
     /\ Within(h, "numSubbands", {8})
  <2>1. c.numSubbands \in {8} /\ c.numSubbands \in {4, 8}
    BY SMT DEF IsOffloadSbcConfigurationValid, ContainedInVector, kDefaultOffloadSbcCapability
  <2>2. h["numSubbands"] = OnlyIn(c.numSubbands, {4, 8})
    BY <1>2, SMT DEF to_hidl_sbc_config, to_hidl_channel_mode
  <2> QED BY <2>1, <2>2, FieldAccepted, SMT
<1>8. /\ IsSingleBit(h["allocMethod"], {"ALLOC_MD_S", "ALLOC_MD_L"})
     /\ Within(h, "allocMethod", {"ALLOC_MD_L"})
  <2>1. c.allocMethod \in {"ALLOC_MD_L"} /\ c.allocMethod \in {"ALLOC_MD_S", "ALLOC_MD_L"}
    BY SMT DEF IsOffloadSbcConfigurationValid, ContainedInVector, kDefaultOffloadSbcCapability
  <2>2. h["allocMethod"] = OnlyIn(c.allocMethod, {"ALLOC_MD_S", "ALLOC_MD_L"})
    BY <1>2, SMT DEF to_hidl_sbc_config, to_hidl_channel_mode
  <2> QED BY <2>1, <2>2, FieldAccepted, SMT
<1>9. h.tag = "sbc" /\ h.min = c.min /\ h.max = c.max
  BY <1>2, SMT DEF to_hidl_sbc_config
<1>10. h.min <= h.max /\ 2 <= h.min /\ h.max <= 53
  BY <1>9, SMT DEF IsOffloadSbcConfigurationValid, SbcBitpools
<1> QED BY <1>1, <1>3, <1>4, <1>5, <1>6, <1>7, <1>8, <1>9, <1>10, SMT DEF hidl_IsOffloadSbcConfigurationValid, h

\* AAC.
LEMMA AacConverted ==
    ASSUME NEW c, IsOffloadAacConfigurationValid(c)
    PROVE  hidl_IsOffloadAacConfigurationValid(to_hidl_codec_config_2_0(c))
<1> DEFINE h == to_hidl_codec_config_2_0(c)
<1>1. c.tag = "aac"
  BY DEF IsOffloadAacConfigurationValid
<1>2. h = to_hidl_aac_config(c)
  BY <1>1 DEF to_hidl_codec_config_2_0
<1> HIDE DEF h
<1>3. IsSingleBit(h["rate"], Rates_2_0) /\ Within(h, "rate", {44100})
  <2>1. c.rate \in {44100}
    BY SMT DEF IsOffloadAacConfigurationValid, ContainedInVector, kDefaultOffloadAacCapability
  <2>2. c.rate \in Rates_2_0
    BY <2>1, SMT DEF Rates_2_0
  <2>3. h["rate"] = to_hidl_sample_rate_2_1(c.rate)
    BY <1>2, SMT DEF to_hidl_aac_config
  <2> QED BY <2>1, <2>2, <2>3, RateAccepted, SMT
<1>4. IsSingleBit(h["bits"], AllBits) /\ Within(h, "bits", {16})
  <2>1. c.bits \in {16}
    BY SMT DEF IsOffloadAacConfigurationValid, ContainedInVector, kDefaultOffloadAacCapability
  <2>2. c.bits \in AllBits
    BY <2>1, SMT DEF AllBits
  <2>3. h["bits"] = to_hidl_bits_per_sample(c.bits)
    BY <1>2, SMT DEF to_hidl_aac_config
  <2> QED BY <2>1, <2>2, <2>3, BitsAccepted, SMT
<1>5. /\ IsSingleBit(h["channelMode"], {"MONO", "STEREO"})
     /\ Within(h, "channelMode", {"STEREO"})
  <2>1. c.channelMode \in {"STEREO"} /\ c.channelMode \in {"MONO", "STEREO"}
    BY SMT DEF IsOffloadAacConfigurationValid, ContainedInVector, kDefaultOffloadAacCapability
  <2>2. h["channelMode"] = OnlyIn(c.channelMode, {"MONO", "STEREO"})
    BY <1>2, SMT DEF to_hidl_aac_config, to_hidl_channel_mode
  <2> QED BY <2>1, <2>2, FieldAccepted, SMT
<1>6. /\ IsSingleBit(h["objectType"], {"MPEG2_LC", "MPEG4_LC", "MPEG4_LTP", "MPEG4_SCALABLE"})
     /\ Within(h, "objectType", {"MPEG2_LC"})
  <2>1. c.objectType \in {"MPEG2_LC"} /\ c.objectType \in {"MPEG2_LC", "MPEG4_LC", "MPEG4_LTP", "MPEG4_SCALABLE"}
    BY SMT DEF IsOffloadAacConfigurationValid, ContainedInVector, kDefaultOffloadAacCapability
  <2>2. h["objectType"] = OnlyIn(c.objectType, {"MPEG2_LC", "MPEG4_LC", "MPEG4_LTP", "MPEG4_SCALABLE"})
    BY <1>2, SMT DEF to_hidl_aac_config, to_hidl_channel_mode
  <2> QED BY <2>1, <2>2, FieldAccepted, SMT
<1>7. h.tag = "aac"
  BY <1>2, SMT DEF to_hidl_aac_config
<1> QED BY <1>1, <1>3, <1>4, <1>5, <1>6, <1>7, SMT DEF hidl_IsOffloadAacConfigurationValid, h

\* LDAC, of which HIDL checks less.
LEMMA LdacConverted ==
    ASSUME NEW c, IsOffloadLdacConfigurationValid(c)
    PROVE  hidl_IsOffloadLdacConfigurationValid(to_hidl_codec_config_2_0(c))
<1> DEFINE h == to_hidl_codec_config_2_0(c)
<1>1. c.tag = "ldac"
  BY DEF IsOffloadLdacConfigurationValid
<1>2. h = to_hidl_ldac_config(c)
  BY <1>1 DEF to_hidl_codec_config_2_0
<1> HIDE DEF h
<1>3. IsSingleBit(h["rate"], Rates_2_0) /\ Within(h, "rate", {44100, 48000, 88200, 96000})
  <2>1. c.rate \in {44100, 48000, 88200, 96000}
    BY SMT DEF IsOffloadLdacConfigurationValid, ContainedInVector, kDefaultOffloadLdacCapability
  <2>2. c.rate \in Rates_2_0
    BY <2>1, SMT DEF Rates_2_0
  <2>3. h["rate"] = to_hidl_sample_rate_2_1(c.rate)
    BY <1>2, SMT DEF to_hidl_ldac_config
  <2> QED BY <2>1, <2>2, <2>3, RateAccepted, SMT
<1>4. IsSingleBit(h["bits"], AllBits) /\ Within(h, "bits", {16, 24, 32})
  <2>1. c.bits \in {16, 24, 32}
    BY SMT DEF IsOffloadLdacConfigurationValid, ContainedInVector, kDefaultOffloadLdacCapability
  <2>2. c.bits \in AllBits
    BY <2>1, SMT DEF AllBits
  <2>3. h["bits"] = to_hidl_bits_per_sample(c.bits)
    BY <1>2, SMT DEF to_hidl_ldac_config
  <2> QED BY <2>1, <2>2, <2>3, BitsAccepted, SMT
<1>5. /\ IsSingleBit(h["channelMode"], {"STEREO", "DUAL", "MONO"})
     /\ Within(h, "channelMode", {"DUAL", "STEREO"})
  <2>1. c.channelMode \in {"DUAL", "STEREO"} /\ c.channelMode \in {"STEREO", "DUAL", "MONO"}
    BY SMT DEF IsOffloadLdacConfigurationValid, ContainedInVector, kDefaultOffloadLdacCapability
  <2>2. h["channelMode"] = OnlyIn(c.channelMode, {"STEREO", "DUAL", "MONO"})
    BY <1>2, SMT DEF to_hidl_ldac_config, to_hidl_channel_mode
  <2> QED BY <2>1, <2>2, FieldAccepted, Zenon
<1>6. h.tag = "ldac" /\ h.qualityIndex \in {"HIGH", "MID", "LOW", "ABR"}
  BY <1>2, SMT DEF to_hidl_ldac_config, IsOffloadLdacConfigurationValid, ContainedInVector,
                   kDefaultOffloadLdacCapability
<1> QED BY <1>1, <1>3, <1>4, <1>5, <1>6, SMT DEF hidl_IsOffloadLdacConfigurationValid, h

\* aptX.
LEMMA AptxConverted ==
    ASSUME NEW c, IsOffloadAptxConfigurationValid(c)
    PROVE  hidl_IsOffloadAptxConfigurationValid(to_hidl_codec_config_2_0(c))
<1> DEFINE h == to_hidl_codec_config_2_0(c)
<1>1. c.tag = "aptx"
  BY DEF IsOffloadAptxConfigurationValid
<1>2. h = to_hidl_aptx_config(c)
  BY <1>1 DEF to_hidl_codec_config_2_0
<1> HIDE DEF h
<1>3. IsSingleBit(h["rate"], Rates_2_0) /\ Within(h, "rate", {44100, 48000})
  <2>1. c.rate \in {44100, 48000}
    BY SMT DEF IsOffloadAptxConfigurationValid, ContainedInVector, kDefaultOffloadAptxCapability
  <2>2. c.rate \in Rates_2_0
    BY <2>1, SMT DEF Rates_2_0
  <2>3. h["rate"] = to_hidl_sample_rate_2_1(c.rate)
    BY <1>2, SMT DEF to_hidl_aptx_config
  <2> QED BY <2>1, <2>2, <2>3, RateAccepted, SMT
<1>4. IsSingleBit(h["bits"], AllBits) /\ Within(h, "bits", {16})
  <2>1. c.bits \in {16}
    BY SMT DEF IsOffloadAptxConfigurationValid, ContainedInVector, kDefaultOffloadAptxCapability
  <2>2. c.bits \in AllBits
    BY <2>1, SMT DEF AllBits
  <2>3. h["bits"] = to_hidl_bits_per_sample(c.bits)
    BY <1>2, SMT DEF to_hidl_aptx_config
  <2> QED BY <2>1, <2>2, <2>3, BitsAccepted, SMT
<1>5. /\ IsSingleBit(h["channelMode"], {"MONO", "STEREO"})
     /\ Within(h, "channelMode", {"STEREO"})
  <2>1. c.channelMode \in {"STEREO"} /\ c.channelMode \in {"MONO", "STEREO"}
    BY SMT DEF IsOffloadAptxConfigurationValid, ContainedInVector, kDefaultOffloadAptxCapability
  <2>2. h["channelMode"] = OnlyIn(c.channelMode, {"MONO", "STEREO"})
    BY <1>2, SMT DEF to_hidl_aptx_config, to_hidl_channel_mode
  <2> QED BY <2>1, <2>2, FieldAccepted, SMT
<1>6. h.tag = "aptx"
  BY <1>2, SMT DEF to_hidl_aptx_config
<1> QED BY <1>1, <1>3, <1>4, <1>5, <1>6, SMT DEF hidl_IsOffloadAptxConfigurationValid, h

\* aptX HD.
LEMMA AptxHdConverted ==
    ASSUME NEW c, IsOffloadAptxHdConfigurationValid(c)
    PROVE  hidl_IsOffloadAptxHdConfigurationValid(to_hidl_codec_config_2_0(c))
<1> DEFINE h == to_hidl_codec_config_2_0(c)
<1>1. c.tag = "aptx"
  BY DEF IsOffloadAptxHdConfigurationValid
<1>2. h = to_hidl_aptx_config(c)
  BY <1>1 DEF to_hidl_codec_config_2_0
<1> HIDE DEF h
<1>3. IsSingleBit(h["rate"], Rates_2_0) /\ Within(h, "rate", {44100, 48000})
  <2>1. c.rate \in {44100, 48000}
    BY SMT DEF IsOffloadAptxHdConfigurationValid, ContainedInVector, kDefaultOffloadAptxHdCapability
  <2>2. c.rate \in Rates_2_0
    BY <2>1, SMT DEF Rates_2_0
  <2>3. h["rate"] = to_hidl_sample_rate_2_1(c.rate)
    BY <1>2, SMT DEF to_hidl_aptx_config
  <2> QED BY <2>1, <2>2, <2>3, RateAccepted, SMT
<1>4. IsSingleBit(h["bits"], AllBits) /\ Within(h, "bits", {24})
  <2>1. c.bits \in {24}
    BY SMT DEF IsOffloadAptxHdConfigurationValid, ContainedInVector, kDefaultOffloadAptxHdCapability
  <2>2. c.bits \in AllBits
    BY <2>1, SMT DEF AllBits
  <2>3. h["bits"] = to_hidl_bits_per_sample(c.bits)
    BY <1>2, SMT DEF to_hidl_aptx_config
  <2> QED BY <2>1, <2>2, <2>3, BitsAccepted, SMT
<1>5. /\ IsSingleBit(h["channelMode"], {"MONO", "STEREO"})
     /\ Within(h, "channelMode", {"STEREO"})
  <2>1. c.channelMode \in {"STEREO"} /\ c.channelMode \in {"MONO", "STEREO"}
    BY SMT DEF IsOffloadAptxHdConfigurationValid, ContainedInVector, kDefaultOffloadAptxHdCapability
  <2>2. h["channelMode"] = OnlyIn(c.channelMode, {"MONO", "STEREO"})
    BY <1>2, SMT DEF to_hidl_aptx_config, to_hidl_channel_mode
  <2> QED BY <2>1, <2>2, FieldAccepted, SMT
<1>6. h.tag = "aptx"
  BY <1>2, SMT DEF to_hidl_aptx_config
<1> QED BY <1>1, <1>3, <1>4, <1>5, <1>6, SMT DEF hidl_IsOffloadAptxHdConfigurationValid, h

\* The parameters of a codec, converted, are accepted by the HIDL session if they are
\* by the AIDL one.
LEMMA CodecConverted ==
    ASSUME NEW codecType, NEW c, IsOffloadCodecConfigurationValid(codecType, c), codecType # "OPUS",
           hidl_IsBitrateValid(c.bitrate)
    PROVE  hidl_IsOffloadCodecConfigurationValid(to_hidl_codec_type_2_0(codecType),
                                                 to_hidl_codec_config_2_0(c))
<1> DEFINE h == to_hidl_codec_config_2_0(c)
<1>1. codecType \in {"SBC", "AAC", "LDAC", "APTX", "APTX_HD"}
  BY SMT DEF IsOffloadCodecConfigurationValid
<1>2. to_hidl_codec_type_2_0(codecType) = codecType
  BY <1>1, SMT DEF to_hidl_codec_type_2_0
<1>3. h.bitrate = c.bitrate
  BY SMT DEF to_hidl_codec_config_2_0, to_hidl_sbc_config, to_hidl_aac_config, to_hidl_ldac_config,
             to_hidl_aptx_config
<1> USE DEF IsOffloadCodecConfigurationValid, hidl_IsOffloadCodecConfigurationValid
<1>4. CASE codecType = "SBC"
  BY <1>2, <1>3, <1>4, SbcConverted, SMT
<1>5. CASE codecType = "AAC"
  BY <1>2, <1>3, <1>5, AacConverted, SMT
<1>6. CASE codecType = "LDAC"
  BY <1>2, <1>3, <1>6, LdacConverted, SMT
<1>7. CASE codecType = "APTX"
  BY <1>2, <1>3, <1>7, AptxConverted, SMT
<1>8. CASE codecType = "APTX_HD"
  BY <1>2, <1>3, <1>8, AptxHdConverted, SMT
<1> QED BY <1>1, <1>4, <1>5, <1>6, <1>7, <1>8

\* A configuration that an AIDL session runs with is, converted, one for a HIDL session.
LEMMA HidlImplied == ProvidersInv => HidlAcceptsConverted
<1> SUFFICES ASSUME ProvidersInv, IsSessionReady PROVE HidlAcceptsConverted
  BY DEF HidlAcceptsConverted
<1> DEFINE c == session.audio_config_
           hidl == to_hidl_pcm_config_2_1(c)
<1>1. GetAudioConfig = c
  BY DEF GetAudioConfig
<1>2. ASSUME c.tag = "a2dpConfig", c.codecType # "OPUS", hidl_IsBitrateValid(c.specific.bitrate)
      PROVE  hidl_IsOffloadCodecConfigurationValid(to_hidl_codec_type_2_0(c.codecType),
                                                   to_hidl_codec_config_2_0(c.specific))
  <2>1. session_type \notin LeUnicastOffload
    BY <1>2, SMT DEF ProvidersInv, FollowInv, IsSessionReady
  <2>2. AcceptsOf(session_type, c)
    BY <2>1, SMT DEF ProvidersInv, FollowInv
  <2>3. A2dpOffloadAccepts(c)
    BY <1>2, <2>2, SMT DEF AcceptsOf, A2dpSoftwareAccepts, HearingAidAccepts, LeSoftwareAccepts,
                           HfpSoftwareAccepts, HfpOffloadAccepts
  <2>4. IsOffloadCodecConfigurationValid(c.codecType, c.specific)
    BY <1>2, <2>3, SMT DEF A2dpOffloadAccepts
  <2> QED BY <1>2, <2>4, CodecConverted, SMT
<1>3. ASSUME c.tag = "pcmConfig"
      PROVE  /\ c.rate \notin {8000, 32000} => IsSoftwarePcmConfigurationValid_2_0(hidl)
             /\ session_type \in LeSoftware /\ c.rate \notin {8000, 32000} =>
                   IsSoftwarePcmConfigurationValid_2_1(hidl)
  <2>1. session_type \notin LeUnicastOffload
    BY <1>3, SMT DEF ProvidersInv, FollowInv, IsSessionReady
  <2>2. AcceptsOf(session_type, c) /\ c \in Configurations /\ session_type \in Types
    BY <2>1, SMT DEF ProvidersInv, FollowInv, Shapes
  <2>3. session_type \in Software
    BY <1>3, <2>2, SMT DEF AcceptsOf, A2dpOffloadAccepts, HfpOffloadAccepts, Software, Types
  <2>4. IsSoftwarePcmConfigurationValid(c)
    BY <2>3, ReadyPcm, SMT
  <2>5. /\ hidl.rate = {c.rate} /\ hidl.channelMode = {c.channelMode} /\ hidl.bits = {c.bits}
        /\ hidl.interval = c.interval
    BY <2>4, PcmConverted, SMT DEF to_hidl_pcm_config_2_1
  <2>6. ASSUME c.rate \notin {8000, 32000} PROVE IsSoftwarePcmConfigurationValid_2_0(hidl)
    <3>1. c.rate \in {44100, 48000, 88200, 96000, 16000, 24000} /\ c.bits \in {16, 24, 32}
          /\ c.channelMode \in {"MONO", "STEREO"}
      BY <2>4, <2>6, PcmParameters, SMT
    <3> HIDE DEF hidl
    <3> QED BY <2>5, <3>1, SMT DEF IsSoftwarePcmConfigurationValid_2_0
  <2>7. session_type \in LeSoftware => hidl.interval # 0
    <3> SUFFICES ASSUME session_type \in LeSoftware PROVE c.interval # 0
      BY <2>5, SMT
    <3>1. LeSoftwareAccepts(c)
      BY <2>2, Classes, SMT DEF AcceptsOf
    <3>2. c.interval >= 1000
      BY <1>3, <2>2, <2>4, <3>1, AcceptedSize, SMT DEF LeSoftwareAccepts
    <3> QED BY <3>2, SMT
  <2> QED BY <2>6, <2>7, SMT DEF IsSoftwarePcmConfigurationValid_2_1
<1> HIDE DEF c
<1> QED BY <1>1, <1>2, <1>3, SMT DEF HidlAcceptsConverted

-----------------------------------------------------------------------------
(* The theorems *)

\* The invariant holds in every state, for any constants.
THEOREM ProvidersInvariant == Spec => []ProvidersInv
<1>1. ProvidersInv /\ [Next]_vars => ProvidersInv'
  BY ProvidersStep
<1> QED BY ProvidersInit, <1>1, PTL DEF Spec

\* startSession that says it went well leaves the session ready with what it was given,
\* if the queue can be mapped; an update of an offloaded unicast session reaches the ports.
THEOREM SessionFollows == Spec => []SessionFollowsProvider
<1>1. ProvidersInv => SessionFollowsProvider
  BY DEF ProvidersInv
<1> QED BY ProvidersInvariant, <1>1, PTL

\* Over any number of sessions, LOW_LATENCY is offered to the ports as the stack last said.
THEOREM LowLatencyOffered == Spec => []LowLatencyAgrees
BY ProvidersInvariant, LowLatencyImplied, PTL

\* What is advertised is accepted, the queues hold an interval, ports of both kinds tell
\* the audio HAL the same, and the HIDL session would take what the AIDL one runs with.
THEOREM ConfigurationsAgreed == Spec => []ConfigurationsAgree
<1>1. ProvidersInv => ConfigurationsAgree
  BY QueueImplied, PortsImplied, HidlImplied DEF ProvidersInv, ConfigurationsAgree
<1> QED BY ProvidersInvariant, <1>1, PTL

-----------------------------------------------------------------------------
(* Lists *)

\* A set of numbers that is not empty has a smallest one.
LEMMA LeastNumber ==
    ASSUME NEW T, T \subseteq Nat, T # {}
    PROVE  \E c \in T : \A d \in T : c <= d
<1>1. PICK c \in T : \A d \in T : ~ (<<d, c>> \in OpToRel(<, Nat))
  BY WFMin, NatLessThanWellFounded, ZenonT(30)
<1>2. ASSUME NEW d \in T PROVE c <= d
  <2>1. c \in Nat /\ d \in Nat
    OBVIOUS
  <2>2. ~ (d < c)
    BY <1>1, <2>1 DEF OpToRel
  <2> QED
    BY <2>1, <2>2
<1> QED
  BY <1>2

\* Induction up to a bound, on the set of the numbers a fact holds of.
LEMMA Upward ==
    ASSUME NEW N \in Nat, NEW T, 0 \in T, \A n \in 0 .. N : n \in T /\ n + 1 \in 0 .. N => n + 1 \in T
    PROVE  \A n \in 0 .. N : n \in T
<1> SUFFICES ASSUME NEW m \in 0 .. N, m \notin T PROVE FALSE
  OBVIOUS
<1> DEFINE U == {n \in 0 .. N : n \notin T}
<1>1. U \subseteq Nat /\ U # {}
  OBVIOUS
<1>2. PICK c \in U : \A d \in U : c <= d
  <2> HIDE DEF U
  <2> QED
    BY <1>1, LeastNumber
<1>3. c \in 1 .. N /\ c - 1 \in 0 .. N
  <2>1. c # 0
    OBVIOUS
  <2> QED
    BY <2>1
<1>4. c - 1 \in T
  BY <1>2, <1>3
<1> QED
  BY <1>3, <1>4

\* f starts with x0, and g makes each value of the one before it.
IsIterated(f, N, x0, g) == f = [n \in 0 .. N |-> IF n = 0 THEN x0 ELSE g[n][f[n - 1]]]

\* A function on 0 .. N may be defined by what its next value is made of.
LEMMA Iterated ==
    ASSUME NEW N \in Nat, NEW X, NEW x0 \in X, NEW g \in [1 .. N -> [X -> X]]
    PROVE  \E f \in [0 .. N -> X] : IsIterated(f, N, x0, g)
<1> DEFINE Has(k) == \E f \in [0 .. k -> X] :
                        f = [n \in 0 .. k |-> IF n = 0 THEN x0 ELSE g[n][f[n - 1]]]
           T == {k \in 0 .. N : Has(k)}
<1>1. 0 \in T
  <2>1. [n \in 0 .. 0 |-> x0] \in [0 .. 0 -> X]
    OBVIOUS
  <2>2. [n \in 0 .. 0 |-> x0] = [n \in 0 .. 0 |-> IF n = 0 THEN x0 ELSE g[n][[m \in 0 .. 0 |-> x0][n - 1]]]
    OBVIOUS
  <2>3. Has(0)
    <3> DEFINE h == [n \in 0 .. 0 |-> x0]
    <3>1. h \in [0 .. 0 -> X] /\ h = [n \in 0 .. 0 |-> IF n = 0 THEN x0 ELSE g[n][h[n - 1]]]
      BY <2>1, <2>2
    <3> HIDE DEF h
    <3> QED
      BY <3>1
  <2> QED
    BY <2>3
<1>2. ASSUME NEW k \in 0 .. N, k \in T, k + 1 \in 0 .. N PROVE k + 1 \in T
  <2>1. PICK f \in [0 .. k -> X] : f = [n \in 0 .. k |-> IF n = 0 THEN x0 ELSE g[n][f[n - 1]]]
    BY <1>2
  <2> DEFINE h == [n \in 0 .. k + 1 |-> IF n = k + 1 THEN g[k + 1][f[k]] ELSE f[n]]
  <2>2. g[k + 1] \in [X -> X] /\ f[k] \in X
    <3>1. k + 1 \in 1 .. N /\ k \in 0 .. k
      BY <1>2
    <3> QED
      BY <2>1, <3>1
  <2>3. h \in [0 .. k + 1 -> X]
    BY <2>2
  <2>4. ASSUME NEW n \in 0 .. k + 1
        PROVE  h[n] = IF n = 0 THEN x0 ELSE g[n][h[n - 1]]
    <3>1. CASE n = k + 1
      <4>1. n - 1 = k /\ n - 1 \in 0 .. k + 1 /\ n - 1 # k + 1 /\ n # 0
        BY <3>1
      <4>2. h[n - 1] = f[k] /\ h[n] = g[k + 1][f[k]]
        BY <3>1, <4>1
      <4> QED
        BY <3>1, <4>1, <4>2
    <3>2. CASE n \in 0 .. k
      <4>1. n # k + 1 /\ h[n] = f[n]
        BY <3>2
      <4>2. f[n] = IF n = 0 THEN x0 ELSE g[n][f[n - 1]]
        BY <2>1, <3>2
      <4>3. n # 0 => h[n - 1] = f[n - 1]
        BY <3>2
      <4> QED
        BY <4>1, <4>2, <4>3
    <3> QED
      BY <3>1, <3>2
  <2>5. h = [n \in 0 .. k + 1 |-> IF n = 0 THEN x0 ELSE g[n][h[n - 1]]]
    <3>1. DOMAIN h = 0 .. k + 1 /\ h = [n \in 0 .. k + 1 |-> h[n]]
      OBVIOUS
    <3> HIDE DEF h
    <3> QED
      BY <2>4, <3>1
  <2>6. Has(k + 1)
    <3> HIDE DEF h
    <3> QED
      BY <2>3, <2>5
  <2> QED
    BY <1>2, <2>6
<1>3. \A k \in 0 .. N : k \in T
  <2> HIDE DEF T
  <2> QED
    BY <1>1, <1>2, Upward
<1> QED
  BY <1>3 DEF IsIterated

\* The recursive function of Keep: what it keeps of the first elements.
Kept(s, S) ==
    CHOOSE kept : kept = [n \in 0 .. Len(s) |->
       IF n = 0 THEN <<>> ELSE IF s[n] \in S THEN Append(kept[n - 1], s[n]) ELSE kept[n - 1]]

\* What is appended is an element more.
LEMMA AppendRange ==
    ASSUME NEW X, NEW q \in Seq(X), NEW x \in X
    PROVE  Range(Append(q, x)) = Range(q) \cup {x}
<1> DEFINE p == Append(q, x)
<1>1. /\ Len(q) \in Nat /\ DOMAIN q = 1 .. Len(q) /\ DOMAIN p = 1 .. Len(q) + 1
      /\ \A i \in 1 .. Len(q) : p[i] = q[i]
      /\ p[Len(q) + 1] = x
  OBVIOUS
<1> HIDE DEF p
<1>2. Range(p) \subseteq Range(q) \cup {x}
  <2> SUFFICES ASSUME NEW i \in DOMAIN p PROVE p[i] \in Range(q) \cup {x}
    BY DEF Range
  <2>1. i \in 1 .. Len(q) \/ i = Len(q) + 1
    BY <1>1
  <2> QED
    BY <1>1, <2>1 DEF Range
<1>3. x \in Range(p)
  BY <1>1 DEF Range
<1>4. ASSUME NEW i \in DOMAIN q PROVE q[i] \in Range(p)
  <2>1. i \in DOMAIN p /\ p[i] = q[i]
    BY <1>1
  <2> QED
    BY <2>1 DEF Range
<1> QED
  BY <1>2, <1>3, <1>4 DEF p, Range

\* Keep keeps the elements of a list that are in a set.
LEMMA KeepRange ==
    ASSUME NEW X, NEW s \in Seq(X), NEW S
    PROVE  /\ Keep(s, S) \in Seq(X)
           /\ Range(Keep(s, S)) = Range(s) \cap S
<1> DEFINE N == Len(s)
           f == Kept(s, S)
           Of(k) == IF k = 0 THEN <<>>
                    ELSE IF s[k] \in S THEN Append(f[k - 1], s[k]) ELSE f[k - 1]
           g == [n \in 1 .. N |-> [q \in Seq(X) |-> IF s[n] \in S THEN Append(q, s[n]) ELSE q]]
<1>0. N \in Nat /\ \A n \in 1 .. N : s[n] \in X
  OBVIOUS
<1>1. f = [n \in 0 .. N |-> Of(n)]
  <2>1. g \in [1 .. N -> [Seq(X) -> Seq(X)]] /\ <<>> \in Seq(X)
    BY <1>0
  <2>2. PICK h \in [0 .. N -> Seq(X)] : h = [n \in 0 .. N |-> IF n = 0 THEN <<>> ELSE g[n][h[n - 1]]]
    <3> DEFINE e == <<>>
    <3>1. N \in Nat /\ e \in Seq(X) /\ g \in [1 .. N -> [Seq(X) -> Seq(X)]]
      BY <1>0, <2>1
    <3> HIDE DEF g, N, e
    <3>2. \E h \in [0 .. N -> Seq(X)] : IsIterated(h, N, e, g)
      BY <3>1, Iterated
    <3> QED
      BY <3>2 DEF e, IsIterated
  <2>3. ASSUME NEW n \in 0 .. N
        PROVE  h[n] = IF n = 0 THEN <<>>
                      ELSE IF s[n] \in S THEN Append(h[n - 1], s[n]) ELSE h[n - 1]
    <3>1. CASE n = 0
      BY <2>2, <3>1
    <3>2. CASE n # 0
      <4>1. n \in 1 .. N /\ n - 1 \in 0 .. N
        BY <3>2
      <4>2. h[n] = g[n][h[n - 1]] /\ h[n - 1] \in Seq(X)
        <5> HIDE DEF g
        <5> QED
          BY <2>2, <3>2, <4>1
      <4>3. g[n][h[n - 1]] = IF s[n] \in S THEN Append(h[n - 1], s[n]) ELSE h[n - 1]
        BY <4>1, <4>2
      <4> HIDE DEF g
      <4> QED
        BY <3>2, <4>2, <4>3
    <3> QED
      BY <3>1, <3>2
  <2>4. h = [n \in 0 .. N |-> IF n = 0 THEN <<>>
                      ELSE IF s[n] \in S THEN Append(h[n - 1], s[n]) ELSE h[n - 1]]
    <3>1. h = [n \in 0 .. N |-> h[n]]
      OBVIOUS
    <3> QED
      BY <2>3, <3>1
  <2> QED
    BY <2>4 DEF Kept
<1>2. Keep(s, S) = f[N]
  BY DEF Keep, Kept
<1>3. \A n \in 0 .. N : f[n] = Of(n)
  <2> HIDE DEF f
  <2> QED
    BY <1>1
<1> HIDE DEF f
<1> DEFINE T == {n \in 0 .. N : /\ f[n] \in Seq(X)
                                /\ Range(f[n]) = {s[i] : i \in 1 .. n} \cap S}
<1>4. 0 \in T
  <2>1. f[0] = <<>>
    BY <1>0, <1>3
  <2>2. Range(<<>>) = {} /\ {s[i] : i \in 1 .. 0} = {} /\ <<>> \in Seq(X)
    BY DEF Range
  <2>3. f[0] \in Seq(X) /\ Range(f[0]) = {s[i] : i \in 1 .. 0} \cap S
    BY <2>1, <2>2
  <2> QED
    BY <1>0, <2>3
<1>5. ASSUME NEW n \in 0 .. N, n \in T, n + 1 \in 0 .. N PROVE n + 1 \in T
  <2>1. f[n + 1] = IF s[n + 1] \in S THEN Append(f[n], s[n + 1]) ELSE f[n]
    <3>1. (n + 1) - 1 = n /\ n + 1 # 0
      OBVIOUS
    <3> QED
      BY <1>3, <1>5, <3>1
  <2>2. s[n + 1] \in X /\ {s[i] : i \in 1 .. n + 1} = {s[i] : i \in 1 .. n} \cup {s[n + 1]}
    BY <1>0, <1>5
  <2>3. CASE s[n + 1] \in S
    <3>1. f[n + 1] = Append(f[n], s[n + 1]) /\ f[n] \in Seq(X)
      BY <1>5, <2>1, <2>3
    <3>2. Range(Append(f[n], s[n + 1])) = Range(f[n]) \cup {s[n + 1]}
      BY <2>2, <3>1, AppendRange
    <3>3. f[n + 1] \in Seq(X) /\ Range(f[n + 1]) = ({s[i] : i \in 1 .. n} \cap S) \cup {s[n + 1]}
      BY <1>5, <2>2, <3>1, <3>2
    <3>4. Range(f[n + 1]) = {s[i] : i \in 1 .. n + 1} \cap S
      BY <2>2, <2>3, <3>3
    <3> QED
      BY <1>5, <3>3, <3>4
  <2>4. CASE s[n + 1] \notin S
    <3>1. f[n + 1] = f[n]
      BY <2>1, <2>4
    <3> QED
      BY <1>5, <2>2, <2>4, <3>1
  <2> QED
    BY <2>3, <2>4
<1>6. N \in T
  <2> HIDE DEF T, N
  <2>1. N \in Nat
    BY <1>0
  <2>2. \A n \in 0 .. N : n \in T /\ n + 1 \in 0 .. N => n + 1 \in T
    BY <1>5
  <2>3. \A n \in 0 .. N : n \in T
    BY <1>4, <2>1, <2>2, Upward
  <2> QED
    BY <2>1, <2>3
<1> QED
  BY <1>0, <1>2, <1>6 DEF Range

\* What two lists hold together.
LEMMA ConcatRange ==
    ASSUME NEW X, NEW a \in Seq(X), NEW b \in Seq(X)
    PROVE  Range(a \o b) = Range(a) \cup Range(b)
<1> DEFINE p == a \o b
<1>1. /\ Len(a) \in Nat /\ Len(b) \in Nat /\ DOMAIN a = 1 .. Len(a) /\ DOMAIN b = 1 .. Len(b)
      /\ DOMAIN p = 1 .. Len(a) + Len(b)
      /\ \A i \in 1 .. Len(a) + Len(b) : p[i] = IF i <= Len(a) THEN a[i] ELSE b[i - Len(a)]
  OBVIOUS
<1> HIDE DEF p
<1>2. ASSUME NEW i \in DOMAIN p PROVE p[i] \in Range(a) \cup Range(b)
  <2>1. CASE i <= Len(a)
    <3>1. i \in DOMAIN a /\ p[i] = a[i]
      BY <1>1, <2>1
    <3> QED
      BY <3>1 DEF Range
  <2>2. CASE ~ (i <= Len(a))
    <3>1. i - Len(a) \in DOMAIN b /\ p[i] = b[i - Len(a)]
      BY <1>1, <2>2
    <3> QED
      BY <3>1 DEF Range
  <2> QED
    BY <2>1, <2>2
<1>3. ASSUME NEW i \in DOMAIN a PROVE a[i] \in Range(p)
  <2>1. i \in DOMAIN p /\ p[i] = a[i]
    BY <1>1
  <2> QED
    BY <2>1 DEF Range
<1>4. ASSUME NEW i \in DOMAIN b PROVE b[i] \in Range(p)
  <2>1. i + Len(a) \in DOMAIN p /\ p[i + Len(a)] = b[i]
    BY <1>1
  <2> QED
    BY <2>1 DEF Range
<1> QED
  BY <1>2, <1>3, <1>4 DEF p, Range

\* The recursive function of FlattenSeq: the first lists, one after the other.
Flattened(q) ==
    CHOOSE flatten : flatten = [i \in 1 .. Len(q) |-> IF i = 1 THEN q[i] ELSE flatten[i - 1] \o q[i]]

\* A list of lists, flattened, holds what any of them holds.
LEMMA FlattenRange ==
    ASSUME NEW X, NEW q \in Seq(Seq(X))
    PROVE  /\ FlattenSeq(q) \in Seq(X)
           /\ Range(FlattenSeq(q)) = UNION {Range(q[i]) : i \in DOMAIN q}
<1> DEFINE N == Len(q)
           f == Flattened(q)
<1>0. N \in Nat /\ DOMAIN q = 1 .. N /\ \A n \in 1 .. N : q[n] \in Seq(X)
  OBVIOUS
<1>1. CASE N = 0
  <2>1. q = <<>> /\ DOMAIN q = {} /\ FlattenSeq(q) = q
    BY <1>0, <1>1 DEF FlattenSeq
  <2>2. <<>> \in Seq(X) /\ Range(<<>>) = {} /\ UNION {Range(q[i]) : i \in {}} = {}
    BY DEF Range
  <2> QED
    BY <2>1, <2>2
<1>2. CASE N # 0
  <2> DEFINE g == [n \in 1 .. N |-> [p \in Seq(X) |-> p \o q[n]]]
             e == <<>>
  <2>1. g \in [1 .. N -> [Seq(X) -> Seq(X)]] /\ e \in Seq(X)
    BY <1>0
  <2>2. PICK h \in [0 .. N -> Seq(X)] : IsIterated(h, N, e, g)
    <3> HIDE DEF g, N, e
    <3> QED
      BY <1>0, <2>1, Iterated
  <2>3. ASSUME NEW n \in 1 .. N PROVE h[n] = IF n = 1 THEN q[n] ELSE h[n - 1] \o q[n]
    <3>1. n \in 0 .. N /\ n - 1 \in 0 .. N /\ n # 0
      OBVIOUS
    <3>2. h[n] = g[n][h[n - 1]] /\ h[n - 1] \in Seq(X)
      <4> HIDE DEF g
      <4> QED
        BY <2>2, <3>1 DEF IsIterated
    <3>3. g[n][h[n - 1]] = h[n - 1] \o q[n]
      BY <3>2
    <3>4. CASE n = 1
      <4>1. h[0] = <<>>
        <5> HIDE DEF g
        <5> QED
          BY <1>0, <2>2 DEF IsIterated
      <4>2. <<>> \o q[n] = q[n]
        BY <1>0
      <4>3. n - 1 = 0
        BY <3>4
      <4> HIDE DEF g
      <4>4. h[n] = <<>> \o q[n]
        BY <3>2, <3>3, <4>1, <4>3
      <4> QED
        BY <3>4, <4>2, <4>4
    <3> HIDE DEF g
    <3> QED
      BY <3>2, <3>3, <3>4
  <2> DEFINE k == [n \in 1 .. N |-> h[n]]
  <2>4. ASSUME NEW n \in 1 .. N PROVE k[n] = IF n = 1 THEN q[n] ELSE k[n - 1] \o q[n]
    <3>1. n # 1 => n - 1 \in 1 .. N /\ k[n - 1] = h[n - 1]
      OBVIOUS
    <3> QED
      BY <2>3, <3>1
  <2>5. k = [n \in 1 .. N |-> IF n = 1 THEN q[n] ELSE k[n - 1] \o q[n]]
    <3>1. k = [n \in 1 .. N |-> k[n]]
      OBVIOUS
    <3> HIDE DEF k
    <3> QED
      BY <2>4, <3>1
  <2>6. f = [n \in 1 .. N |-> IF n = 1 THEN q[n] ELSE f[n - 1] \o q[n]]
    <3> HIDE DEF k
    <3> QED
      BY <2>5 DEF Flattened
  <2>7. FlattenSeq(q) = f[N]
    BY <1>2 DEF FlattenSeq, Flattened
  <2>8. \A n \in 1 .. N : f[n] = IF n = 1 THEN q[n] ELSE f[n - 1] \o q[n]
    <3> HIDE DEF f
    <3> QED
      BY <2>6
  <2> HIDE DEF f
  <2> DEFINE U(n) == UNION {Range(q[i]) : i \in 1 .. n}
             T == {n \in 0 .. N : n # 0 => f[n] \in Seq(X) /\ Range(f[n]) = U(n)}
  <2>9. 0 \in T
    BY <1>0
  <2>10. ASSUME NEW n \in 0 .. N, n \in T, n + 1 \in 0 .. N PROVE n + 1 \in T
    <3>1. n + 1 \in 1 .. N /\ n + 1 # 0 /\ q[n + 1] \in Seq(X)
      BY <1>0, <2>10
    <3>2. CASE n = 0
      <4>1. f[n + 1] = q[n + 1]
        BY <2>8, <3>1, <3>2
      <4>2. UNION {Range(q[i]) : i \in 1 .. n + 1} = Range(q[n + 1])
        <5>1. 1 .. n + 1 = {n + 1}
          BY <3>2
        <5> QED
          BY <5>1
      <4> QED
        BY <3>1, <4>1, <4>2
    <3>3. CASE n # 0
      <4>1. f[n + 1] = f[n] \o q[n + 1]
        <5>1. (n + 1) - 1 = n /\ n + 1 # 1
          BY <3>3
        <5> QED
          BY <2>8, <3>1, <5>1
      <4>2. f[n] \in Seq(X) /\ Range(f[n]) = U(n)
        BY <2>10, <3>3
      <4>3. f[n + 1] \in Seq(X) /\ Range(f[n + 1]) = Range(f[n]) \cup Range(q[n + 1])
        BY <3>1, <4>1, <4>2, ConcatRange
      <4>4. U(n + 1) = U(n) \cup Range(q[n + 1])
        <5>1. 1 .. n + 1 = 1 .. n \cup {n + 1}
          OBVIOUS
        <5> QED
          BY <5>1
      <4>5. Range(f[n + 1]) = U(n + 1)
        <5> HIDE DEF U
        <5> QED
          BY <4>2, <4>3, <4>4
      <4> QED
        BY <2>10, <4>3, <4>5
    <3> QED
      BY <3>2, <3>3
  <2>11. N \in T
    <3> HIDE DEF T, N
    <3>1. N \in Nat
      BY <1>0
    <3>2. \A n \in 0 .. N : n \in T
      BY <2>9, <2>10, <3>1, Upward
    <3> QED
      BY <3>1, <3>2
  <2> QED
    BY <1>0, <1>2, <2>7, <2>11
<1> QED
  BY <1>1, <1>2

\* SelectInSeq: none, or the first that passes.
LEMMA FirstIndex ==
    ASSUME NEW N \in Nat, NEW I \in SUBSET (1 .. N), I # {}
    PROVE  Min(I) \in I /\ \A j \in I : Min(I) <= j
<1>1. I \subseteq Nat
  OBVIOUS
<1>2. \E c \in I : \A d \in I : c =< d
  BY <1>1, LeastNumber
<1> QED
  BY <1>2 DEF Min

\* What is made of a list element by element is a list.
LEMMA MapIsList ==
    ASSUME NEW X, NEW s \in Seq(X), NEW f, DOMAIN f = DOMAIN s, f = [i \in DOMAIN f |-> f[i]]
    PROVE  f \in Seq(Range(f))
<1>1. Len(s) \in Nat /\ DOMAIN f = 1 .. Len(s)
  OBVIOUS
<1>2. \A i \in 1 .. Len(s) : f[i] \in Range(f)
  BY <1>1 DEF Range
<1> QED BY <1>1, <1>2

\* A list backwards holds what it holds forwards.
LEMMA ReverseRange ==
    ASSUME NEW X, NEW s \in Seq(X)
    PROVE  Reverse(s) \in Seq(X) /\ Range(Reverse(s)) \subseteq Range(s)
<1>1. Len(s) \in Nat /\ DOMAIN s = 1 .. Len(s) /\ \A i \in 1 .. Len(s) : s[i] \in X
  OBVIOUS
<1>2. \A i \in 1 .. Len(s) : (Len(s) - i) + 1 \in 1 .. Len(s)
  BY <1>1
<1>3. DOMAIN Reverse(s) = 1 .. Len(s) /\ \A i \in 1 .. Len(s) : Reverse(s)[i] = s[(Len(s) - i) + 1]
  BY DEF Reverse
<1>4. Reverse(s) = [i \in 1 .. Len(s) |-> Reverse(s)[i]]
  BY DEF Reverse
<1>5. Reverse(s) \in Seq(X)
  BY <1>1, <1>2, <1>3, <1>4
<1>6. Range(Reverse(s)) \subseteq Range(s)
  BY <1>1, <1>2, <1>3 DEF Range
<1> QED BY <1>5, <1>6

\* A list of lists made of a list, flattened.
LEMMA FlatMap ==
    ASSUME NEW X, NEW Y, NEW s \in Seq(Y), NEW q, DOMAIN q = DOMAIN s, q = [i \in DOMAIN q |-> q[i]],
           \A i \in DOMAIN q : q[i] \in Seq(X)
    PROVE  /\ FlattenSeq(q) \in Seq(X)
           /\ \A x : x \in Range(FlattenSeq(q)) <=> \E i \in DOMAIN q : x \in Range(q[i])
<1>1. q \in Seq(Seq(X))
  <2>1. Len(s) \in Nat /\ DOMAIN q = 1 .. Len(s)
    OBVIOUS
  <2>2. q \in [1 .. Len(s) -> Seq(X)]
    BY <2>1
  <2> QED BY <2>1, <2>2
<1>2. FlattenSeq(q) \in Seq(X) /\ Range(FlattenSeq(q)) = UNION {Range(q[i]) : i \in DOMAIN q}
  BY <1>1, FlattenRange
<1> QED BY <1>2

\* What a table says of every pair of two lists, one after the other.
Pairs(R) == FlattenSeq([i \in DOMAIN R |-> FlattenSeq(R[i])])

\* A table of lists.
Table(R, a, b, X) == R \in [DOMAIN a -> [DOMAIN b -> Seq(X)]]

\* It is a list, of what the table says of some pair.
LEMMA FlatPairs ==
    ASSUME NEW X, NEW A, NEW a \in Seq(A), NEW B, NEW b \in Seq(B), NEW R, Table(R, a, b, X)
    PROVE  /\ Pairs(R) \in Seq(X)
           /\ \A x : x \in Range(Pairs(R)) <=> \E i \in DOMAIN a, k \in DOMAIN b : x \in Range(R[i][k])
<1> DEFINE q == [i \in DOMAIN R |-> FlattenSeq(R[i])]
<1>0. R \in [DOMAIN a -> [DOMAIN b -> Seq(X)]]
  BY DEF Table
<1>1. ASSUME NEW i \in DOMAIN a
      PROVE  /\ FlattenSeq(R[i]) \in Seq(X)
             /\ \A x : x \in Range(FlattenSeq(R[i])) <=> \E k \in DOMAIN b : x \in Range(R[i][k])
  <2>1. R[i] \in [DOMAIN b -> Seq(X)]
    BY <1>0
  <2>2. DOMAIN R[i] = DOMAIN b /\ R[i] = [k \in DOMAIN R[i] |-> R[i][k]]
        /\ \A k \in DOMAIN R[i] : R[i][k] \in Seq(X)
    BY <2>1
  <2> QED BY <2>2, FlatMap
<1>2. DOMAIN q = DOMAIN a /\ q = [i \in DOMAIN q |-> q[i]] /\ \A i \in DOMAIN q : q[i] = FlattenSeq(R[i])
  BY <1>0
<1>3. /\ FlattenSeq(q) \in Seq(X)
      /\ \A x : x \in Range(FlattenSeq(q)) <=> \E i \in DOMAIN q : x \in Range(q[i])
  <2> HIDE DEF q
  <2> QED BY <1>1, <1>2, FlatMap
<1> HIDE DEF q
<1>4. ASSUME NEW x
      PROVE  x \in Range(FlattenSeq(q)) <=> \E i \in DOMAIN a, k \in DOMAIN b : x \in Range(R[i][k])
  <2>1. \A i \in DOMAIN a : x \in Range(q[i]) <=> \E k \in DOMAIN b : x \in Range(R[i][k])
    BY <1>1, <1>2
  <2>2. x \in Range(FlattenSeq(q)) <=> \E i \in DOMAIN a : x \in Range(q[i])
    BY <1>2, <1>3
  <2> QED BY <2>1, <2>2
<1> QED BY <1>3, <1>4 DEF q, Pairs

-----------------------------------------------------------------------------
(* The codec that is offered for A2DP *)

\* Reading a bit field that has one bit.
LEMMA ActiveBit == ASSUME NEW v PROVE find_active_bit({v}) = v /\ Cardinality({v}) = 1
<1>1. Cardinality({v}) = 1
  BY FS_Singleton
<1> QED BY <1>1 DEF find_active_bit

\* A field that is selected is empty, or has one value that both sides have.
LEMMA Selected ==
    ASSUME NEW X, NEW preferred \in Seq(X), NEW local, NEW remote, Select(preferred, local, remote) # {}
    PROVE  \E v \in local \cap remote : Select(preferred, local, remote) = {v}
<1> DEFINE I == {i \in 1 .. Len(preferred) : preferred[i] \in local \cap remote}
           k == SelectInSeq(preferred, LAMBDA v : v \in local \cap remote)
<1>1. k = IF I # {} THEN Min(I) ELSE 0
  BY DEF SelectInSeq
<1>2. CASE I = {}
  BY <1>1, <1>2 DEF Select
<1>3. CASE I # {}
  <2>1. Min(I) \in I
    <3>1. Len(preferred) \in Nat /\ I \in SUBSET (1 .. Len(preferred))
      OBVIOUS
    <3> HIDE DEF I
    <3> QED BY <1>3, <3>1, FirstIndex
  <2>2. k \in 1 .. Len(preferred) /\ preferred[k] \in local \cap remote
    <3> HIDE DEF k
    <3> QED BY <1>1, <1>3, <2>1
  <2>3. Select(preferred, local, remote) = {preferred[k]}
    <3>1. k # 0
      <4> HIDE DEF k
      <4> QED BY <2>2
    <3> QED BY <3>1 DEF Select
  <2> HIDE DEF k
  <2> QED BY <2>2, <2>3
<1> QED BY <1>2, <1>3

\* With a hint in front it is still a list.
LEMMA HintFirstIsList ==
    ASSUME NEW X, NEW preferred \in Seq(X), NEW value, NEW given \in BOOLEAN
    PROVE  HintFirst(value, given, preferred) \in Seq(X \cup {value})
<1>1. preferred \in Seq(X \cup {value}) /\ <<value>> \in Seq(X \cup {value})
  OBVIOUS
<1>2. <<value>> \o preferred \in Seq(X \cup {value})
  BY <1>1
<1>3. HintFirst(value, given, preferred) \in {preferred, <<value>> \o preferred}
  BY DEF HintFirst
<1> QED BY <1>1, <1>2, <1>3

\* A list of checks that all pass.
AllPass(checks) == checks \in Seq(Range(checks)) /\ \A c \in Range(checks) : c[1]

\* None of them is the first to fail.
LEMMA PassedIsOk == ASSUME NEW checks, AllPass(checks) PROVE FirstFailure(checks) = "OK"
<1>1. {i \in 1 .. Len(checks) : ~checks[i][1]} = {}
  <2>1. \A i \in 1 .. Len(checks) : checks[i] \in Range(checks)
    BY DEF AllPass, Range
  <2> QED BY <2>1 DEF AllPass
<1>2. SelectInSeq(checks, LAMBDA c : ~c[1]) = 0
  BY <1>1 DEF SelectInSeq
<1> QED BY <1>2 DEF FirstFailure

\* Checks that pass, one after another.
LEMMA PassBoth ==
    ASSUME NEW a, NEW b, AllPass(a), AllPass(b) PROVE AllPass(a \o b)
<1> DEFINE X == Range(a) \cup Range(b)
<1>1. a \in Seq(X) /\ b \in Seq(X)
  <2>1. Seq(Range(a)) \subseteq Seq(X) /\ Seq(Range(b)) \subseteq Seq(X)
    OBVIOUS
  <2> QED BY <2>1 DEF AllPass
<1>2. a \o b \in Seq(X) /\ Range(a \o b) = X
  BY <1>1, ConcatRange
<1> QED BY <1>2 DEF AllPass

\* One check that passes.
LEMMA PassOne == ASSUME NEW x, x[1] PROVE AllPass(<<x>>)
<1>1. <<x>> \in Seq({x}) /\ DOMAIN <<x>> = {1} /\ <<x>>[1] = x
  OBVIOUS
<1>2. Range(<<x>>) = {x}
  BY <1>1 DEF Range
<1> QED BY <1>1, <1>2 DEF AllPass

\* Two of them.
LEMMA PassTwo == ASSUME NEW x, x[1], NEW y, y[1] PROVE AllPass(<<x, y>>)
<1>1. <<x, y>> \in Seq({x, y}) /\ DOMAIN <<x, y>> = {1, 2} /\ <<x, y>>[1] = x /\ <<x, y>>[2] = y
  OBVIOUS
<1>2. Range(<<x, y>>) = {x, y}
  BY <1>1 DEF Range
<1> QED BY <1>1, <1>2 DEF AllPass

\* Four of them.
LEMMA PassFour ==
    ASSUME NEW a, a[1], NEW b, b[1], NEW c, c[1], NEW d, d[1] PROVE AllPass(<<a, b, c, d>>)
<1> DEFINE s == <<a, b, c, d>>
<1>1. s \in Seq({a, b, c, d}) /\ DOMAIN s = {1, 2, 3, 4} /\ s[1] = a /\ s[2] = b /\ s[3] = c /\ s[4] = d
  OBVIOUS
<1> HIDE DEF s
<1>2. Range(s) = {a, b, c, d}
  BY <1>1 DEF Range
<1>3. AllPass(s)
  BY <1>1, <1>2 DEF AllPass
<1> QED BY <1>3 DEF s

\* The two checks of a field that has one value, which the local side has as well.
LEMMA FieldPasses ==
    ASSUME NEW local, NEW v \in local, v # NoBit, NEW invalid, NEW unsupported
    PROVE  AllPass(FieldChecks({v}, local, invalid, unsupported))
<1>1. find_active_bit({v}) # NoBit /\ find_active_bit({v}) \in local
  BY ActiveBit
<1> QED BY <1>1, PassTwo DEF FieldChecks

\* An SBC configuration of values that both sides have, with bitpools within the range.
SbcAgreed(c, caps) ==
    /\ \E v \in SbcLocal.freq \cap caps.freq : c.freq = {v}
    /\ \E v \in SbcLocal.mode \cap caps.mode : c.mode = {v}
    /\ \E v \in SbcLocal.blocks \cap caps.blocks : c.blocks = {v}
    /\ \E v \in SbcLocal.subbands \cap caps.subbands : c.subbands = {v}
    /\ \E v \in SbcLocal.alloc \cap caps.alloc : c.alloc = {v}

\* It is one that parses.
LEMMA SbcParses ==
    ASSUME NEW c, NEW caps, SbcAgreed(c, caps), c.min \in 2 .. 250, c.max \in 2 .. 250
    PROVE  ParseSbc(c, SbcLocal) = "OK"
<1>1. AllPass(FieldChecks(c.freq, SbcLocal.freq, "INVALID_SAMPLING_FREQUENCY",
                          "NOT_SUPPORTED_SAMPLING_FREQUENCY"))
  <2>1. PICK v \in SbcLocal.freq : v # NoBit /\ c.freq = {v}
    BY BitAssumption DEF SbcAgreed, SbcLocal
  <2> QED BY <2>1, FieldPasses
<1>2. AllPass(FieldChecks(c.mode, SbcLocal.mode, "INVALID_CHANNEL_MODE", "NOT_SUPPORTED_CHANNEL_MODE"))
  <2>1. PICK v \in SbcLocal.mode : v # NoBit /\ c.mode = {v}
    BY BitAssumption DEF SbcAgreed, SbcLocal
  <2> QED BY <2>1, FieldPasses
<1>3. AllPass(<< <<find_active_bit(c.blocks) # NoBit, "INVALID_BLOCK_LENGTH">> >>)
  <2>1. PICK v \in SbcLocal.blocks : v # NoBit /\ c.blocks = {v}
    BY BitAssumption DEF SbcAgreed, SbcLocal
  <2>2. find_active_bit(c.blocks) # NoBit
    BY <2>1, ActiveBit
  <2> QED BY <2>2, PassOne
<1>4. AllPass(FieldChecks(c.subbands, SbcLocal.subbands, "INVALID_SUBBANDS", "NOT_SUPPORTED_SUBBANDS"))
  <2>1. PICK v \in SbcLocal.subbands : v # NoBit /\ c.subbands = {v}
    BY BitAssumption DEF SbcAgreed, SbcLocal
  <2> QED BY <2>1, FieldPasses
<1>5. AllPass(FieldChecks(c.alloc, SbcLocal.alloc, "INVALID_ALLOCATION_METHOD",
                          "NOT_SUPPORTED_ALLOCATION_METHOD"))
  <2>1. PICK v \in SbcLocal.alloc : v # NoBit /\ c.alloc = {v}
    BY BitAssumption DEF SbcAgreed, SbcLocal
  <2> QED BY <2>1, FieldPasses
<1> DEFINE p1 == <<InBitpoolRange(c.min), "INVALID_MINIMUM_BITPOOL_VALUE">>
           p2 == <<c.min >= SbcLocal.min, "NOT_SUPPORTED_MINIMUM_BITPOOL_VALUE">>
           p3 == <<InBitpoolRange(c.max), "INVALID_MAXIMUM_BITPOOL_VALUE">>
           p4 == <<c.max <= SbcLocal.max, "NOT_SUPPORTED_MAXIMUM_BITPOOL_VALUE">>
<1>6. /\ InBitpoolRange(c.min) \in BOOLEAN /\ InBitpoolRange(c.min)
      /\ InBitpoolRange(c.max) \in BOOLEAN /\ InBitpoolRange(c.max)
      /\ c.min >= SbcLocal.min /\ c.max <= SbcLocal.max
  BY DEF InBitpoolRange, SbcLocal
<1>7. p1[1] /\ p2[1] /\ p3[1] /\ p4[1]
  BY <1>6
<1>8. AllPass(<<p1, p2, p3, p4>>)
  <2> HIDE DEF p1, p2, p3, p4
  <2> QED BY <1>7, PassFour
<1> QED BY <1>1, <1>2, <1>3, <1>4, <1>5, <1>8, PassBoth, PassedIsOk DEF ParseSbc

\* The bits that the search tries, and the recursive function of the search: what it has
\* found after so many of them.
Bits == <<128, 64, 32, 16, 8, 4, 2, 1>>
Searched(c, bitrate) ==
    CHOOSE search : search = [i \in 0 .. 8 |->
       IF i = 0 THEN 0
       ELSE LET b == search[i - 1] + <<128, 64, 32, 16, 8, 4, 2, 1>>[i]
            IN  IF bitrate > GetBitrate(c, b) THEN b ELSE search[i - 1]]

\* A bitpool whose bitrate stays below the hint.
Goes(c, bitrate, b) == bitrate > GetBitrate(c, b)

\* The steps of the binary search.
LEMMA SearchSteps ==
    ASSUME NEW c, NEW bitrate
    PROVE  /\ GetBitpool(c, bitrate) = Clamp(Searched(c, bitrate)[8])
           /\ Searched(c, bitrate)[0] = 0
           /\ \A i \in 1 .. 8 : Searched(c, bitrate)[i] =
                 IF Goes(c, bitrate, Searched(c, bitrate)[i - 1] + Bits[i])
                 THEN Searched(c, bitrate)[i - 1] + Bits[i] ELSE Searched(c, bitrate)[i - 1]
<1> DEFINE f == Searched(c, bitrate)
           g == [n \in 1 .. 8 |-> [q \in Nat |-> IF Goes(c, bitrate, q + Bits[n]) THEN q + Bits[n] ELSE q]]
<1>0. \A n \in 1 .. 8 : Bits[n] \in Nat
  BY DEF Bits
<1>1. g \in [1 .. 8 -> [Nat -> Nat]]
  BY <1>0
<1>2. PICK h \in [0 .. 8 -> Nat] : IsIterated(h, 8, 0, g)
  <2> HIDE DEF g
  <2> QED BY <1>1, Iterated
<1>3. ASSUME NEW i \in 0 .. 8
      PROVE  h[i] = IF i = 0 THEN 0
                    ELSE IF Goes(c, bitrate, h[i - 1] + Bits[i]) THEN h[i - 1] + Bits[i] ELSE h[i - 1]
  <2>1. CASE i = 0
    BY <1>2, <2>1 DEF IsIterated
  <2>2. CASE i # 0
    <3>1. i \in 1 .. 8 /\ i - 1 \in 0 .. 8 /\ h[i - 1] \in Nat
      BY <2>2
    <3>2. h[i] = g[i][h[i - 1]]
      <4> HIDE DEF g
      <4> QED BY <1>2, <2>2 DEF IsIterated
    <3> QED BY <2>2, <3>1, <3>2
  <2> QED BY <2>1, <2>2
<1>4. h = [i \in 0 .. 8 |-> IF i = 0 THEN 0
                    ELSE IF Goes(c, bitrate, h[i - 1] + Bits[i]) THEN h[i - 1] + Bits[i] ELSE h[i - 1]]
  <2>1. h = [i \in 0 .. 8 |-> h[i]]
    OBVIOUS
  <2> QED BY <1>3, <2>1
<1>5. f = [i \in 0 .. 8 |-> IF i = 0 THEN 0
                    ELSE IF Goes(c, bitrate, f[i - 1] + Bits[i]) THEN f[i - 1] + Bits[i] ELSE f[i - 1]]
  BY <1>4 DEF Searched, Goes, Bits
<1>6. GetBitpool(c, bitrate) = Clamp(f[8])
  BY DEF GetBitpool, Searched
<1> HIDE DEF f
<1>7. f[0] = 0
  BY <1>5
<1>8. \A i \in 1 .. 8 : f[i] = IF Goes(c, bitrate, f[i - 1] + Bits[i]) THEN f[i - 1] + Bits[i] ELSE f[i - 1]
  BY <1>5
<1> QED BY <1>6, <1>7, <1>8 DEF f

\* The search goes through numbers of bits: each of its eight steps adds one, or does not.
LEMMA SearchIsNat ==
    ASSUME NEW c, NEW bitrate, NEW i \in 0 .. 8 PROVE Searched(c, bitrate)[i] \in Nat
<1> DEFINE f == Searched(c, bitrate)
           T == {n \in 0 .. 8 : f[n] \in Nat}
<1>1. 0 \in T
  BY SearchSteps
<1>2. ASSUME NEW n \in 0 .. 8, n \in T, n + 1 \in 0 .. 8 PROVE n + 1 \in T
  <2>1. n + 1 \in 1 .. 8 /\ (n + 1) - 1 = n
    BY <1>2
  <2>2. f[n + 1] \in {f[n] + Bits[n + 1], f[n]}
    BY <2>1, SearchSteps
  <2>3. Bits[n + 1] \in Nat
    BY <2>1 DEF Bits
  <2> HIDE DEF f
  <2> QED BY <1>2, <2>2, <2>3
<1> HIDE DEF T
<1>3. \A n \in 0 .. 8 : n \in T
  BY <1>1, <1>2, Upward
<1> QED BY <1>3 DEF T

\* A bitpool is always one that SBC allows.
LEMMA BitpoolInRange == ASSUME NEW c, NEW bitrate PROVE GetBitpool(c, bitrate) \in 2 .. 250
<1>1. Searched(c, bitrate)[8] \in Nat
  BY SearchIsNat
<1> QED BY <1>1, SearchSteps DEF Clamp, Smaller, Larger

\* Fields that are all set are agreed on.
LEMMA SbcFieldsAgreed ==
    ASSUME NEW caps, NEW hint, hint.given \in BOOLEAN,
           SbcFields(caps, hint).freq # {}, SbcFields(caps, hint).mode # {},
           SbcFields(caps, hint).blocks # {}, SbcFields(caps, hint).subbands # {},
           SbcFields(caps, hint).alloc # {}
    PROVE  SbcAgreed(SbcFields(caps, hint), caps)
<1> DEFINE c == SbcFields(caps, hint)
           first(value, l) == HintFirst(value, hint.given, l)
           freqs == <<44100, 48000>>
           modes == <<"JOINT", "STEREO", "DUAL", "MONO">>
           allocs == <<"LOUDNESS", "SNR">>
           blocks == <<16, 12, 8, 4>>
           subbands == <<8, 4>>
<1>1. /\ freqs \in Seq({44100, 48000}) /\ modes \in Seq({"JOINT", "STEREO", "DUAL", "MONO"})
      /\ allocs \in Seq({"LOUDNESS", "SNR"}) /\ blocks \in Seq(Int) /\ subbands \in Seq(Int)
  OBVIOUS
<1>2. /\ c.freq = Select(first(SbcFrequencyBit(hint.freq), freqs), SbcLocal.freq, caps.freq)
      /\ c.mode = Select(first(SbcModeBit(hint.mode), modes), SbcLocal.mode, caps.mode)
      /\ c.blocks = Select(blocks, SbcLocal.blocks, caps.blocks)
      /\ c.subbands = Select(subbands, SbcLocal.subbands, caps.subbands)
      /\ c.alloc = Select(allocs, SbcLocal.alloc, caps.alloc)
  BY DEF SbcFields
<1> HIDE DEF freqs, modes, allocs, blocks, subbands
<1>3. \A X, l, v : l \in Seq(X) => first(v, l) \in Seq(X \cup {v})
  BY HintFirstIsList
<1> HIDE DEF c, first
<1>4. \E v \in SbcLocal.freq \cap caps.freq : c.freq = {v}
  <2>1. PICK X : freqs \in Seq(X)
    BY <1>1
  <2>2. first(SbcFrequencyBit(hint.freq), freqs) \in Seq(X \cup {SbcFrequencyBit(hint.freq)})
    BY <1>3, <2>1
  <2> QED BY <1>2, <2>2, Selected DEF c
<1>5. \E v \in SbcLocal.mode \cap caps.mode : c.mode = {v}
  <2>1. PICK X : modes \in Seq(X)
    BY <1>1
  <2>2. first(SbcModeBit(hint.mode), modes) \in Seq(X \cup {SbcModeBit(hint.mode)})
    BY <1>3, <2>1
  <2> QED BY <1>2, <2>2, Selected DEF c
<1>6. \E v \in SbcLocal.blocks \cap caps.blocks : c.blocks = {v}
  BY <1>1, <1>2, Selected DEF c
<1>7. \E v \in SbcLocal.subbands \cap caps.subbands : c.subbands = {v}
  BY <1>1, <1>2, Selected DEF c
<1>8. \E v \in SbcLocal.alloc \cap caps.alloc : c.alloc = {v}
  BY <1>1, <1>2, Selected DEF c
<1> QED BY <1>4, <1>5, <1>6, <1>7, <1>8 DEF SbcAgreed, c

\* An SBC configuration that was built has the values that were agreed on.
LEMMA SbcIsAgreed ==
    ASSUME NEW caps, caps.min \in Nat, caps.max \in Nat,
           NEW hint, hint.given \in BOOLEAN, hint.min \in Int, hint.max \in Int,
           SbcBuilt(BuildSbc(caps, hint))
    PROVE  /\ SbcAgreed(BuildSbc(caps, hint), caps)
           /\ BuildSbc(caps, hint).min \in 2 .. 250 /\ BuildSbc(caps, hint).max \in 2 .. 250
           /\ DOMAIN BuildSbc(caps, hint) = {"freq", "mode", "blocks", "subbands", "alloc", "min", "max"}
           /\ SbcAgreed(SbcFields(caps, hint), caps) /\ Lowest(caps) \in 2 .. 250
           /\ BuildSbc(caps, hint).min =
                 IF hint.given THEN Larger(Lowest(caps), GetBitpool(SbcFields(caps, hint), hint.min))
                 ELSE Lowest(caps)
           /\ BuildSbc(caps, hint).max =
                 IF Limits(hint) THEN GetBitpool(SbcFields(caps, hint), hint.max) ELSE 250
           /\ \A b : GetBitrate(BuildSbc(caps, hint), b) = GetBitrate(SbcFields(caps, hint), b)
<1> DEFINE c == SbcFields(caps, hint)
           min == Larger(RemoteBitpool(caps)[1], SbcLocal.min)
           max == Larger(RemoteBitpool(caps)[2], SbcLocal.max)
           config(lo, hi) == [freq |-> c.freq, mode |-> c.mode, blocks |-> c.blocks,
                              subbands |-> c.subbands, alloc |-> c.alloc, min |-> lo, max |-> hi]
           B == BuildSbc(caps, hint)
           lo == IF hint.given THEN Larger(min, GetBitpool(c, hint.min)) ELSE min
           hi == IF hint.given /\ hint.max # 0 /\ hint.max >= hint.min
                 THEN Smaller(max, GetBitpool(c, hint.max)) ELSE max
<1>1. B = IF \E f \in DOMAIN c : c[f] = {} THEN config(0, 0)
          ELSE IF hint.given
          THEN config(Larger(min, GetBitpool(c, hint.min)),
                      IF hint.max # 0 /\ hint.max >= hint.min
                      THEN Smaller(max, GetBitpool(c, hint.max)) ELSE max)
          ELSE config(min, max)
  BY DEF BuildSbc
<1>2. ~ \E f \in DOMAIN c : c[f] = {}
  <2> SUFFICES ASSUME \E f \in DOMAIN c : c[f] = {} PROVE FALSE
    OBVIOUS
  <2> HIDE DEF B, c, min, max
  <2>1. B = config(0, 0)
    BY <1>1
  <2>2. B.min = 0
    BY <2>1
  <2> QED BY <2>2 DEF SbcBuilt, B
<1>3. B = config(lo, hi)
  <2> HIDE DEF B, c, min, max
  <2>1. CASE hint.given
    <3> HIDE DEF config
    <3> QED BY <1>1, <1>2, <2>1
  <2>2. CASE ~hint.given
    <3> HIDE DEF config
    <3> QED BY <1>1, <1>2, <2>2
  <2> QED BY <2>1, <2>2
<1>4. /\ B.freq = c.freq /\ B.mode = c.mode /\ B.blocks = c.blocks /\ B.subbands = c.subbands
      /\ B.alloc = c.alloc /\ B.min = lo /\ B.max = hi
      /\ DOMAIN B = {"freq", "mode", "blocks", "subbands", "alloc", "min", "max"}
  <2> HIDE DEF B, c, lo, hi
  <2> QED BY <1>3
<1>5. lo \in 2 .. 250 /\ hi \in 2 .. 250
  <2>1. GetBitpool(c, hint.min) \in 2 .. 250 /\ GetBitpool(c, hint.max) \in 2 .. 250
    BY BitpoolInRange
  <2>2. min \in 2 .. 250 /\ max \in 2 .. 250
    <3>1. RemoteBitpool(caps)[1] \in 2 .. 250 /\ RemoteBitpool(caps)[2] \in 2 .. 250
      BY DEF RemoteBitpool, InBitpoolRange
    <3> QED BY <3>1 DEF Larger, SbcLocal
  <2> HIDE DEF c, min, max
  <2> QED BY <2>1, <2>2 DEF Larger, Smaller
<1>6. c.freq # {} /\ c.mode # {} /\ c.blocks # {} /\ c.subbands # {} /\ c.alloc # {}
  <2>1. {"freq", "mode", "blocks", "subbands", "alloc"} \subseteq DOMAIN c
    BY DEF SbcFields
  <2> HIDE DEF c
  <2> QED BY <1>2, <2>1
<1>7. SbcAgreed(c, caps)
  BY <1>6, SbcFieldsAgreed
<1>9. Lowest(caps) \in 2 .. 250 /\ min = Lowest(caps) /\ max = 250
  BY DEF RemoteBitpool, InBitpoolRange, Lowest, Larger, SbcLocal
<1>10. lo = IF hint.given THEN Larger(Lowest(caps), GetBitpool(c, hint.min)) ELSE Lowest(caps)
  <2> HIDE DEF c, min
  <2> QED BY <1>9
<1>11. hi = IF Limits(hint) THEN GetBitpool(c, hint.max) ELSE 250
  <2>1. GetBitpool(c, hint.max) \in 2 .. 250
    BY BitpoolInRange
  <2> HIDE DEF c, max
  <2> QED BY <1>9, <2>1 DEF Limits, Smaller
<1>12. ASSUME NEW b PROVE GetBitrate(B, b) = GetBitrate(c, b)
  <2> HIDE DEF B, c, lo, hi
  <2> QED BY <1>4 DEF GetBitrate, GetFrameSize
<1> HIDE DEF B, c, lo, hi
<1>8. SbcAgreed(B, caps)
  BY <1>4, <1>7 DEF SbcAgreed
<1> QED BY <1>4, <1>5, <1>7, <1>8, <1>9, <1>10, <1>11, <1>12 DEF B, c

\* An AAC configuration of values that both sides have.
AacAgreed(c, caps) ==
    /\ \E v \in AacLocal.object \cap caps.object : c.object = {v}
    /\ \E v \in AacLocal.freq \cap caps.freq : c.freq = {v}
    /\ \E v \in AacLocal.channels \cap caps.channels : c.channels = {v}

\* It is one that parses.
LEMMA AacParses == ASSUME NEW c, NEW caps, AacAgreed(c, caps) PROVE ParseAac(c, AacLocal) = "OK"
<1>1. AllPass(FieldChecks(c.object, AacLocal.object, "INVALID_OBJECT_TYPE", "NOT_SUPPORTED_OBJECT_TYPE"))
  <2>1. PICK v \in AacLocal.object : v # NoBit /\ c.object = {v}
    BY BitAssumption DEF AacAgreed, AacLocal
  <2> QED BY <2>1, FieldPasses
<1>2. AllPass(FieldChecks(c.freq, AacLocal.freq, "INVALID_SAMPLING_FREQUENCY",
                          "NOT_SUPPORTED_SAMPLING_FREQUENCY"))
  <2>1. PICK v \in AacLocal.freq : v # NoBit /\ c.freq = {v}
    BY BitAssumption DEF AacAgreed, AacLocal
  <2> QED BY <2>1, FieldPasses
<1>3. AllPass(FieldChecks(c.channels, AacLocal.channels, "INVALID_CHANNELS", "NOT_SUPPORTED_CHANNELS"))
  <2>1. PICK v \in AacLocal.channels : v # NoBit /\ c.channels = {v}
    BY BitAssumption DEF AacAgreed, AacLocal
  <2> QED BY <2>1, FieldPasses
<1> DEFINE p1 == <<c.vbr => AacLocal.vbr, "NOT_SUPPORTED_VBR">>
           p2 == <<c.vbr /\ AacLocal.bitrate # 0 => c.bitrate <= AacLocal.bitrate, "NOT_SUPPORTED_BIT_RATE">>
<1>4. p1[1] /\ p2[1]
  <2>1. AacLocal.vbr = TRUE /\ AacLocal.bitrate = 0
    BY DEF AacLocal
  <2>2. (c.vbr => AacLocal.vbr) = TRUE
    BY <2>1
  <2>3. (c.vbr /\ AacLocal.bitrate # 0 => c.bitrate <= AacLocal.bitrate) = TRUE
    BY <2>1
  <2>4. p1 = <<TRUE, "NOT_SUPPORTED_VBR">>
    BY <2>2
  <2>5. p2 = <<TRUE, "NOT_SUPPORTED_BIT_RATE">>
    BY <2>3
  <2> HIDE DEF p1, p2
  <2> QED BY <2>4, <2>5
<1>5. AllPass(<<p1, p2>>)
  <2> HIDE DEF p1, p2
  <2> QED BY <1>4, PassTwo
<1> QED BY <1>1, <1>2, <1>3, <1>5, PassBoth, PassedIsOk DEF ParseAac

\* An AAC configuration that was built has the values that were agreed on.
LEMMA AacIsAgreed ==
    ASSUME NEW caps, NEW hint, hint.given \in BOOLEAN, AacBuilt(BuildAac(caps, hint))
    PROVE  /\ AacAgreed(BuildAac(caps, hint), caps)
           /\ DOMAIN BuildAac(caps, hint) = {"object", "freq", "channels", "vbr", "bitrate"}
<1> DEFINE c == BuildAac(caps, hint)
           first(value, l) == HintFirst(value, hint.given, l)
           objects == <<"MPEG2_LC", "MPEG4_LC">>
           freqs == <<96000, 88200, 48000, 44100>>
           channels == <<2, 1>>
<1>1. objects \in Seq({"MPEG2_LC", "MPEG4_LC"}) /\ freqs \in Seq(Int) /\ channels \in Seq(Int)
  OBVIOUS
<1>2. /\ c.object = Select(objects, AacLocal.object, caps.object)
      /\ c.freq = Select(first(AacFrequencyBit(hint.freq), freqs), AacLocal.freq, caps.freq)
      /\ c.channels = Select(first(AacChannelsBit(hint.mode), channels), AacLocal.channels, caps.channels)
      /\ DOMAIN c = {"object", "freq", "channels", "vbr", "bitrate"}
  BY DEF BuildAac
<1> HIDE DEF objects, freqs, channels
<1>3. \A X, l, v : l \in Seq(X) => first(v, l) \in Seq(X \cup {v})
  BY HintFirstIsList
<1> HIDE DEF c, first
<1>4. c.object # {} /\ c.freq # {} /\ c.channels # {}
  BY DEF AacBuilt, c
<1>5. \E v \in AacLocal.object \cap caps.object : c.object = {v}
  BY <1>1, <1>2, <1>4, Selected
<1>6. \E v \in AacLocal.freq \cap caps.freq : c.freq = {v}
  <2>1. first(AacFrequencyBit(hint.freq), freqs) \in Seq(Int \cup {AacFrequencyBit(hint.freq)})
    BY <1>1, <1>3
  <2> QED BY <1>2, <1>4, <2>1, Selected
<1>7. \E v \in AacLocal.channels \cap caps.channels : c.channels = {v}
  <2>1. first(AacChannelsBit(hint.mode), channels) \in Seq(Int \cup {AacChannelsBit(hint.mode)})
    BY <1>1, <1>3
  <2> QED BY <1>2, <1>4, <2>1, Selected
<1> QED BY <1>2, <1>5, <1>6, <1>7 DEF AacAgreed, c

\* Dividing by a number of samples keeps the order.
LEMMA DivideKeepsOrder ==
    ASSUME NEW x \in Nat, NEW y \in Nat, x <= y, NEW d \in {8, 16, 32, 48, 64, 96, 128}
    PROVE  x \div d \in Nat /\ y \div d \in Nat /\ x \div d <= y \div d
OBVIOUS

\* The values of the fields that the bitrate depends on.
LEMMA SbcActive ==
    ASSUME NEW c, NEW caps, SbcAgreed(c, caps)
    PROVE  /\ find_active_bit(c.freq) \in {44100, 48000} /\ find_active_bit(c.blocks) \in {4, 8, 12, 16}
           /\ find_active_bit(c.subbands) \in {4, 8}
<1> DEFINE Fs == {44100, 48000}
           Ns == {4, 8, 12, 16}
           Ms == {4, 8}
<1>1. (\E x \in Fs : c.freq = {x}) /\ (\E x \in Ns : c.blocks = {x}) /\ (\E x \in Ms : c.subbands = {x})
  BY DEF SbcAgreed, SbcLocal
<1> HIDE DEF Fs, Ns, Ms
<1>2. find_active_bit(c.freq) \in Fs
  BY <1>1, ActiveBit
<1>3. find_active_bit(c.blocks) \in Ns
  BY <1>1, ActiveBit
<1>4. find_active_bit(c.subbands) \in Ms
  BY <1>1, ActiveBit
<1> QED BY <1>2, <1>3, <1>4 DEF Fs, Ns, Ms

\* The bitrate of a configuration grows with the bitpool.
LEMMA BitrateGrows ==
    ASSUME NEW c, NEW caps, SbcAgreed(c, caps), NEW a \in Nat, NEW b \in Nat, a <= b
    PROVE  GetBitrate(c, a) \in Nat /\ GetBitrate(c, b) \in Nat /\ GetBitrate(c, a) <= GetBitrate(c, b)
<1> DEFINE F == find_active_bit(c.freq)
           N == find_active_bit(c.blocks)
           M == find_active_bit(c.subbands)
           base == (4 * M) * (IF "MONO" \in c.mode THEN 1 ELSE 2) + (IF "JOINT" \in c.mode THEN M ELSE 0)
           k == IF "DUAL" \in c.mode THEN 2 ELSE 1
           bits(x) == (4 * M) * (IF "MONO" \in c.mode THEN 1 ELSE 2) + (N * x) * k
                        + (IF "JOINT" \in c.mode THEN M ELSE 0)
<1>1. F \in {44100, 48000} /\ N \in {4, 8, 12, 16} /\ M \in {4, 8}
  BY SbcActive
<1>2. /\ \A x : GetFrameSize(c, x) = 4 + (bits(x) + 7) \div 8
      /\ \A x : GetBitrate(c, x) = (8 * GetFrameSize(c, x) * F) \div (N * M)
  BY DEF GetFrameSize, GetBitrate
<1>3. bits(a) \in Nat /\ bits(b) \in Nat /\ bits(a) <= bits(b)
  <2> HIDE DEF N, M
  <2>1. base \in Nat /\ k \in {1, 2}
    BY <1>1
  <2>2. N * a \in Nat /\ N * b \in Nat /\ N * a <= N * b
    BY <1>1
  <2>3. (N * a) * k \in Nat /\ (N * b) * k \in Nat /\ (N * a) * k <= (N * b) * k
    <3> HIDE DEF k
    <3> QED BY <2>1, <2>2
  <2>4. (4 * M) * (IF "MONO" \in c.mode THEN 1 ELSE 2) \in Nat /\ (IF "JOINT" \in c.mode THEN M ELSE 0) \in Nat
    BY <1>1
  <2> QED BY <2>3, <2>4
<1> HIDE DEF bits
<1>4. /\ GetFrameSize(c, a) \in Nat /\ GetFrameSize(c, b) \in Nat
      /\ GetFrameSize(c, a) <= GetFrameSize(c, b)
  <2>1. bits(a) + 7 \in Nat /\ bits(b) + 7 \in Nat /\ bits(a) + 7 <= bits(b) + 7
    BY <1>3
  <2>2. /\ (bits(a) + 7) \div 8 \in Nat /\ (bits(b) + 7) \div 8 \in Nat
        /\ (bits(a) + 7) \div 8 <= (bits(b) + 7) \div 8
    BY <2>1, DivideKeepsOrder
  <2> QED BY <1>2, <2>2
<1> DEFINE s == GetFrameSize(c, a)
           t == GetFrameSize(c, b)
<1> HIDE DEF F, N, M, s, t
<1>5. 8 * s * F \in Nat /\ 8 * t * F \in Nat /\ 8 * s * F <= 8 * t * F
  BY <1>1, <1>4 DEF s, t
<1>6. N * M \in {16, 32, 48, 64, 96, 128}
  BY <1>1
<1>7. /\ (8 * s * F) \div (N * M) \in Nat /\ (8 * t * F) \div (N * M) \in Nat
      /\ (8 * s * F) \div (N * M) <= (8 * t * F) \div (N * M)
  BY <1>5, <1>6, DivideKeepsOrder
<1> QED BY <1>2, <1>7 DEF s, t

\* What the binary search ends at: no larger number goes, and it does, unless it is 0.
LEMMA SearchFinds ==
    ASSUME NEW c, NEW bitrate,
           \A a, b \in Nat : a <= b /\ Goes(c, bitrate, b) => Goes(c, bitrate, a)
    PROVE  LET s == Searched(c, bitrate)[8]
           IN  /\ s \in 0 .. 255 /\ (s # 0 => Goes(c, bitrate, s))
               /\ \A b \in 0 .. 255 : b > s => ~Goes(c, bitrate, b)
<1> DEFINE f == Searched(c, bitrate)
           J(n, w) == /\ n \in Nat /\ n + w <= 256 /\ (n # 0 => Goes(c, bitrate, n))
                      /\ \A b \in 0 .. 255 : b >= n + w => ~Goes(c, bitrate, b)
<1>1. ASSUME NEW n \in Nat, NEW m, NEW w \in Nat \ {0}, J(n, w + w),
             m = IF Goes(c, bitrate, n + w) THEN n + w ELSE n
      PROVE  J(m, w)
  <2>1. CASE Goes(c, bitrate, n + w)
    <3>1. m = n + w /\ m \in Nat /\ m + w = n + (w + w)
      BY <1>1, <2>1
    <3> QED BY <1>1, <2>1, <3>1
  <2>2. CASE ~Goes(c, bitrate, n + w)
    <3>1. m = n /\ n + w <= 256
      BY <1>1, <2>2
    <3>2. ASSUME NEW b \in 0 .. 255, b >= n + w PROVE ~Goes(c, bitrate, b)
      BY <2>2, <3>2
    <3> QED BY <1>1, <3>1, <3>2
  <2> QED BY <2>1, <2>2
<1>2. f[0] = 0 /\ \A i \in 1 .. 8 : f[i] = IF Goes(c, bitrate, f[i - 1] + Bits[i])
                                           THEN f[i - 1] + Bits[i] ELSE f[i - 1]
  BY SearchSteps
<1>3. \A i \in 0 .. 8 : f[i] \in Nat
  BY SearchIsNat
<1>4. /\ Bits[1] = 128 /\ Bits[2] = 64 /\ Bits[3] = 32 /\ Bits[4] = 16 /\ Bits[5] = 8 /\ Bits[6] = 4
      /\ Bits[7] = 2 /\ Bits[8] = 1
  BY DEF Bits
<1> HIDE DEF f
<1>5. J(f[0], 256)
  BY <1>2
<1>6. \A i \in 1 .. 8 : \A w \in Nat \ {0} : Bits[i] = w /\ J(f[i - 1], w + w) => J(f[i], w)
  <2> SUFFICES ASSUME NEW i \in 1 .. 8, NEW w \in Nat \ {0}, Bits[i] = w, J(f[i - 1], w + w)
               PROVE  J(f[i], w)
    OBVIOUS
  <2>1. f[i - 1] \in Nat
    BY <1>3
  <2>2. f[i] = IF Goes(c, bitrate, f[i - 1] + w) THEN f[i - 1] + w ELSE f[i - 1]
    BY <1>2
  <2> HIDE DEF J
  <2> QED BY <1>1, <2>1, <2>2
<1> HIDE DEF J
<1>7. J(f[1], 128)
  BY <1>4, <1>5, <1>6
<1>8. J(f[2], 64)
  BY <1>4, <1>6, <1>7
<1>9. J(f[3], 32)
  BY <1>4, <1>6, <1>8
<1>10. J(f[4], 16)
  BY <1>4, <1>6, <1>9
<1>11. J(f[5], 8)
  BY <1>4, <1>6, <1>10
<1>12. J(f[6], 4)
  BY <1>4, <1>6, <1>11
<1>13. J(f[7], 2)
  BY <1>4, <1>6, <1>12
<1>14. J(f[8], 1)
  BY <1>4, <1>6, <1>13
<1>15. /\ f[8] \in Nat /\ f[8] + 1 <= 256 /\ (f[8] # 0 => Goes(c, bitrate, f[8]))
       /\ \A b \in 0 .. 255 : b >= f[8] + 1 => ~Goes(c, bitrate, b)
  BY <1>14 DEF J
<1>16. f[8] \in 0 .. 255 /\ \A b \in 0 .. 255 : b > f[8] => ~Goes(c, bitrate, b)
  <2>1. f[8] \in 0 .. 255
    BY <1>15
  <2>2. ASSUME NEW b \in 0 .. 255, b > f[8] PROVE ~Goes(c, bitrate, b)
    <3>1. b >= f[8] + 1
      BY <1>15, <2>2
    <3> QED BY <1>15, <3>1
  <2> QED BY <2>1, <2>2
<1> QED BY <1>15, <1>16 DEF f

\* Around the bitpool that the search answers, the bitrates pass the one asked for.
LEMMA BitpoolBounds ==
    ASSUME NEW c, NEW caps, SbcAgreed(c, caps), NEW bitrate \in Int
    PROVE  /\ GetBitpool(c, bitrate) \in 2 .. 250
           /\ \A b \in 2 .. 250 :
                 /\ GetBitrate(c, b) \in Nat
                 /\ b > GetBitpool(c, bitrate) => GetBitrate(c, b) >= bitrate
                 /\ b <= GetBitpool(c, bitrate) => b = 2 \/ GetBitrate(c, b) < bitrate
                 /\ b < GetBitpool(c, bitrate) => GetBitrate(c, b) < bitrate
<1> DEFINE s == Searched(c, bitrate)[8]
           p == GetBitpool(c, bitrate)
<1>1. \A b \in Nat : GetBitrate(c, b) \in Nat
  BY BitrateGrows
<1>2. \A b \in Nat : Goes(c, bitrate, b) <=> GetBitrate(c, b) < bitrate
  BY <1>1 DEF Goes
<1>3. \A a, b \in Nat : a <= b /\ Goes(c, bitrate, b) => Goes(c, bitrate, a)
  BY <1>1, <1>2, BitrateGrows
<1>4. /\ s \in 0 .. 255 /\ (s # 0 => Goes(c, bitrate, s))
      /\ \A b \in 0 .. 255 : b > s => ~Goes(c, bitrate, b)
  BY <1>3, SearchFinds
<1>5. p = Clamp(s) /\ p \in 2 .. 250
  BY SearchSteps, BitpoolInRange
<1> HIDE DEF s, p
<1>6. ASSUME NEW b \in 2 .. 250, b <= s PROVE Goes(c, bitrate, b)
  <2>1. s \in Nat /\ s # 0 /\ b \in Nat
    BY <1>4, <1>6
  <2>2. Goes(c, bitrate, s)
    BY <1>4, <2>1
  <2> QED BY <1>3, <1>6, <2>1, <2>2
<1>7. ASSUME NEW b \in 2 .. 250
      PROVE  (b > p <=> b # 2 /\ b > s) /\ (b < p => b < s)
  BY <1>4, <1>5 DEF Clamp, Smaller, Larger
<1>8. ASSUME NEW b \in 2 .. 250
      PROVE  /\ GetBitrate(c, b) \in Nat
             /\ b > p => GetBitrate(c, b) >= bitrate
             /\ b <= p => b = 2 \/ GetBitrate(c, b) < bitrate
             /\ b < p => GetBitrate(c, b) < bitrate
  <2>1. GetBitrate(c, b) \in Nat /\ (Goes(c, bitrate, b) <=> GetBitrate(c, b) < bitrate)
    BY <1>1, <1>2
  <2>2. CASE b > s
    <3>1. ~Goes(c, bitrate, b)
      BY <1>4, <2>2
    <3> QED BY <1>4, <1>5, <1>7, <2>1, <2>2, <3>1
  <2>3. CASE b <= s
    BY <1>4, <1>5, <1>6, <1>7, <2>1, <2>3
  <2> QED BY <1>4, <2>2, <2>3
<1> QED BY <1>5, <1>8 DEF p

\* The bitpools that are offered follow the remote device and the hint.
LEMMA BitpoolsFollow ==
    ASSUME NEW caps, caps.min \in Nat, caps.max \in Nat,
           NEW hint, hint.given \in BOOLEAN, hint.min \in Int, hint.max \in Int,
           SbcBuilt(BuildSbc(caps, hint))
    PROVE  BitpoolsOffered(BuildSbc(caps, hint), caps, hint)
<1> DEFINE B == BuildSbc(caps, hint)
           c == SbcFields(caps, hint)
           p == GetBitpool(c, hint.min)
           q == GetBitpool(c, hint.max)
           L == Lowest(caps)
<1>1. /\ SbcAgreed(c, caps) /\ L \in 2 .. 250
      /\ B.min = IF hint.given THEN Larger(L, p) ELSE L
      /\ B.max = IF Limits(hint) THEN q ELSE 250
      /\ \A b : GetBitrate(B, b) = GetBitrate(c, b)
  BY SbcIsAgreed
<1>2. /\ p \in 2 .. 250
      /\ \A b \in 2 .. 250 : /\ GetBitrate(c, b) \in Nat
                             /\ b > p => GetBitrate(c, b) >= hint.min
                             /\ b <= p => b = 2 \/ GetBitrate(c, b) < hint.min
                             /\ b < p => GetBitrate(c, b) < hint.min
  <2> HIDE DEF c
  <2>1. SbcAgreed(c, caps)
    BY <1>1
  <2> QED BY <2>1, BitpoolBounds
<1>3. /\ q \in 2 .. 250
      /\ \A b \in 2 .. 250 : /\ b > q => GetBitrate(c, b) >= hint.max
                             /\ b <= q => b = 2 \/ GetBitrate(c, b) < hint.max
  <2> HIDE DEF c
  <2>1. SbcAgreed(c, caps)
    BY <1>1
  <2> QED BY <2>1, BitpoolBounds
<1> HIDE DEF B, c, p, q, L
<1>4. B.min \in 2 .. 250 /\ B.max \in 2 .. 250 /\ L <= B.min
  BY <1>1, <1>2, <1>3 DEF Larger
<1>5. ASSUME NEW b \in 2 .. 250
      PROVE  /\ hint.given /\ b < B.min /\ L <= b => GetBitrate(B, b) < hint.min
             /\ hint.given /\ b > B.min => GetBitrate(B, b) >= hint.min
             /\ ~hint.given => B.min = L
             /\ Limits(hint) => (b > B.max <=> b # 2 /\ GetBitrate(B, b) >= hint.max)
             /\ ~Limits(hint) => b <= B.max
  <2>1. GetBitrate(B, b) = GetBitrate(c, b) /\ GetBitrate(c, b) \in Nat
    BY <1>1, <1>2
  <2>2. /\ hint.given /\ b < B.min /\ L <= b => GetBitrate(B, b) < hint.min
        /\ hint.given /\ b > B.min => GetBitrate(B, b) >= hint.min
        /\ ~hint.given => B.min = L
    BY <1>1, <1>2, <2>1 DEF Larger
  <2>3. /\ Limits(hint) => (b > B.max <=> b # 2 /\ GetBitrate(B, b) >= hint.max)
        /\ ~Limits(hint) => b <= B.max
    BY <1>1, <1>3, <2>1
  <2> QED BY <2>2, <2>3
<1>6. ASSUME B.min > B.max PROVE Limits(hint) /\ B.min = L
  <2>1. Limits(hint) /\ B.max = q /\ hint.given /\ hint.max >= hint.min
    BY <1>1, <1>4, <1>6 DEF Limits
  <2>2. p <= q
    <3> SUFFICES ASSUME p > q PROVE FALSE
      BY <1>2, <1>3
    <3>1. GetBitrate(c, p) \in Nat /\ GetBitrate(c, p) >= hint.max
      BY <1>2, <1>3
    <3>2. p = 2 \/ GetBitrate(c, p) < hint.min
      BY <1>2
    <3> QED BY <1>2, <1>3, <2>1, <3>1, <3>2
  <2>3. B.min = Larger(L, p)
    BY <1>1, <2>1
  <2> QED BY <1>1, <1>2, <1>3, <1>6, <2>1, <2>2, <2>3 DEF Larger
<1> QED BY <1>4, <1>5, <1>6 DEF BitpoolsOffered, B, L

\* The capability that counts is one of the remote device, with the codec's name.
LEMMA RemoteIsNamed ==
    ASSUME NEW X, NEW remote \in Seq(X), NEW codec, RemoteOf(codec, remote) # 0
    PROVE  remote[RemoteOf(codec, remote)] \in Range(remote) /\ remote[RemoteOf(codec, remote)].id = codec
<1> DEFINE I == {i \in 1 .. Len(remote) : remote[i].id = codec}
           k == RemoteOf(codec, remote)
<1>1. k = IF I # {} THEN Min(I) ELSE 0
  BY DEF RemoteOf, SelectInSeq
<1>2. Len(remote) \in Nat /\ DOMAIN remote = 1 .. Len(remote)
  OBVIOUS
<1>3. I \in SUBSET (1 .. Len(remote)) /\ I # {}
  BY <1>1
<1>4. k \in I
  <2> HIDE DEF I, k
  <2> QED BY <1>1, <1>2, <1>3, FirstIndex
<1> HIDE DEF k
<1> QED BY <1>2, <1>4 DEF k, Range

\* An answer is none, or the configuration of a codec that can be offered.
LEMMA AnswerIsOffer ==
    ASSUME NEW X, NEW order \in Seq(X), NEW remote, NEW hint
    PROVE  LET a == GetConfiguration(order, remote, hint)
           IN  \/ a = [id |-> "none"]
               \/ \E k \in X : /\ Offers(k, remote, hint)
                               /\ a = [id |-> k, config |->
                                         Build(k, remote[RemoteOf(k, remote)].caps, hint)]
<1> DEFINE I == {i \in 1 .. Len(order) : Offers(order[i], remote, hint)}
           n == SelectInSeq(order, LAMBDA k : Offers(k, remote, hint))
           a == GetConfiguration(order, remote, hint)
<1>1. n = IF I # {} THEN Min(I) ELSE 0
  BY DEF SelectInSeq
<1>2. a = IF n = 0 THEN [id |-> "none"]
          ELSE [id |-> order[n], config |-> Build(order[n], remote[RemoteOf(order[n], remote)].caps, hint)]
  BY DEF GetConfiguration
<1>3. Len(order) \in Nat /\ I \in SUBSET (1 .. Len(order))
  OBVIOUS
<1>4. CASE n = 0
  BY <1>2, <1>4
<1>5. CASE n # 0
  <2>1. n \in I
    <3> HIDE DEF I, n
    <3> QED BY <1>1, <1>3, <1>5, FirstIndex
  <2>2. order[n] \in X /\ Offers(order[n], remote, hint)
    <3> HIDE DEF n
    <3> QED BY <2>1
  <2> HIDE DEF n, a
  <2>3. \E k \in X : /\ Offers(k, remote, hint)
                     /\ a = [id |-> k, config |-> Build(k, remote[RemoteOf(k, remote)].caps, hint)]
    BY <1>2, <1>5, <2>2
  <2> QED BY <2>3 DEF a
<1> QED BY <1>4, <1>5

\* What the factory answers is right, in whatever order it goes through the codecs.
LEMMA OfferIsRight ==
    ASSUME NEW remote \in Remotes, NEW h \in Hints, NEW order \in Orders(h.codec)
    PROVE  LET a == GetConfiguration(order, remote, h.parameters)
           IN  OfferIsAccepted(a) /\ OfferWithinRemote(a, remote, h.parameters)
<1> DEFINE hint == h.parameters
           a == GetConfiguration(order, remote, hint)
<1>1. order \in Seq({"AAC", "SBC"})
  <2>1. order \in {<<"AAC", "SBC">>, <<"SBC", "AAC">>, <<"AAC">>, <<"SBC">>}
    BY DEF Orders, Ranked
  <2>2. /\ <<"AAC", "SBC">> \in Seq({"AAC", "SBC"}) /\ <<"SBC", "AAC">> \in Seq({"AAC", "SBC"})
        /\ <<"AAC">> \in Seq({"AAC", "SBC"}) /\ <<"SBC">> \in Seq({"AAC", "SBC"})
    OBVIOUS
  <2> QED BY <2>1, <2>2, Zenon
<1>2. CASE a = [id |-> "none"]
  BY <1>2 DEF OfferIsAccepted, OfferWithinRemote
<1>3. ASSUME NEW k \in {"AAC", "SBC"}, Offers(k, remote, hint),
             a = [id |-> k, config |-> Build(k, remote[RemoteOf(k, remote)].caps, hint)]
      PROVE  OfferIsAccepted(a) /\ OfferWithinRemote(a, remote, hint)
  <2> DEFINE r == remote[RemoteOf(k, remote)]
             c == Build(k, r.caps, hint)
             fields == {"freq", "mode", "blocks", "subbands", "alloc", "object", "channels"}
  <2>1. a.id = k /\ a.config = c
    BY <1>3
  <2>2. r \in Range(remote) /\ r.id = k /\ r.whole
    BY <1>3, RemotesAssumption, RemoteIsNamed DEF Offers
  <2>3. hint.given \in BOOLEAN /\ hint.min \in Int /\ hint.max \in Int
    BY RemotesAssumption
  <2>4. CASE k = "SBC"
    <3>1. c = BuildSbc(r.caps, hint) /\ SbcBuilt(c)
      BY <1>3, <2>4 DEF Offers, Build
    <3>2. r.caps.min \in Nat /\ r.caps.max \in Nat
      BY <2>2, <2>4, RemotesAssumption
    <3> HIDE DEF c, r, hint
    <3>3. /\ SbcAgreed(c, r.caps) /\ c.min \in 2 .. 250 /\ c.max \in 2 .. 250
          /\ DOMAIN c = {"freq", "mode", "blocks", "subbands", "alloc", "min", "max"}
      BY <2>3, <3>1, <3>2, SbcIsAgreed
    <3>4. OfferIsAccepted(a)
      BY <2>1, <2>4, <3>3, SbcParses DEF OfferIsAccepted, Parse
    <3>5. \A f \in fields : f \in DOMAIN c => c[f] \subseteq r.caps[f] /\ Cardinality(c[f]) = 1
      <4>1. \A f \in {"freq", "mode", "blocks", "subbands", "alloc"} : \E v \in r.caps[f] : c[f] = {v}
        BY <3>3 DEF SbcAgreed
      <4>2. ASSUME NEW f \in fields, f \in DOMAIN c PROVE c[f] \subseteq r.caps[f] /\ Cardinality(c[f]) = 1
        <5>1. f \in {"freq", "mode", "blocks", "subbands", "alloc"}
          BY <3>3, <4>2
        <5>2. PICK v \in r.caps[f] : c[f] = {v}
          BY <4>1, <5>1
        <5> QED BY <5>2, ActiveBit
      <4> QED BY <4>2
    <3>6. BitpoolsOffered(c, r.caps, hint)
      BY <2>3, <3>1, <3>2, BitpoolsFollow
    <3>7. OfferWithinRemote(a, remote, hint)
      <4> HIDE DEF a
      <4> QED BY <2>1, <2>2, <3>5, <3>6 DEF OfferWithinRemote
    <3> QED BY <3>4, <3>7
  <2>5. CASE k = "AAC"
    <3>1. c = BuildAac(r.caps, hint) /\ AacBuilt(c)
      BY <1>3, <2>5 DEF Offers, Build
    <3> HIDE DEF c, r, hint
    <3>2. AacAgreed(c, r.caps) /\ DOMAIN c = {"object", "freq", "channels", "vbr", "bitrate"}
      BY <2>3, <3>1, AacIsAgreed
    <3>3. OfferIsAccepted(a)
      BY <2>1, <2>5, <3>2, AacParses DEF OfferIsAccepted, Parse
    <3>4. \A f \in fields : f \in DOMAIN c => c[f] \subseteq r.caps[f] /\ Cardinality(c[f]) = 1
      <4>1. \A f \in {"object", "freq", "channels"} : \E v \in r.caps[f] : c[f] = {v}
        BY <3>2 DEF AacAgreed
      <4>2. ASSUME NEW f \in fields, f \in DOMAIN c PROVE c[f] \subseteq r.caps[f] /\ Cardinality(c[f]) = 1
        <5>1. f \in {"object", "freq", "channels"}
          BY <3>2, <4>2
        <5>2. PICK v \in r.caps[f] : c[f] = {v}
          BY <4>1, <5>1
        <5> QED BY <5>2, ActiveBit
      <4> QED BY <4>2
    <3>5. OfferWithinRemote(a, remote, hint)
      <4> HIDE DEF a
      <4> QED BY <2>1, <2>2, <2>5, <3>4 DEF OfferWithinRemote
    <3> QED BY <3>3, <3>5
  <2> QED BY <2>4, <2>5
<1> QED BY <1>1, <1>2, <1>3, AnswerIsOffer

-----------------------------------------------------------------------------
(* The steps, by what they answer *)

\* A step that neither is one of the queries nor changes what they depend on.
Aside ==
    /\ answer'.call \notin {"capabilities", "a2dp", "ase", "broadcast"}
    /\ UNCHANGED <<file, leVars>>

\* A step changes nothing, is aside, or is one of the calls whose answer or whose caches
\* the properties are about.
LEMMA StepKinds ==
    ASSUME [Next]_vars
    PROVE  \/ UNCHANGED vars
           \/ Aside
           \/ AskCapabilities /\ session_type \in LeTypes
           \/ AskInfo /\ session_type \in LeTypes
           \/ \E remote \in Remotes, h \in Hints :
                 getA2dpConfiguration(remote, h) /\ answer'.call = "a2dp"
           \/ \E codec \in Codecs, priority \in {Disabled, 0} :
                 setCodecPriority(codec, priority) /\ UNCHANGED fixed
           \/ \E q \in AseQueries :
                 getLeAudioAseConfiguration(q.direction, q.remote, q.requirements) /\ UNCHANGED fixed
           \/ \E q \in QosQueries :
                 getLeAudioAseQosConfiguration(q.context, q.direction, q.required) /\ UNCHANGED fixed
           \/ \E q \in BroadcastQueries :
                 getLeAudioBroadcastConfiguration(q.remote, q.counts) /\ UNCHANGED fixed
<1> USE DEF Answers, Refused
<1>1. CASE openProvider
  <2>1. answer'.call \in {"refused", "open"}
    BY <1>1 DEF openProvider
  <2> QED BY <1>1, <2>1 DEF openProvider, fixed, Aside
<1>2. CASE endSession
  BY <1>2 DEF endSession, fixed, Aside
<1>3. ASSUME NEW c \in Configurations, NEW modes \in LatencyModes, NEW host_if \in BOOLEAN,
             NEW allocated \in BOOLEAN, NEW mapped \in BOOLEAN,
             startSession(c, modes, host_if, allocated, mapped)
      PROVE  Aside
  <2>1. answer'.call = "start"
    <3>1. CASE ~Accepts(c) \/ (session_type \in LeSoftware \cup HfpSoftware /\ ~allocated)
      <4>1. answer' = [call |-> "start", of |-> c, ok |-> FALSE,
                       served |-> host_if /\ allocated /\ mapped]
        BY <1>3, <3>1 DEF startSession
      <4> QED BY <4>1
    <3>2. CASE ~(~Accepts(c) \/ (session_type \in LeSoftware \cup HfpSoftware /\ ~allocated))
      BY <1>3, <3>2 DEF startSession
    <3> QED BY <3>1, <3>2
  <2> QED BY <1>3, <2>1 DEF startSession, fixed, Aside
<1>4. ASSUME NEW c \in Updates, updateAudioConfiguration(c) PROVE Aside
  <2>1. answer'.call \in {"refused", "update"}
    BY <1>4 DEF updateAudioConfiguration
  <2> QED BY <1>4, <2>1 DEF updateAudioConfiguration, fixed, Aside
<1>5. ASSUME NEW allowed \in BOOLEAN, setLowLatencyModeAllowed(allowed) PROVE Aside
  <2>1. answer'.call \in {"refused", "latency"}
    BY <1>5 DEF setLowLatencyModeAllowed
  <2> QED BY <1>5, <2>1 DEF setLowLatencyModeAllowed, fixed, Aside
<1>6. CASE AskCapabilities /\ session_type \notin LeTypes
  <2>1. answer'.call = "advertised" /\ UNCHANGED <<file, leVars>>
    BY <1>6 DEF AskCapabilities, fixed
  <2> QED BY <2>1 DEF Aside
<1>7. CASE AskInfo /\ session_type \notin LeTypes
  <2>1. answer'.call \in {"info", "refused"} /\ UNCHANGED <<file, leVars>>
    BY <1>7 DEF AskInfo, fixed
  <2> QED BY <2>1 DEF Aside
<1>8. CASE Return
  BY <1>8 DEF Return, Unchanged, Idle, fixed, Aside
<1>9. ASSUME NEW remote \in Remotes, NEW h \in Hints, getA2dpConfiguration(remote, h)
      PROVE  Aside \/ answer'.call = "a2dp"
  <2>1. answer'.call \in {"a2dp", "refused"}
    BY <1>9 DEF getA2dpConfiguration
  <2> QED BY <1>9, <2>1 DEF getA2dpConfiguration, Unchanged, fixed, Aside
<1>10. ASSUME NEW c \in Configurations, parseA2dpConfiguration(c) PROVE Aside
  <2>1. answer'.call \in {"parsed", "refused"}
    BY <1>10 DEF parseA2dpConfiguration
  <2> QED BY <1>10, <2>1 DEF parseA2dpConfiguration, Unchanged, fixed, Aside
<1>11. ASSUME NEW ACTION query, OffloadQuery(query) PROVE Aside \/ (query /\ UNCHANGED fixed)
  BY <1>11 DEF OffloadQuery, fixed, Aside
<1> QED
  BY <1>1, <1>2, <1>3, <1>4, <1>5, <1>6, <1>7, <1>8, <1>9, <1>10, <1>11 DEF Next

\* What getA2dpConfiguration offers is right, for every list of remote capabilities and
\* every hint.
LEMMA A2dpStep == ASSUME A2dpOfferRight, [Next]_vars PROVE A2dpOfferRight'
<1> USE DEF A2dpOfferRight, A2dpOfferIsAccepted, A2dpOfferWithinRemote
<1>1. CASE answer'.call # "a2dp"
  BY <1>1
<1>2. CASE UNCHANGED vars
  BY <1>2 DEF vars
<1>3. ASSUME NEW remote \in Remotes, NEW h \in Hints, getA2dpConfiguration(remote, h),
             answer'.call = "a2dp"
      PROVE  A2dpOfferRight'
  <2>1. PICK order \in Orders(h.codec) :
           answer' = [call |-> "a2dp", remote |-> remote, hint |-> h.parameters,
                      value |-> GetConfiguration(order, remote, h.parameters)]
    BY <1>3 DEF getA2dpConfiguration, Answers, Refused
  <2>2. /\ answer'.value = GetConfiguration(order, remote, h.parameters)
        /\ answer'.remote = remote /\ answer'.hint = h.parameters
    BY <2>1
  <2> QED BY <2>2, OfferIsRight
<1>4. CASE Aside
  BY <1>1, <1>4 DEF Aside
<1>5. CASE AskCapabilities /\ session_type \in LeTypes
  <2>1. answer'.call = "capabilities"
    BY <1>5 DEF AskCapabilities, getProviderCapabilities
  <2> QED BY <1>1, <2>1
<1>6. CASE AskInfo /\ session_type \in LeTypes
  <2>1. getProviderInfo(session_type)
    BY <1>6, Classes DEF AskInfo
  <2>2. answer'.call = "info"
    BY <2>1 DEF getProviderInfo
  <2> QED BY <1>1, <2>2
<1>7. ASSUME NEW codec \in Codecs, NEW priority \in {Disabled, 0}, setCodecPriority(codec, priority)
      PROVE  A2dpOfferRight'
  BY <1>1, <1>7 DEF setCodecPriority
<1>8. ASSUME NEW q \in AseQueries, getLeAudioAseConfiguration(q.direction, q.remote, q.requirements)
      PROVE  A2dpOfferRight'
  BY <1>1, <1>8 DEF getLeAudioAseConfiguration, Dies, Died
<1>9. ASSUME NEW q \in QosQueries, getLeAudioAseQosConfiguration(q.context, q.direction, q.required)
      PROVE  A2dpOfferRight'
  BY <1>1, <1>9 DEF getLeAudioAseQosConfiguration, Dies, Died
<1>10. ASSUME NEW q \in BroadcastQueries, getLeAudioBroadcastConfiguration(q.remote, q.counts)
       PROVE  A2dpOfferRight'
  BY <1>1, <1>10 DEF getLeAudioBroadcastConfiguration
<1> QED
  <2> HIDE DEF A2dpOfferRight
  <2> QED BY <1>2, <1>3, <1>4, <1>5, <1>6, <1>7, <1>8, <1>9, <1>10, StepKinds

\* getA2dpConfiguration offers what startSession accepts and the remote device has, SBC with
\* the bitpools whose bitrates meet the hint, whatever the remote device and the hint say.
THEOREM A2dpOfferHolds == Spec => []A2dpOfferRight
<1>1. Init => A2dpOfferRight
  BY DEF Init, Idle, A2dpOfferRight, A2dpOfferIsAccepted, A2dpOfferWithinRemote
<1> QED BY <1>1, A2dpStep, PTL DEF Spec

-----------------------------------------------------------------------------
(* The LE capabilities are those of the file *)

\* The capabilities that the content of a file stands for.
CapabilitiesOf(f) ==
    IF LoadConfigurationToMap(f) THEN ComposeLeAudioCodecCapabilities(f) ELSE <<>>

\* Each of the two caches is empty or has the capabilities of the file, and, while no read
\* has failed, a file found invalid, with nothing cached, has none.  The map of codec
\* information is never stored.
CachesInv ==
    /\ file \in Files /\ kDefaultOffloadLeAudioCodecInfoMap = Nothing
    /\ leAudioCodecCapabilities \in {<<>>, CapabilitiesOf(file)}
    /\ kDefaultOffloadLeAudioCapabilities \in {<<>>, CapabilitiesOf(file)}
    /\ ~readFailed /\ isInvalidFileContent /\ leAudioCodecCapabilities = <<>> =>
          CapabilitiesOf(file) = <<>>

\* What is answered comes of the file, if it is anything.
AnsweredInv ==
    answer.call = "capabilities" => answer.value \in {<<>>, CapabilitiesOf(file)}

\* Together, what makes the LE capabilities right.
LeAudioInv == CachesInv /\ AnsweredInv /\ CapabilitiesOfFile

\* Asking for the capabilities keeps the caches, and leaves what the file says in the outer one.
LEMMA CapabilitiesKeep ==
    ASSUME CachesInv, NEW readable \in BOOLEAN, GetLeAudioOffloadCodecCapabilities(readable),
           UNCHANGED file
    PROVE  CachesInv' /\ (~readFailed' => kDefaultOffloadLeAudioCapabilities' = CapabilitiesOf(file))
<1>1. CASE kDefaultOffloadLeAudioCapabilities # <<>>
  <2>1. UNCHANGED <<leAudioCodecCapabilities, isInvalidFileContent, kDefaultOffloadLeAudioCapabilities,
                    kDefaultOffloadLeAudioCodecInfoMap, readFailed>>
    BY <1>1 DEF GetLeAudioOffloadCodecCapabilities, caches
  <2> QED BY <1>1, <2>1 DEF CachesInv
<1>2. CASE kDefaultOffloadLeAudioCapabilities = <<>>
  <2> DEFINE setting == ParseFromLeAudioOffloadSettingFile(readable)
  <2>1. /\ Reads(readable) /\ GetLeAudioCodecCapabilities(setting)
        /\ kDefaultOffloadLeAudioCapabilities' = leAudioCodecCapabilities'
        /\ UNCHANGED kDefaultOffloadLeAudioCodecInfoMap
    BY <1>2 DEF GetLeAudioOffloadCodecCapabilities
  <2>2. CASE leAudioCodecCapabilities # <<>>
    <3>1. UNCHANGED <<leAudioCodecCapabilities, isInvalidFileContent>> /\ (~readFailed' => ~readFailed)
      BY <2>1, <2>2 DEF GetLeAudioCodecCapabilities, Reads
    <3> QED BY <2>1, <2>2, <3>1 DEF CachesInv
  <2>3. CASE leAudioCodecCapabilities = <<>> /\ isInvalidFileContent
    <3>1. setting = Nothing
      BY <2>3 DEF ParseFromLeAudioOffloadSettingFile
    <3>2. leAudioCodecCapabilities' = <<>> /\ (~readFailed' => ~readFailed)
      BY <2>1, <2>3, <3>1 DEF GetLeAudioCodecCapabilities, Reads
    <3> QED BY <2>1, <2>3, <3>2 DEF CachesInv
  <2>4. CASE leAudioCodecCapabilities = <<>> /\ ~isInvalidFileContent /\ readable
    <3>1. setting = file /\ setting # Nothing
      BY <2>4, FilesAssumption DEF ParseFromLeAudioOffloadSettingFile, CachesInv
    <3>2. /\ leAudioCodecCapabilities' = CapabilitiesOf(file)
          /\ isInvalidFileContent' = (leAudioCodecCapabilities' = <<>>)
      BY <2>1, <2>4, <3>1 DEF GetLeAudioCodecCapabilities, CapabilitiesOf
    <3> QED BY <2>1, <2>4, <3>2 DEF CachesInv
  <2>5. CASE leAudioCodecCapabilities = <<>> /\ ~isInvalidFileContent /\ ~readable
    <3>1. readFailed'
      BY <2>1, <2>5 DEF Reads
    <3>2. leAudioCodecCapabilities' = <<>>
      BY <2>1, <2>5 DEF ParseFromLeAudioOffloadSettingFile, GetLeAudioCodecCapabilities
    <3> QED BY <2>1, <3>1, <3>2 DEF CachesInv
  <2> QED BY <2>2, <2>3, <2>4, <2>5
<1> QED BY <1>1, <1>2

\* Asking for the codec information, which drops the capabilities, keeps the caches sound.
LEMMA CodecInfoKeeps ==
    ASSUME CachesInv, NEW readable \in BOOLEAN, GetLeAudioOffloadCodecInfo(readable), UNCHANGED file
    PROVE  CachesInv'
<1> DEFINE setting == ParseFromLeAudioOffloadSettingFile(readable)
<1>1. /\ Reads(readable) /\ GetLeAudioCodecInfo(setting)
      /\ UNCHANGED <<kDefaultOffloadLeAudioCapabilities, kDefaultOffloadLeAudioCodecInfoMap>>
  BY DEF GetLeAudioOffloadCodecInfo, CachesInv
<1>2. CASE session_codecs_map_ # Nothing
  <2>1. UNCHANGED <<leAudioCodecCapabilities, isInvalidFileContent>>
    BY <1>1, <1>2 DEF GetLeAudioCodecInfo
  <2>2. ~readFailed' => ~readFailed
    BY <1>1 DEF Reads
  <2> QED BY <1>1, <2>1, <2>2 DEF CachesInv
<1>3. CASE session_codecs_map_ = Nothing
  <2>1. /\ session_codecs_map_' = IF setting # Nothing /\ LoadConfigurationToMap(setting)
                                  THEN SessionCodecs(setting) ELSE Nothing
        /\ leAudioCodecCapabilities' = IF setting = Nothing THEN leAudioCodecCapabilities ELSE <<>>
        /\ isInvalidFileContent' = (session_codecs_map_' = Nothing)
    BY <1>1, <1>3 DEF GetLeAudioCodecInfo
  <2>2. ~readFailed' => ~readFailed
    BY <1>1 DEF Reads
  <2>3. CASE leAudioCodecCapabilities # <<>> \/ isInvalidFileContent
    <3>1. setting = Nothing
      BY <2>3 DEF ParseFromLeAudioOffloadSettingFile
    <3> QED BY <1>1, <2>1, <2>2, <2>3, <3>1 DEF CachesInv
  <2>4. CASE leAudioCodecCapabilities = <<>> /\ ~isInvalidFileContent /\ readable
    <3>1. setting = file /\ setting # Nothing
      BY <2>4, FilesAssumption DEF ParseFromLeAudioOffloadSettingFile, CachesInv
    <3>2. isInvalidFileContent' => ~LoadConfigurationToMap(file)
      BY <2>1, <3>1, FilesAssumption DEF CachesInv
    <3> QED BY <1>1, <2>1, <2>2, <3>1, <3>2 DEF CachesInv, CapabilitiesOf
  <2>5. CASE leAudioCodecCapabilities = <<>> /\ ~isInvalidFileContent /\ ~readable
    <3>1. readFailed'
      BY <1>1, <2>5 DEF Reads
    <3>2. UNCHANGED leAudioCodecCapabilities
      BY <2>1, <2>5 DEF ParseFromLeAudioOffloadSettingFile
    <3> QED BY <1>1, <3>1, <3>2 DEF CachesInv
  <2> QED BY <2>3, <2>4, <2>5
<1> QED BY <1>2, <1>3

\* A step that leaves the file and the caches alone, and answers no capabilities, keeps both.
LEMMA CachesUntouched ==
    ASSUME LeAudioInv, UNCHANGED <<file, caches, readFailed>>, answer'.call # "capabilities"
    PROVE  LeAudioInv'
BY DEF LeAudioInv, CachesInv, AnsweredInv, CapabilitiesOfFile, caches

\* Every step keeps the caches sound and answers with the capabilities of the file.
LEMMA LeAudioStep == ASSUME LeAudioInv, [Next]_vars PROVE LeAudioInv'
<1>1. CASE UNCHANGED vars
  BY <1>1 DEF vars, fixed, leVars, caches, LeAudioInv, CachesInv, AnsweredInv, CapabilitiesOfFile
<1>2. CASE Aside
  BY <1>2, CachesUntouched DEF Aside, leVars
<1>3. CASE AskCapabilities /\ session_type \in LeTypes
  <2>1. PICK readable \in BOOLEAN :
           /\ GetLeAudioOffloadCodecCapabilities(readable)
           /\ answer' = [call |-> "capabilities", value |-> kDefaultOffloadLeAudioCapabilities']
    BY <1>3 DEF AskCapabilities, getProviderCapabilities
  <2>2. UNCHANGED file
    BY <1>3 DEF AskCapabilities, fixed
  <2>3. CachesInv' /\ (~readFailed' => answer'.value = CapabilitiesOf(file))
    BY <2>1, <2>2, CapabilitiesKeep DEF LeAudioInv
  <2>4. AnsweredInv'
    BY <2>1, <2>2, <2>3 DEF CachesInv, AnsweredInv
  <2> QED BY <2>2, <2>3, <2>4 DEF LeAudioInv, CapabilitiesOfFile, CapabilitiesOf
<1>4. CASE AskInfo /\ session_type \in LeTypes
  <2>1. getProviderInfo(session_type)
    BY <1>4, Classes DEF AskInfo
  <2>2. PICK readable \in BOOLEAN : GetLeAudioOffloadCodecInfo(readable) /\ answer'.call = "info"
    BY <2>1 DEF getProviderInfo
  <2>3. UNCHANGED file
    BY <1>4 DEF AskInfo, fixed
  <2> QED BY <2>2, <2>3, CodecInfoKeeps DEF LeAudioInv, AnsweredInv, CapabilitiesOfFile
<1>5. ASSUME NEW remote \in Remotes, NEW h \in Hints, getA2dpConfiguration(remote, h), answer'.call = "a2dp"
      PROVE  LeAudioInv'
  BY <1>5, CachesUntouched DEF getA2dpConfiguration, Unchanged, fixed, leVars
<1>6. ASSUME NEW codec \in Codecs, NEW priority \in {Disabled, 0}, setCodecPriority(codec, priority),
             UNCHANGED fixed
      PROVE  LeAudioInv'
  BY <1>6, CachesUntouched DEF setCodecPriority, fixed
<1>7. ASSUME NEW q \in AseQueries, getLeAudioAseConfiguration(q.direction, q.remote, q.requirements),
             UNCHANGED fixed
      PROVE  LeAudioInv'
  <2>1. answer'.call \in {"ase", "died"} /\ UNCHANGED <<file, caches, readFailed>>
    BY <1>7 DEF getLeAudioAseConfiguration, Dies, Died, fixed
  <2> QED BY <2>1, CachesUntouched
<1>8. ASSUME NEW q \in QosQueries, getLeAudioAseQosConfiguration(q.context, q.direction, q.required),
             UNCHANGED fixed
      PROVE  LeAudioInv'
  <2>1. answer'.call \in {"qos", "died"} /\ UNCHANGED <<file, caches, readFailed>>
    BY <1>8 DEF getLeAudioAseQosConfiguration, Dies, Died, fixed
  <2> QED BY <2>1, CachesUntouched
<1>9. ASSUME NEW q \in BroadcastQueries, getLeAudioBroadcastConfiguration(q.remote, q.counts),
             UNCHANGED fixed
      PROVE  LeAudioInv'
  <2>1. UNCHANGED file
    BY <1>9 DEF fixed
  <2>2. PICK readable \in BOOLEAN : getBroadcastSettings(readable) /\ answer'.call = "broadcast"
    BY <1>9 DEF getLeAudioBroadcastConfiguration
  <2>3. GetLeAudioOffloadCodecInfo(readable) \/ UNCHANGED <<caches, readFailed>>
    BY <2>2 DEF getBroadcastSettings
  <2> QED BY <2>1, <2>2, <2>3, CodecInfoKeeps, CachesUntouched
             DEF LeAudioInv, AnsweredInv, CapabilitiesOfFile
<1> QED BY <1>1, <1>2, <1>3, <1>4, <1>5, <1>6, <1>7, <1>8, <1>9, StepKinds

\* Inserting by name: what is found under a name is an entry that has it.
LEMMA NamedEntry ==
    ASSUME NEW X, NEW entries \in Seq(X), NEW n \in DOMAIN ByName(entries)
    PROVE  ByName(entries)[n] \in Range(entries) /\ ByName(entries)[n].name = n
<1> DEFINE N == Len(entries)
           I == {i \in 1 .. N : entries[i].name = n}
           First(i) == entries[i].name = n /\ \A j \in 1 .. i - 1 : entries[j].name # n
<1>1. N \in Nat /\ DOMAIN entries = 1 .. N
  OBVIOUS
<1>2. n \in {entries[i].name : i \in DOMAIN entries}
  BY DEF ByName
<1>3. I # {} /\ I \subseteq Nat
  BY <1>1, <1>2
<1>4. PICK c \in I : \A d \in I : c <= d
  <2> HIDE DEF I
  <2> QED BY <1>3, LeastNumber
<1>5. c \in DOMAIN entries /\ First(c)
  BY <1>1, <1>4
<1> DEFINE k == CHOOSE i \in DOMAIN entries : First(i)
<1>6. k \in DOMAIN entries /\ First(k)
  <2> HIDE DEF First
  <2> QED BY <1>5
<1>7. ByName(entries)[n] = entries[k]
  BY <1>2 DEF ByName
<1> HIDE DEF k
<1> QED BY <1>6, <1>7 DEF Range

\* What is sound of one capability.
Sound(c) ==
    c # Unknown => /\ c.location = "MONO" => c.devices = 1 /\ c.channels = 1
                   /\ c.location = "STEREO" => c.devices * c.channels \in {0, 2}

\* A capability comes of a strategy that is valid.
LEMMA UnicastIsSound ==
    ASSUME NEW f \in Files, NEW name
    PROVE  Sound(GetUnicastCapability(f, name))
<1> DEFINE c == GetUnicastCapability(f, name)
           valid == {s \in Range(f.strategies) : IsValidStrategyConfiguration(s)}
           kept == Keep(f.strategies, valid)
           s == StrategyOf(f, name)
<1>1. CASE c = Unknown
  BY <1>1 DEF Sound
<1>2. CASE c # Unknown
  <2>1. /\ Resolves(f, name)
        /\ c.location = s.location /\ c.devices = s.devices /\ c.channels = s.channels
    BY <1>2 DEF GetUnicastCapability
  <2>2. kept \in Seq(Range(f.strategies)) /\ Range(kept) = Range(f.strategies) \cap valid
    <3> HIDE DEF valid
    <3> QED BY FilesAssumption, KeepRange
  <2>3. s \in Range(kept)
    <3>1. UpdateConfigurationsToMap(f)[name].strategy \in DOMAIN ByName(kept)
      BY <2>1 DEF Resolves, UpdateStrategyConfigurationsToMap
    <3>2. s = ByName(kept)[UpdateConfigurationsToMap(f)[name].strategy]
      BY DEF StrategyOf, UpdateStrategyConfigurationsToMap
    <3> HIDE DEF kept, s
    <3> QED BY <2>2, <3>1, <3>2, NamedEntry
  <2>4. <<s.location, s.devices, s.channels>> \in
          {<<"STEREO", 2, 1>>, <<"STEREO", 1, 2>>, <<"STEREO", 0, 2>>, <<"MONO", 1, 1>>}
    BY <2>2, <2>3 DEF IsValidStrategyConfiguration
  <2>5. \/ s.location = "STEREO" /\ s.devices = 2 /\ s.channels = 1
        \/ s.location = "STEREO" /\ s.devices = 1 /\ s.channels = 2
        \/ s.location = "STEREO" /\ s.devices = 0 /\ s.channels = 2
        \/ s.location = "MONO" /\ s.devices = 1 /\ s.channels = 1
    <3> HIDE DEF s
    <3> QED BY <2>4
  <2> HIDE DEF c, s
  <2>6. c.location = "MONO" => c.devices = 1 /\ c.channels = 1
    BY <2>1, <2>5
  <2>7. ASSUME c.location = "STEREO" PROVE c.devices * c.channels \in {0, 2}
    <3>1. \/ c.devices = 2 /\ c.channels = 1
          \/ c.devices = 1 /\ c.channels = 2
          \/ c.devices = 0 /\ c.channels = 2
      BY <2>1, <2>5, <2>7
    <3>2. 2 * 1 = 2 /\ 1 * 2 = 2 /\ 0 * 2 = 0
      OBVIOUS
    <3> QED BY <3>1, <3>2
  <2> QED BY <2>6, <2>7 DEF c, Sound
<1> QED BY <1>1, <1>2

\* All the capabilities composed of a file are sound.
LEMMA ComposedIsSound ==
    ASSUME NEW f \in Files, NEW i \in DOMAIN CapabilitiesOf(f), NEW d \in {"encode", "decode"}
    PROVE  Sound(CapabilitiesOf(f)[i][d])
<1> DEFINE scenarios == GetScenarios(f)
           of(s) == [encode |-> GetUnicastCapability(f, s.encode),
                     decode |-> GetUnicastCapability(f, s.decode),
                     broadcast |-> IF s.broadcast = Missing THEN Unknown
                                   ELSE GetBroadcastCapability(f, s.broadcast)]
           all == [k \in DOMAIN scenarios |-> of(scenarios[k])]
           some == {c \in Range(all) : \E t \in DOMAIN c : c[t] # Unknown}
<1>1. CapabilitiesOf(f) \in {<<>>, Keep(all, some)}
  BY DEF CapabilitiesOf, ComposeLeAudioCodecCapabilities
<1>2. CapabilitiesOf(f) = Keep(all, some)
  <2>1. DOMAIN <<>> = {}
    OBVIOUS
  <2> HIDE DEF all, some
  <2> QED BY <1>1, <2>1
<1>3. scenarios \in Seq(Range(f.scenarios))
  BY FilesAssumption, KeepRange DEF GetScenarios
<1>4. all \in Seq(Range(all))
  <2>1. Len(scenarios) \in Nat /\ DOMAIN scenarios = 1 .. Len(scenarios)
    BY <1>3
  <2>2. all = [k \in 1 .. Len(scenarios) |-> all[k]] /\ \A k \in 1 .. Len(scenarios) : all[k] \in Range(all)
    BY <2>1 DEF Range
  <2> HIDE DEF all
  <2> QED BY <2>1, <2>2
<1>5. CapabilitiesOf(f)[i] \in Range(all)
  <2> HIDE DEF all, some
  <2>1. Range(Keep(all, some)) = Range(all) \cap some
    BY <1>4, KeepRange
  <2> QED BY <1>2, <2>1 DEF Range
<1>6. PICK k \in DOMAIN scenarios : CapabilitiesOf(f)[i] = of(scenarios[k])
  <2> HIDE DEF of, scenarios
  <2> QED BY <1>5 DEF Range
<1>7. CapabilitiesOf(f)[i][d] \in {GetUnicastCapability(f, scenarios[k].encode),
                                   GetUnicastCapability(f, scenarios[k].decode)}
  BY <1>6
<1> QED BY <1>7, UnicastIsSound

\* Whatever is asked in which order, each call dropping what another one cached, the LE
\* capabilities answered are those of the file, as long as it could be read, and they are
\* sound even if it could not.
THEOREM CapabilitiesFollowFile == Spec => []LeCapabilitiesRight
<1>1. Init => LeAudioInv
  BY DEF Init, OffloadInit, LeInit, Idle, LeAudioInv, CachesInv, AnsweredInv, CapabilitiesOfFile
<1>2. LeAudioInv /\ [Next]_vars => LeAudioInv'
  BY LeAudioStep
<1>3. LeAudioInv => LeCapabilitiesRight
  <2> SUFFICES ASSUME LeAudioInv, answer.call = "capabilities", NEW i \in DOMAIN answer.value,
                      NEW d \in {"encode", "decode"}
               PROVE  Sound(answer.value[i][d])
    BY DEF LeAudioInv, LeCapabilitiesRight, CapabilitiesAreSound, Sound
  <2>1. DOMAIN <<>> = {}
    OBVIOUS
  <2>2. answer.value = CapabilitiesOf(file) /\ file \in Files
    BY <2>1 DEF LeAudioInv, AnsweredInv, CachesInv
  <2> QED BY <2>2, ComposedIsSound
<1> QED BY <1>1, <1>2, <1>3, PTL DEF Spec

-----------------------------------------------------------------------------
(* The LE queries *)

\* One direction of a configuration is a list, whose latencies are numbers.
LEMMA PopulateIsList ==
    ASSUME NEW cfg \in Range(sets.configurations), NEW direction \in {Sink, Source}
    PROVE  /\ Populate(sets, cfg, direction, "HOST") \in Seq(Range(Populate(sets, cfg, direction, "HOST")))
           /\ \A d \in Range(Populate(sets, cfg, direction, "HOST")) : d.qos.latency \in Int
<1> DEFINE codec == FirstNamed(sets.codecs, cfg.codec)
           fit == {s \in Range(codec.subs) : (s.direction = Sink) = (direction = Sink)}
           subs == IF codec = Nothing THEN <<>> ELSE Keep(codec.subs, fit)
           qos == FirstNamed(sets.qos, QosNames(cfg)[direction])
           p == Populate(sets, cfg, direction, "HOST")
<1>1. p = [i \in DOMAIN subs |-> SetConfigurationFromFlatSubconfig(subs[i], qos, "HOST")]
  BY DEF Populate
<1>2. subs \in Seq(Range(codec.subs))
  <2>1. CASE codec = Nothing
    BY <2>1
  <2>2. CASE codec # Nothing
    <3> DEFINE I == {i \in 1 .. Len(sets.codecs) : sets.codecs[i].name = cfg.codec}
               k == IF I # {} THEN Min(I) ELSE 0
    <3>1. codec = IF k = 0 THEN Nothing ELSE sets.codecs[k]
      BY DEF FirstNamed, SelectInSeq
    <3>2. Len(sets.codecs) \in Nat /\ DOMAIN sets.codecs = 1 .. Len(sets.codecs)
      BY SetsAssumption
    <3>3. k # 0
      <4> HIDE DEF codec, k
      <4> QED BY <2>2, <3>1
    <3>4. k \in I
      <4>1. I \in SUBSET (1 .. Len(sets.codecs)) /\ I # {}
        BY <3>3
      <4> HIDE DEF I
      <4> QED BY <3>2, <4>1, FirstIndex
    <3>5. k \in DOMAIN sets.codecs /\ codec = sets.codecs[k]
      <4>1. k \in DOMAIN sets.codecs
        BY <3>2, <3>4
      <4> HIDE DEF codec, k
      <4> QED BY <3>1, <3>3, <4>1
    <3>6. codec.subs \in Seq(Range(codec.subs))
      <4> HIDE DEF codec, k
      <4>1. codec \in Range(sets.codecs)
        BY <3>5 DEF Range
      <4> QED BY <4>1, SetsAssumption
    <3> HIDE DEF codec, fit
    <3> QED BY <2>2, <3>6, KeepRange
  <2> QED BY <2>1, <2>2
<1>3. p \in Seq(Range(p))
  <2>1. DOMAIN p = DOMAIN subs /\ p = [i \in DOMAIN p |-> p[i]]
    <3> HIDE DEF subs, qos
    <3> QED BY <1>1
  <2> HIDE DEF p, subs, codec
  <2> QED BY <1>2, <2>1, MapIsList
<1>4. p # <<>> => qos.transport \in Int
  BY SetsAssumption
<1>5. ASSUME NEW i \in DOMAIN p PROVE p[i].qos.latency \in Int
  <2>1. p[i] = SetConfigurationFromFlatSubconfig(subs[i], qos, "HOST")
    <3> HIDE DEF subs, qos
    <3> QED BY <1>1
  <2>2. p[i].qos.latency = qos.transport
    <3> HIDE DEF p, qos, subs
    <3> QED BY <2>1 DEF SetConfigurationFromFlatSubconfig, populateAseQosConfiguration
  <2>3. p # <<>>
    <3> HIDE DEF p
    <3> QED BY <1>5
  <2> QED BY <1>4, <2>2, <2>3
<1> QED BY <1>3, <1>5 DEF Range

\* So is each direction of what the files lead to.
LEMMA ConfiguredIsList ==
    ASSUME NEW n \in DOMAIN Configured
    PROVE  /\ Configured[n].sink \in Seq(Directions) /\ Configured[n].source \in Seq(Directions)
           /\ \A d \in Range(Configured[n].sink) \cup Range(Configured[n].source) : d.qos.latency \in Int
<1> DEFINE cs == sets.configurations
           of(cfg) == [name |-> cfg.name, source |-> Populate(sets, cfg, Source, "HOST"),
                       sink |-> Populate(sets, cfg, Sink, "HOST")]
           all == [i \in DOMAIN cs |-> of(cs[i])]
           some == {c \in Range(all) : c.source # <<>> \/ c.sink # <<>>}
           kept == Keep(all, some)
<1>1. Configured = ByName(Reverse(kept))
  <2>1. Configured = IF sets.qos = <<>> \/ sets.codecs = <<>> THEN <<>> ELSE ByName(Reverse(kept))
    BY DEF Configured, LoadConfigurationsFromFiles
  <2>2. DOMAIN <<>> = {}
    OBVIOUS
  <2> HIDE DEF kept
  <2> QED BY <2>1, <2>2
<1>2. all \in Seq(Range(all))
  <2>1. DOMAIN all = DOMAIN cs /\ all = [i \in DOMAIN all |-> all[i]]
    <3> HIDE DEF of
    <3> QED OBVIOUS
  <2> HIDE DEF all
  <2> QED BY <2>1, SetsAssumption, MapIsList
<1>3. kept \in Seq(Range(all)) /\ Range(kept) \subseteq Range(all)
  <2> HIDE DEF all, some
  <2> QED BY <1>2, KeepRange
<1>4. Configured[n] \in Range(all)
  <2> HIDE DEF all, kept
  <2>1. Reverse(kept) \in Seq(Range(all)) /\ Range(Reverse(kept)) \subseteq Range(kept)
    BY <1>3, ReverseRange
  <2>2. ByName(Reverse(kept))[n] \in Range(Reverse(kept))
    BY <1>1, <2>1, NamedEntry
  <2> QED BY <1>1, <1>3, <2>1, <2>2
<1>5. PICK i \in DOMAIN cs : Configured[n] = of(cs[i])
  <2> HIDE DEF of
  <2> QED BY <1>4 DEF Range
<1> DEFINE cfg == cs[i]
<1>6. cfg \in Range(sets.configurations)
  BY DEF Range
<1> HIDE DEF cfg
<1>7. /\ Configured[n].sink = Populate(sets, cfg, Sink, "HOST")
      /\ Configured[n].source = Populate(sets, cfg, Source, "HOST")
  BY <1>5 DEF cfg
<1>8. /\ Configured[n].sink \in Seq(Range(Configured[n].sink))
      /\ \A d \in Range(Configured[n].sink) : d.qos.latency \in Int
  BY <1>6, <1>7, PopulateIsList
<1>9. /\ Configured[n].source \in Seq(Range(Configured[n].source))
      /\ \A d \in Range(Configured[n].source) : d.qos.latency \in Int
  BY <1>6, <1>7, PopulateIsList
<1>10. /\ Range(Configured[n].sink) \subseteq Directions
       /\ Range(Configured[n].source) \subseteq Directions
  BY DEF Directions
<1>11. \A A, B : A \subseteq B => Seq(A) \subseteq Seq(B)
  OBVIOUS
<1> QED BY <1>8, <1>9, <1>10, <1>11

\* The latencies of all of them are numbers.
LEMMA LatencyIsNumber == \A d \in Directions : d.qos.latency \in Int
BY ConfiguredIsList DEF Directions

\* A setting has a configuration in a context and a direction.
Carries(s, context, d, direction) ==
    /\ s.context = context /\ InDirection(s, direction) # Nothing
    /\ d \in Range(InDirection(s, direction))

\* The settings that the two directions of a configuration make, in a scenario.
SettingOf(scenario, name) ==
    [context |-> Context(scenario.name), source |-> Configured[name].source,
     sink |-> Configured[name].sink]
\* All settings there can be.
AllSettings == {SettingOf(scenario, name) : scenario \in Range(sets.scenarios), name \in DOMAIN Configured}

\* Both directions of a setting are lists.
LEMMA SettingHasLists ==
    ASSUME NEW s \in AllSettings, NEW direction
    PROVE  InDirection(s, direction) \in Seq(Directions) /\ InDirection(s, direction) # Nothing
<1>1. PICK scenario \in Range(sets.scenarios), name \in DOMAIN Configured : s = SettingOf(scenario, name)
  BY DEF AllSettings
<1>2. s.sink = Configured[name].sink /\ s.source = Configured[name].source
  BY <1>1 DEF SettingOf
<1>3. InDirection(s, direction) \in Seq(Directions)
  BY <1>2, ConfiguredIsList DEF InDirection
<1> QED BY <1>3, NothingAssumption

\* The settings are those of the names in the scenarios that have a configuration.
LEMMA SettingsRange ==
    /\ Settings \in Seq(AllSettings)
    /\ \A s : s \in Range(Settings) <=>
          \E i \in DOMAIN sets.scenarios : \E k \in DOMAIN sets.scenarios[i].configurations :
             /\ sets.scenarios[i].configurations[k] \in DOMAIN Configured
             /\ s = SettingOf(sets.scenarios[i], sets.scenarios[i].configurations[k])
<1> DEFINE sc == sets.scenarios
           known(x) == Keep(x.configurations, DOMAIN Configured)
           of(x) == [i \in DOMAIN known(x) |-> [context |-> Context(x.name),
                                                source |-> Configured[known(x)[i]].source,
                                                sink |-> Configured[known(x)[i]].sink]]
           q == [i \in DOMAIN sc |-> of(sc[i])]
<1>1. Settings = FlattenSeq(q)
  BY DEF Settings, LoadScenariosFromFiles
<1>2. ASSUME NEW x \in Range(sc)
      PROVE  /\ of(x) \in Seq(AllSettings)
             /\ \A s : s \in Range(of(x)) <=>
                   \E k \in DOMAIN x.configurations :
                      x.configurations[k] \in DOMAIN Configured /\ s = SettingOf(x, x.configurations[k])
  <2> DEFINE names == known(x)
  <2>1. /\ names \in Seq(Range(x.configurations))
        /\ Range(names) = Range(x.configurations) \cap DOMAIN Configured
    BY SetsAssumption, KeepRange
  <2> HIDE DEF names
  <2>2. of(x) = [i \in DOMAIN names |-> SettingOf(x, names[i])]
    BY DEF SettingOf, names
  <2>3. \A i \in DOMAIN names : names[i] \in DOMAIN Configured
    BY <2>1 DEF Range
  <2>4. \A i \in DOMAIN names : SettingOf(x, names[i]) \in AllSettings
    BY <2>3 DEF AllSettings
  <2> DEFINE o == of(x)
  <2> HIDE DEF of, o
  <2>5. Len(names) \in Nat /\ DOMAIN names = 1 .. Len(names)
    BY <2>1
  <2>6. o = [i \in 1 .. Len(names) |-> o[i]] /\ \A i \in 1 .. Len(names) : o[i] \in AllSettings
    BY <2>2, <2>4, <2>5 DEF o
  <2>7. o \in Seq(AllSettings)
    BY <2>5, <2>6
  <2>8. \A s : s \in Range(o) <=> \E i \in DOMAIN names : s = SettingOf(x, names[i])
    BY <2>2 DEF o, Range
  <2>9. \A s : s \in Range(o) <=> \E n \in Range(names) : s = SettingOf(x, n)
    BY <2>8 DEF Range
  <2>10. \A s : s \in Range(o) <=> \E n \in Range(x.configurations) :
                                     n \in DOMAIN Configured /\ s = SettingOf(x, n)
    BY <2>1, <2>9
  <2>11. \A s : (\E n \in Range(x.configurations) : n \in DOMAIN Configured /\ s = SettingOf(x, n)) <=>
              \E k \in DOMAIN x.configurations :
                 x.configurations[k] \in DOMAIN Configured /\ s = SettingOf(x, x.configurations[k])
    BY DEF Range
  <2>12. \A s : s \in Range(o) <=>
              \E k \in DOMAIN x.configurations :
                 x.configurations[k] \in DOMAIN Configured /\ s = SettingOf(x, x.configurations[k])
    BY <2>10, <2>11, Zenon
  <2> QED BY <2>7, <2>12, Zenon DEF o
<1> HIDE DEF of
<1>3. DOMAIN q = DOMAIN sc /\ q = [i \in DOMAIN q |-> q[i]] /\ \A i \in DOMAIN q : q[i] = of(sc[i])
  OBVIOUS
<1> HIDE DEF q
<1>4. \A i \in DOMAIN q : q[i] \in Seq(AllSettings)
  <2>1. \A i \in DOMAIN sc : sc[i] \in Range(sc)
    BY DEF Range
  <2> QED BY <1>2, <1>3, <2>1
<1>5. /\ FlattenSeq(q) \in Seq(AllSettings)
      /\ \A s : s \in Range(FlattenSeq(q)) <=> \E i \in DOMAIN q : s \in Range(q[i])
  BY <1>3, <1>4, SetsAssumption, FlatMap
<1>6. \A s : s \in Range(FlattenSeq(q)) <=>
          \E i \in DOMAIN sc : \E k \in DOMAIN sc[i].configurations :
             sc[i].configurations[k] \in DOMAIN Configured /\ s = SettingOf(sc[i], sc[i].configurations[k])
  <2>1. \A i \in DOMAIN sc : sc[i] \in Range(sc)
    BY DEF Range
  <2>2. ASSUME NEW s
        PROVE  (\E i \in DOMAIN q : s \in Range(q[i])) <=>
               (\E i \in DOMAIN sc : \E k \in DOMAIN sc[i].configurations :
                  sc[i].configurations[k] \in DOMAIN Configured
                  /\ s = SettingOf(sc[i], sc[i].configurations[k]))
    <3>1. ASSUME NEW i \in DOMAIN sc
          PROVE  s \in Range(q[i]) <=>
                 \E k \in DOMAIN sc[i].configurations :
                    sc[i].configurations[k] \in DOMAIN Configured
                    /\ s = SettingOf(sc[i], sc[i].configurations[k])
      <4>1. sc[i] \in Range(sc) /\ q[i] = of(sc[i])
        BY <1>3, <2>1
      <4> HIDE DEF sc
      <4> QED BY <1>2, <4>1
    <3> HIDE DEF sc
    <3> QED BY <1>3, <3>1
  <2> QED BY <1>5, <2>2
<1> QED BY <1>1, <1>5, <1>6

\* What the settings have is what the files say.
LEMMA SettingsAreFiles ==
    ASSUME NEW context, NEW d, NEW direction
    PROVE  (\E s \in Range(Settings) : Carries(s, context, d, direction)) <=> InFiles(context, d, direction)
<1> DEFINE sc == sets.scenarios
           Named(i, k) == /\ sc[i].configurations[k] \in DOMAIN Configured
                          /\ Carries(SettingOf(sc[i], sc[i].configurations[k]), context, d, direction)
<1>1. (\E s \in Range(Settings) : Carries(s, context, d, direction)) <=>
      \E i \in DOMAIN sc : \E k \in DOMAIN sc[i].configurations : Named(i, k)
  BY SettingsRange
<1>2. ASSUME NEW x \in Range(sc), NEW name \in DOMAIN Configured
      PROVE  Carries(SettingOf(x, name), context, d, direction) <=>
             Context(x.name) = context
             /\ \E k \in DOMAIN InDirection(Configured[name], direction) :
                   InDirection(Configured[name], direction)[k] = d
  <2> DEFINE s == SettingOf(x, name)
  <2>1. s \in AllSettings
    BY DEF AllSettings
  <2>2. s.context = Context(x.name) /\ InDirection(s, direction) = InDirection(Configured[name], direction)
    BY DEF SettingOf, InDirection
  <2> HIDE DEF s
  <2>3. InDirection(s, direction) # Nothing
    BY <2>1, SettingHasLists
  <2> QED BY <2>2, <2>3 DEF s, Carries, Range
<1>3. \A i \in DOMAIN sc : sc[i] \in Range(sc)
  BY DEF Range
<1>4. ASSUME NEW i \in DOMAIN sc
      PROVE  (\E k \in DOMAIN sc[i].configurations : Named(i, k)) <=>
             /\ Context(sc[i].name) = context
             /\ \E n \in DOMAIN sc[i].configurations :
                   /\ sc[i].configurations[n] \in DOMAIN Configured
                   /\ \E k \in DOMAIN InDirection(Configured[sc[i].configurations[n]], direction) :
                         InDirection(Configured[sc[i].configurations[n]], direction)[k] = d
  BY <1>2, <1>3
<1> HIDE DEF Named
<1> QED BY <1>1, <1>4 DEF InFiles

\* What a capability accepts of a context.
Takes(c, context, d) ==
    /\ isCapabilitiesMatchedContext(context, c) /\ isMatchedValidCodec(d.ase.codecId, c.codecId)
    /\ isCapabilitiesMatchedCodecConfiguration(d.ase.config, c.capabilities)

\* And a requirement, of a direction.
Meets(r, context, d, direction) ==
    LET wanted == IF direction = Sink THEN r.sink ELSE r.source
    IN  r.context = context /\ (wanted = Nothing \/ \E q \in wanted : isMatchedAseConfiguration(d.ase, q))

\* A setting that has one direction only, whatever is left of it.
SingleOf(x, direction, v) == Filtered([context |-> x], direction, v)
\* All of these.
Single(contexts, direction) ==
    {SingleOf(x, direction, v) : x \in contexts, v \in Seq(Directions)}

\* What such a setting has.
LEMMA FilteredHas ==
    ASSUME NEW s, NEW direction \in {Sink, Source}, NEW v \in Seq(Directions)
    PROVE  /\ Filtered(s, direction, v).context = s.context
           /\ InDirection(Filtered(s, direction, v), direction) = v
           /\ (Filtered(s, direction, v).sink # Nothing) <=> (direction = Sink)
           /\ \A contexts : s.context \in contexts =>
                 Filtered(s, direction, v) \in Single(contexts, direction)
           /\ \A context, d : Carries(Filtered(s, direction, v), context, d, direction) <=>
                 s.context = context /\ d \in Range(v)
<1> DEFINE f == Filtered(s, direction, v)
<1>1. v # Nothing
  BY NothingAssumption
<1>2. /\ f.context = s.context
      /\ f.sink = IF direction = Sink THEN v ELSE Nothing
      /\ f.source = IF direction = Sink THEN Nothing ELSE v
  BY DEF Filtered
<1>3. f = SingleOf(s.context, direction, v)
  BY DEF Filtered, SingleOf
<1>4. \A contexts : s.context \in contexts => f \in Single(contexts, direction)
  <2> HIDE DEF f
  <2> QED BY <1>3 DEF Single
<1> HIDE DEF f
<1>5. InDirection(f, direction) = v
  BY <1>2 DEF InDirection, Sink, Source
<1>6. (f.sink # Nothing) <=> (direction = Sink)
  BY <1>1, <1>2
<1> QED BY <1>1, <1>2, <1>4, <1>5, <1>6 DEF f, Carries

\* A list of one filtered setting, or none if nothing is left of it.
Left(s, direction, v) == IF v = <<>> THEN <<>> ELSE << Filtered(s, direction, v) >>

\* It is a list of such settings.
LEMMA LeftIsList ==
    ASSUME NEW contexts, NEW s, s.context \in contexts, NEW direction \in {Sink, Source},
           NEW v \in Seq(Directions)
    PROVE  Left(s, direction, v) \in Seq(Single(contexts, direction))
<1> DEFINE f == Filtered(s, direction, v)
<1>1. f \in Single(contexts, direction)
  BY FilteredHas
<1> HIDE DEF f
<1>2. Left(s, direction, v) = <<>> \/ Left(s, direction, v) = <<f>>
  BY DEF f, Left
<1>3. <<>> \in Seq(Single(contexts, direction)) /\ <<f>> \in Seq(Single(contexts, direction))
  BY <1>1
<1> QED BY <1>2, <1>3

\* A list of settings has exactly what is left of a setting.
HasLeft(r, s, direction, v) ==
    \A context, d : (\E m \in Range(r) : Carries(m, context, d, direction)) <=>
                    s.context = context /\ d \in Range(v)

\* This one does.
LEMMA LeftHas ==
    ASSUME NEW s, NEW direction \in {Sink, Source}, NEW v \in Seq(Directions)
    PROVE  HasLeft(Left(s, direction, v), s, direction, v)
<1> SUFFICES ASSUME NEW context, NEW d
             PROVE  (\E m \in Range(Left(s, direction, v)) : Carries(m, context, d, direction)) <=>
                    s.context = context /\ d \in Range(v)
  BY DEF HasLeft
<1> DEFINE f == Filtered(s, direction, v)
           r == Left(s, direction, v)
<1>1. Carries(f, context, d, direction) <=> s.context = context /\ d \in Range(v)
  BY FilteredHas
<1> HIDE DEF f
<1>2. CASE v = <<>>
  <2>1. Range(r) = {} /\ Range(v) = {}
    BY <1>2 DEF Left, Range
  <2> HIDE DEF r
  <2> QED BY <2>1 DEF r
<1>3. CASE v # <<>>
  <2>1. r = <<f>>
    BY <1>3 DEF f, Left
  <2>2. Range(r) = {f}
    BY <2>1 DEF Range
  <2> QED BY <1>1, <2>2
<1> QED BY <1>2, <1>3

\* The filter by a capability keeps of a setting what the capability accepts.
LEMMA ByCapability ==
    ASSUME NEW contexts, NEW s, s.context \in contexts, NEW direction \in {Sink, Source},
           InDirection(s, direction) \in Seq(Directions), NEW c
    PROVE  LET r == getCapabilitiesMatchedAseConfigurationSettings(s, c, direction)
           IN  /\ r \in Seq(Single(contexts, direction))
               /\ \A context, d : (\E m \in Range(r) : Carries(m, context, d, direction)) <=>
                     Carries(s, context, d, direction) /\ Takes(c, context, d)
<1> DEFINE list == InDirection(s, direction)
           Fit(d) == /\ isMatchedValidCodec(d.ase.codecId, c.codecId)
                     /\ isCapabilitiesMatchedCodecConfiguration(d.ase.config, c.capabilities)
           good == {d \in Range(list) : Fit(d)}
           v == Keep(list, good)
           fits == isCapabilitiesMatchedContext(s.context, c)
           r == getCapabilitiesMatchedAseConfigurationSettings(s, c, direction)
<1>1. v \in Seq(Directions) /\ Range(v) = Range(list) \cap good
  <2> HIDE DEF list, good
  <2> QED BY KeepRange DEF list
<1>2. \A d : d \in Range(v) <=> d \in Range(list) /\ Fit(d)
  <2> HIDE DEF list, Fit, v
  <2> QED BY <1>1
<1>3. r = IF ~fits \/ v = <<>> THEN <<>> ELSE << Filtered(s, direction, v) >>
  BY DEF getCapabilitiesMatchedAseConfigurationSettings, filterCapabilitiesAseDirectionConfiguration
<1>5. list # Nothing
  BY NothingAssumption
<1> HIDE DEF v, r, fits
<1>6. /\ r \in Seq(Single(contexts, direction))
      /\ \A context, d : (\E m \in Range(r) : Carries(m, context, d, direction)) <=>
            fits /\ s.context = context /\ d \in Range(v)
  <2>1. CASE fits
    <3>1. r = Left(s, direction, v)
      BY <1>3, <2>1 DEF Left
    <3>2. v \in Seq(Directions)
      BY <1>1
    <3>3. /\ r \in Seq(Single(contexts, direction))
          /\ \A context, d : (\E m \in Range(r) : Carries(m, context, d, direction)) <=>
                s.context = context /\ d \in Range(v)
      <4>1. Left(s, direction, v) \in Seq(Single(contexts, direction))
        BY <3>2, LeftIsList
      <4>2. HasLeft(Left(s, direction, v), s, direction, v)
        BY <3>2, LeftHas
      <4> QED BY <3>1, <4>1, <4>2 DEF HasLeft
    <3> QED BY <2>1, <3>3
  <2>2. CASE ~fits
    <3>1. r = <<>> /\ Range(r) = {}
      BY <1>3, <2>2 DEF Range
    <3> QED BY <2>2, <3>1
  <2> QED BY <2>1, <2>2
<1>7. \A context, d : (fits /\ s.context = context /\ d \in Range(v)) <=>
                      Carries(s, context, d, direction) /\ Takes(c, context, d)
  <2> SUFFICES ASSUME NEW context, NEW d
               PROVE  (fits /\ s.context = context /\ d \in Range(v)) <=>
                      Carries(s, context, d, direction) /\ Takes(c, context, d)
    OBVIOUS
  <2>1. Takes(c, context, d) <=> isCapabilitiesMatchedContext(context, c) /\ Fit(d)
    BY DEF Takes
  <2>2. Carries(s, context, d, direction) <=> s.context = context /\ d \in Range(list)
    BY <1>5 DEF Carries
  <2> HIDE DEF Fit, list
  <2> QED BY <1>2, <2>1, <2>2 DEF fits
<1> QED BY <1>6, <1>7 DEF r

\* So does the filter by a requirement, of a setting of one direction.
LEMMA ByRequirement ==
    ASSUME NEW contexts, NEW direction \in {Sink, Source}, NEW m \in Single(contexts, direction), NEW q
    PROVE  LET r == getRequirementMatchedAseConfigurationSettings(m, q)
           IN  /\ r \in Seq(Single(contexts, direction))
               /\ \A context, d : (\E n \in Range(r) : Carries(n, context, d, direction)) <=>
                     Carries(m, context, d, direction) /\ Meets(q, context, d, direction)
<1>1. PICK x \in contexts, w \in Seq(Directions) : m = SingleOf(x, direction, w)
  BY DEF Single
<1>2. /\ m.context = x /\ InDirection(m, direction) = w
      /\ (m.sink # Nothing) <=> (direction = Sink)
  <2>1. [context |-> x].context = x
    OBVIOUS
  <2> DEFINE y == [context |-> x]
  <2>2. m = Filtered(y, direction, w)
    BY <1>1 DEF SingleOf
  <2> HIDE DEF y
  <2> QED BY <2>1, <2>2, FilteredHas DEF y
<1> DEFINE wanted == IF direction = Sink THEN q.sink ELSE q.source
           Fit(d) == wanted = Nothing \/ \E a \in wanted : isMatchedAseConfiguration(d.ase, a)
           good == {d \in Range(w) : Fit(d)}
           v == Keep(w, good)
           fits == m.context = q.context
           r == getRequirementMatchedAseConfigurationSettings(m, q)
<1>3. v \in Seq(Directions) /\ Range(v) = Range(w) \cap good
  <2> HIDE DEF good
  <2> QED BY KeepRange
<1>4. \A d : d \in Range(v) <=> d \in Range(w) /\ Fit(d)
  <2> HIDE DEF Fit, v
  <2> QED BY <1>3
<1>5. (IF m.sink # Nothing THEN Sink ELSE Source) = direction
  BY <1>2
<1>6. r = IF ~fits \/ v = <<>> THEN <<>> ELSE << Filtered(m, direction, v) >>
  <2> DEFINE e == IF m.sink # Nothing THEN Sink ELSE Source
             u(z) == filterRequirementAseDirectionConfiguration(
                        InDirection(m, z), IF z = Sink THEN q.sink ELSE q.source)
  <2>1. r = IF m.context # q.context \/ u(e) = <<>> THEN <<>> ELSE << Filtered(m, e, u(e)) >>
    BY DEF getRequirementMatchedAseConfigurationSettings
  <2>2. u(direction) = v
    BY <1>2 DEF filterRequirementAseDirectionConfiguration
  <2> HIDE DEF u, e, v, r
  <2> QED BY <1>5, <2>1, <2>2 DEF e
<1>7. m.context \in contexts /\ w # Nothing
  BY <1>2, NothingAssumption
<1> HIDE DEF v, r
<1>8. /\ r \in Seq(Single(contexts, direction))
      /\ \A context, d : (\E n \in Range(r) : Carries(n, context, d, direction)) <=>
            fits /\ m.context = context /\ d \in Range(v)
  <2>1. CASE fits
    <3>1. r = Left(m, direction, v)
      BY <1>6, <2>1 DEF Left
    <3> HIDE DEF fits
    <3>2. v \in Seq(Directions)
      BY <1>3
    <3>3. /\ r \in Seq(Single(contexts, direction))
          /\ \A context, d : (\E n \in Range(r) : Carries(n, context, d, direction)) <=>
                m.context = context /\ d \in Range(v)
      <4>1. Left(m, direction, v) \in Seq(Single(contexts, direction))
        BY <1>7, <3>2, LeftIsList
      <4>2. HasLeft(Left(m, direction, v), m, direction, v)
        BY <3>2, LeftHas
      <4> QED BY <3>1, <4>1, <4>2 DEF HasLeft
    <3> QED BY <2>1, <3>3
  <2>2. CASE ~fits
    <3>1. r = <<>> /\ Range(r) = {}
      BY <1>6, <2>2 DEF Range
    <3> QED BY <2>2, <3>1
  <2> QED BY <2>1, <2>2
<1>9. \A context, d : (fits /\ m.context = context /\ d \in Range(v)) <=>
                      Carries(m, context, d, direction) /\ Meets(q, context, d, direction)
  <2> SUFFICES ASSUME NEW context, NEW d
               PROVE  (fits /\ m.context = context /\ d \in Range(v)) <=>
                      Carries(m, context, d, direction) /\ Meets(q, context, d, direction)
    OBVIOUS
  <2>1. Meets(q, context, d, direction) <=> q.context = context /\ Fit(d)
    BY DEF Meets
  <2>2. Carries(m, context, d, direction) <=> m.context = context /\ d \in Range(w)
    BY <1>2, <1>7 DEF Carries
  <2> HIDE DEF Fit
  <2> QED BY <1>4, <2>1, <2>2
<1> QED BY <1>8, <1>9 DEF r

\* getLeAudioAseConfiguration answers with what the settings have and one of the
\* capabilities and one of the requirements accept, and with nothing else.
LEMMA AseAnswerHas ==
    ASSUME NEW settings \in Seq(AllSettings), NEW direction \in {Sink, Source},
           NEW X, NEW remote \in Seq(X), NEW Y, NEW requirements \in Seq(Y), NEW context, NEW d
    PROVE  (\E n \in Range(AseAnswer(settings, direction, remote, requirements)) :
               Carries(n, context, d, direction)) <=>
           /\ \E s \in Range(settings) : Carries(s, context, d, direction)
           /\ \E c \in Range(remote) : Takes(c, context, d)
           /\ \E r \in Range(requirements) : Meets(r, context, d, direction)
<1> DEFINE contexts == {s.context : s \in AllSettings}
           T == Single(contexts, direction)
           R == [i \in DOMAIN settings |-> [k \in DOMAIN remote |->
                   getCapabilitiesMatchedAseConfigurationSettings(settings[i], remote[k], direction)]]
           matched == Pairs(R)
           Q == [i \in DOMAIN matched |-> [k \in DOMAIN requirements |->
                   getRequirementMatchedAseConfigurationSettings(matched[i], requirements[k])]]
           answered == Pairs(Q)
<1>1. matched = FlattenSeq([i \in DOMAIN settings |-> FlattenSeq([k \in DOMAIN remote |->
                   getCapabilitiesMatchedAseConfigurationSettings(settings[i], remote[k], direction)])])
  BY DEF Pairs
<1>2. answered = FlattenSeq([i \in DOMAIN matched |-> FlattenSeq([k \in DOMAIN requirements |->
                    getRequirementMatchedAseConfigurationSettings(matched[i], requirements[k])])])
  <2> HIDE DEF matched
  <2> QED BY DEF Pairs
<1>3. AseAnswer(settings, direction, remote, requirements) = answered
  <2> HIDE DEF answered, matched, R
  <2> QED BY <1>1, <1>2 DEF AseAnswer, ForAll
<1>4. ASSUME NEW i \in DOMAIN settings, NEW k \in DOMAIN remote
      PROVE  /\ R[i][k] \in Seq(T)
             /\ (\E m \in Range(R[i][k]) : Carries(m, context, d, direction)) <=>
                Carries(settings[i], context, d, direction) /\ Takes(remote[k], context, d)
  <2> DEFINE s == settings[i]
             c == remote[k]
  <2>1. s \in AllSettings
    OBVIOUS
  <2>2. s.context \in contexts
    BY <2>1
  <2>3. InDirection(s, direction) \in Seq(Directions)
    BY <2>1, SettingHasLists
  <2>4. R[i][k] = getCapabilitiesMatchedAseConfigurationSettings(s, c, direction)
    OBVIOUS
  <2> HIDE DEF s, c, R, contexts
  <2> QED BY <2>2, <2>3, <2>4, ByCapability DEF s, c
<1>5. Table(R, settings, remote, T)
  <2>1. \A i \in DOMAIN settings : R[i] = [k \in DOMAIN remote |-> R[i][k]]
    OBVIOUS
  <2>2. R = [i \in DOMAIN settings |-> R[i]]
    OBVIOUS
  <2> HIDE DEF R, T
  <2>3. \A i \in DOMAIN settings : R[i] \in [DOMAIN remote -> Seq(T)]
    BY <1>4, <2>1
  <2> QED BY <2>2, <2>3 DEF Table
<1>6. /\ matched \in Seq(T)
      /\ \A m : m \in Range(matched) <=> \E i \in DOMAIN settings, k \in DOMAIN remote : m \in Range(R[i][k])
  <2> HIDE DEF R, T
  <2> QED BY <1>5, FlatPairs
<1> HIDE DEF R, matched
<1>7. (\E m \in Range(matched) : Carries(m, context, d, direction)) <=>
      \E s \in Range(settings), c \in Range(remote) : Carries(s, context, d, direction) /\ Takes(c, context, d)
  <2>1. (\E m \in Range(matched) : Carries(m, context, d, direction)) <=>
        \E i \in DOMAIN settings, k \in DOMAIN remote :
           Carries(settings[i], context, d, direction) /\ Takes(remote[k], context, d)
    <3> HIDE DEF T
    <3> QED BY <1>4, <1>6
  <2> QED BY <2>1 DEF Range
<1>8. ASSUME NEW i \in DOMAIN matched, NEW k \in DOMAIN requirements
      PROVE  /\ Q[i][k] \in Seq(T)
             /\ (\E n \in Range(Q[i][k]) : Carries(n, context, d, direction)) <=>
                Carries(matched[i], context, d, direction) /\ Meets(requirements[k], context, d, direction)
  <2>1. Q[i][k] = getRequirementMatchedAseConfigurationSettings(matched[i], requirements[k])
    OBVIOUS
  <2>2. matched[i] \in T
    <3> HIDE DEF T
    <3> QED BY <1>6
  <2> HIDE DEF Q, contexts
  <2> QED BY <2>1, <2>2, ByRequirement
<1>9. Table(Q, matched, requirements, T)
  <2>1. \A i \in DOMAIN matched : Q[i] = [k \in DOMAIN requirements |-> Q[i][k]]
    OBVIOUS
  <2>2. Q = [i \in DOMAIN matched |-> Q[i]]
    OBVIOUS
  <2> HIDE DEF Q, T
  <2>3. \A i \in DOMAIN matched : Q[i] \in [DOMAIN requirements -> Seq(T)]
    BY <1>8, <2>1
  <2> QED BY <2>2, <2>3 DEF Table
<1>10. \A n : n \in Range(answered) <=> \E i \in DOMAIN matched, k \in DOMAIN requirements : n \in Range(Q[i][k])
  <2>1. matched \in Seq(T) /\ requirements \in Seq(Y)
    BY <1>6
  <2> HIDE DEF Q, T
  <2>2. \A n : n \in Range(Pairs(Q)) <=>
              \E i \in DOMAIN matched, k \in DOMAIN requirements : n \in Range(Q[i][k])
    BY <1>9, <2>1, FlatPairs
  <2> QED BY <2>2
<1> HIDE DEF Q, answered
<1>11. (\E n \in Range(answered) : Carries(n, context, d, direction)) <=>
       \E m \in Range(matched), r \in Range(requirements) :
          Carries(m, context, d, direction) /\ Meets(r, context, d, direction)
  <2>1. (\E n \in Range(answered) : Carries(n, context, d, direction)) <=>
        \E i \in DOMAIN matched, k \in DOMAIN requirements :
           Carries(matched[i], context, d, direction) /\ Meets(requirements[k], context, d, direction)
    <3> HIDE DEF T
    <3> QED BY <1>8, <1>10
  <2> QED BY <2>1 DEF Range
<1> HIDE DEF T
<1> QED BY <1>3, <1>7, <1>11

\* What the settings that are loaded have, and the capabilities and the requirements of a
\* query accept.
Choosable(context, d, a) ==
    /\ \E s \in Range(ase_configuration_settings_) : Carries(s, context, d, a.direction)
    /\ \E c \in Range(a.remote) : Takes(c, context, d)
    /\ \E r \in Range(a.requirements) : Meets(r, context, d, a.direction)

\* The settings are none or those of the files, of the files if they could be read, and an
\* answer has what can be chosen of them.
AseInv ==
    /\ ase_configuration_settings_ \in {<<>>, Settings}
    /\ answer.call = "ase" =>
          /\ answer.direction \in {Sink, Source}
          /\ answer.readable => ase_configuration_settings_ = Settings
          /\ \A context, d : Offered(context, d, answer) <=> Choosable(context, d, answer)

\* What is offered, in terms of the settings answered.
LEMMA OfferedCarries ==
    ASSUME NEW context, NEW d, NEW a
    PROVE  Offered(context, d, a) <=> \E n \in Range(a.value) : Carries(n, context, d, a.direction)
BY DEF Offered, Carries, Range

\* The settings that are loaded are settings of the files.
LEMMA LoadedIsList ==
    ASSUME NEW settings, settings \in {<<>>, Settings}
    PROVE  settings \in Seq(AllSettings)
<1>1. <<>> \in Seq(AllSettings) /\ Settings \in Seq(AllSettings)
  BY SettingsRange
<1> QED BY <1>1

\* With no other priorities, the same is accepted.
LEMMA SameAccepted ==
    ASSUME UNCHANGED codec_priority_map_, NEW context, NEW d
    PROVE  /\ \A c : Takes(c, context, d)' <=> Takes(c, context, d)
           /\ \A r, direction : Meets(r, context, d, direction)' <=> Meets(r, context, d, direction)
<1>1. \A a, b : isMatchedValidCodec(a, b)' <=> isMatchedValidCodec(a, b)
  BY DEF isMatchedValidCodec
<1>2. \A a, b : isMatchedAseConfiguration(a, b)' <=> isMatchedAseConfiguration(a, b)
  BY <1>1 DEF isMatchedAseConfiguration
<1>3. \A c : Takes(c, context, d)' <=> Takes(c, context, d)
  BY <1>1 DEF Takes
<1>4. \A r, direction : Meets(r, context, d, direction)' <=> Meets(r, context, d, direction)
  BY <1>2 DEF Meets
<1> QED BY <1>3, <1>4

\* getLeAudioAseConfiguration keeps this: a call that could not read the files leaves none.
LEMMA AseKeeps ==
    ASSUME AseInv, NEW q \in AseQueries, getLeAudioAseConfiguration(q.direction, q.remote, q.requirements)
    PROVE  AseInv'
<1>0. CASE Dies
  BY <1>0 DEF Dies, Died, AseInv, aseCaches
<1> SUFFICES ASSUME ~Dies PROVE AseInv'
  BY <1>0
<1>1. PICK configs \in BOOLEAN, scenarios \in BOOLEAN :
         /\ LoadAudioSetConfigurationProviderJson(configs, scenarios)
         /\ answer' = [call |-> "ase", direction |-> q.direction, remote |-> q.remote,
                       requirements |-> q.requirements, readable |-> configs /\ scenarios,
                       value |-> AseAnswer(ase_configuration_settings_', q.direction, q.remote,
                                           q.requirements)]
         /\ UNCHANGED codec_priority_map_
  BY DEF getLeAudioAseConfiguration
<1>2. /\ ase_configuration_settings_' \in {<<>>, Settings}
      /\ configs /\ scenarios => ase_configuration_settings_' = Settings
  BY <1>1 DEF AseInv, LoadAudioSetConfigurationProviderJson, aseCaches
<1>3. /\ answer'.direction = q.direction /\ answer'.remote = q.remote
      /\ answer'.requirements = q.requirements /\ (answer'.readable <=> configs /\ scenarios)
      /\ answer'.value = AseAnswer(ase_configuration_settings_', q.direction, q.remote, q.requirements)
  BY <1>1
<1>4. /\ q.direction \in {Sink, Source} /\ q.remote \in Seq(Range(q.remote))
      /\ q.requirements \in Seq(Range(q.requirements))
  BY QueriesAssumption
<1>5. ASSUME NEW context, NEW d PROVE Offered(context, d, answer') <=> Choosable(context, d, answer)'
  <2> DEFINE settings == ase_configuration_settings_'
  <2>1. settings \in Seq(AllSettings)
    BY <1>2, LoadedIsList
  <2>2. (\E n \in Range(AseAnswer(settings, q.direction, q.remote, q.requirements)) :
            Carries(n, context, d, q.direction)) <=>
        /\ \E s \in Range(settings) : Carries(s, context, d, q.direction)
        /\ \E c \in Range(q.remote) : Takes(c, context, d)
        /\ \E r \in Range(q.requirements) : Meets(r, context, d, q.direction)
    <3> HIDE DEF settings
    <3> QED BY <1>4, <2>1, AseAnswerHas
  <2>3. Offered(context, d, answer') <=>
        \E n \in Range(AseAnswer(settings, q.direction, q.remote, q.requirements)) :
           Carries(n, context, d, q.direction)
    BY <1>3, OfferedCarries
  <2>4. Choosable(context, d, answer)' <=>
        /\ \E s \in Range(settings) : Carries(s, context, d, q.direction)
        /\ \E c \in Range(q.remote) : Takes(c, context, d)
        /\ \E r \in Range(q.requirements) : Meets(r, context, d, q.direction)
    BY <1>1, <1>3, SameAccepted DEF Choosable
  <2> QED BY <2>2, <2>3, <2>4
<1> QED BY <1>2, <1>3, <1>4, <1>5 DEF AseInv

\* A QoS query for what was offered finds something as good.
LEMMA QosFound ==
    ASSUME NEW settings \in Seq(AllSettings), NEW direction \in {Sink, Source}, NEW context,
           NEW d \in Directions, \E s \in Range(settings) : Carries(s, context, d, direction),
           \E codec : isMatchedValidCodec(d.ase.codecId, codec)
    PROVE  LET r == [ase |-> d.ase, latency |-> d.qos.latency, retransmission |-> d.qos.retransmission]
               q == QosAnswer(settings, context, direction, r)
               found == IF direction = Sink THEN q.sink ELSE q.source
           IN  found # Nothing /\ found.latency <= d.qos.latency
               /\ found.retransmission = d.qos.retransmission
<1> DEFINE r == [ase |-> d.ase, latency |-> d.qos.latency, retransmission |-> d.qos.retransmission]
           same == {s \in Range(settings) : s.context = context}
           inContext == Keep(settings, same)
           lists == [i \in DOMAIN inContext |-> InDirection(inContext[i], direction)]
           all == FlattenSeq(lists)
           Good(e) == r = Nothing \/ (isMatchedAseConfiguration(e.ase, r.ase)
                                      /\ isMatchedQosRequirement(e.qos, r))
           I == {i \in 1 .. Len(all) : Good(all[i])}
           k == IF I # {} THEN Min(I) ELSE 0
           found == IF k = 0 THEN Nothing ELSE all[k].qos
           q == QosAnswer(settings, context, direction, r)
<1>1. q = [sink |-> IF direction = Sink \/ r = Nothing THEN found ELSE Nothing,
           source |-> IF direction = Source THEN found ELSE Nothing]
  <2> HIDE DEF r
  <2> QED BY DEF QosAnswer, SelectInSeq
<1>2. r # Nothing /\ r.ase = d.ase /\ r.latency = d.qos.latency /\ r.retransmission = d.qos.retransmission
  BY NothingAssumption
<1>3. inContext \in Seq(AllSettings) /\ Range(inContext) = Range(settings) \cap same
  <2> HIDE DEF same
  <2> QED BY KeepRange
<1>4. /\ all \in Seq(Directions)
      /\ \A e : e \in Range(all) <=> \E i \in DOMAIN lists : e \in Range(lists[i])
  <2>1. DOMAIN lists = DOMAIN inContext /\ lists = [i \in DOMAIN lists |-> lists[i]]
        /\ \A i \in DOMAIN lists : lists[i] = InDirection(inContext[i], direction)
    <3> HIDE DEF inContext
    <3> QED OBVIOUS
  <2> HIDE DEF inContext, lists
  <2>2. \A i \in DOMAIN lists : lists[i] \in Seq(Directions)
    <3>1. \A i \in DOMAIN inContext : inContext[i] \in AllSettings
      BY <1>3
    <3> QED BY <2>1, <3>1, SettingHasLists
  <2> QED BY <1>3, <2>1, <2>2, FlatMap
<1>5. d \in Range(all)
  <2>1. PICK s \in Range(settings) : Carries(s, context, d, direction)
    OBVIOUS
  <2>2. s \in Range(inContext) /\ d \in Range(InDirection(s, direction))
    BY <1>3, <2>1 DEF Carries
  <2> HIDE DEF inContext
  <2>3. PICK i \in DOMAIN inContext : inContext[i] = s
    BY <2>2 DEF Range
  <2>4. i \in DOMAIN lists /\ lists[i] = InDirection(s, direction)
    BY <2>3
  <2> HIDE DEF lists, all
  <2> QED BY <1>4, <2>2, <2>4
<1> HIDE DEF r, all
<1>6. Good(d)
  <2>1. isMatchedValidCodec(d.ase.codecId, d.ase.codecId)
    BY DEF isMatchedValidCodec
  <2>2. isMatchedAseConfiguration(d.ase, d.ase)
    BY <2>1 DEF isMatchedAseConfiguration
  <2>3. d.qos.latency \in Int
    BY LatencyIsNumber
  <2>4. isMatchedQosRequirement(d.qos, r)
    BY <1>2, <2>3 DEF isMatchedQosRequirement
  <2> QED BY <1>2, <2>2, <2>4
<1> HIDE DEF Good
<1>7. Len(all) \in Nat /\ DOMAIN all = 1 .. Len(all)
  BY <1>4
<1>8. I \in SUBSET (1 .. Len(all)) /\ I # {}
  BY <1>5, <1>6, <1>7 DEF Range
<1>9. k \in I /\ k # 0
  <2>1. Min(I) \in I
    <3> HIDE DEF I
    <3> QED BY <1>7, <1>8, FirstIndex
  <2>2. Min(I) # 0
    BY <1>7, <2>1
  <2> HIDE DEF I
  <2> QED BY <1>8, <2>1, <2>2
<1>10. all[k] \in Directions /\ Good(all[k])
  <2>1. k \in 1 .. Len(all) /\ Good(all[k])
    BY <1>9
  <2> HIDE DEF k
  <2> QED BY <1>4, <1>7, <2>1
<1> HIDE DEF k
<1>11. isMatchedQosRequirement(all[k].qos, r) /\ all[k].qos # Nothing
  BY <1>2, <1>10, NothingAssumption DEF Good
<1>12. found = all[k].qos
  BY <1>9
<1>13. (IF direction = Sink THEN q.sink ELSE q.source) = found
  <2> HIDE DEF q, found
  <2>1. q.sink = (IF direction = Sink \/ r = Nothing THEN found ELSE Nothing)
        /\ q.source = (IF direction = Source THEN found ELSE Nothing)
    BY <1>1
  <2> QED BY <2>1
<1>14. found # Nothing /\ found.latency <= d.qos.latency /\ found.retransmission = d.qos.retransmission
  BY <1>2, <1>11, <1>12 DEF isMatchedQosRequirement
<1> HIDE DEF q, found
<1> QED BY <1>13, <1>14 DEF q, r

\* A step that leaves what the queries are answered from alone, and answers none of them.
LEMMA QueriesUntouched ==
    ASSUME AseInv, answer'.call # "ase", UNCHANGED ase_configuration_settings_
    PROVE  AseInv'
BY DEF AseInv

\* Every step keeps the answers right.
LEMMA QueriesStep == ASSUME AseInv, [Next]_vars PROVE AseInv'
<1>1. CASE UNCHANGED vars
  <2>1. UNCHANGED <<answer, ase_configuration_settings_, codec_priority_map_>>
    BY <1>1 DEF vars, leVars, aseCaches
  <2>2. \A context, d : Choosable(context, d, answer)' <=> Choosable(context, d, answer)
    BY <2>1, SameAccepted DEF Choosable
  <2> QED BY <2>1, <2>2 DEF AseInv
<1>2. CASE Aside
  BY <1>2, QueriesUntouched DEF Aside, leVars, aseCaches
<1>3. CASE AskCapabilities /\ session_type \in LeTypes
  <2>1. getProviderCapabilities(session_type) /\ UNCHANGED aseCaches
    BY <1>3 DEF AskCapabilities
  <2>2. answer'.call = "capabilities"
    BY <2>1 DEF getProviderCapabilities
  <2> QED BY <2>1, <2>2, QueriesUntouched DEF aseCaches
<1>4. CASE AskInfo /\ session_type \in LeTypes
  <2>1. getProviderInfo(session_type) /\ UNCHANGED aseCaches
    BY <1>4, Classes DEF AskInfo
  <2>2. answer'.call = "info"
    BY <2>1 DEF getProviderInfo
  <2> QED BY <2>1, <2>2, QueriesUntouched DEF aseCaches
<1>5. ASSUME NEW remote \in Remotes, NEW h \in Hints, getA2dpConfiguration(remote, h), answer'.call = "a2dp"
      PROVE  AseInv'
  BY <1>5, QueriesUntouched DEF getA2dpConfiguration, Unchanged, leVars, aseCaches
<1>6. ASSUME NEW codec \in Codecs, NEW priority \in {Disabled, 0}, setCodecPriority(codec, priority)
      PROVE  AseInv'
  <2>1. answer'.call = "priority"
    BY <1>6 DEF setCodecPriority
  <2> QED BY <1>6, <2>1, QueriesUntouched DEF setCodecPriority, aseCaches
<1>7. ASSUME NEW q \in AseQueries, getLeAudioAseConfiguration(q.direction, q.remote, q.requirements)
      PROVE  AseInv'
  BY <1>7, AseKeeps
<1>8. ASSUME NEW q \in QosQueries, getLeAudioAseQosConfiguration(q.context, q.direction, q.required)
      PROVE  AseInv'
  <2>1. CASE Dies
    BY <2>1 DEF Dies, Died, AseInv, aseCaches
  <2>2. CASE ~Dies
    <3>1. PICK configs \in BOOLEAN, scenarios \in BOOLEAN :
             LoadAudioSetConfigurationProviderJson(configs, scenarios) /\ answer'.call = "qos"
      BY <1>8, <2>2 DEF getLeAudioAseQosConfiguration
    <3>2. ase_configuration_settings_' \in {<<>>, Settings}
      BY <3>1 DEF AseInv, LoadAudioSetConfigurationProviderJson, aseCaches
    <3> QED BY <3>1, <3>2 DEF AseInv
  <2> QED BY <2>1, <2>2
<1>9. ASSUME NEW q \in BroadcastQueries, getLeAudioBroadcastConfiguration(q.remote, q.counts)
      PROVE  AseInv'
  <2>1. answer'.call = "broadcast" /\ UNCHANGED ase_configuration_settings_
    BY <1>9 DEF getLeAudioBroadcastConfiguration, aseCaches
  <2> QED BY <2>1, QueriesUntouched
<1> QED BY <1>1, <1>2, <1>3, <1>4, <1>5, <1>6, <1>7, <1>8, <1>9, StepKinds

\* Answers of that kind are exact, name no disabled codec, and have a QoS.
LEMMA AseInvImplies == ASSUME AseInv PROVE AseAnswerIsExact /\ NoDisabledCodec /\ QosOfOffered
<1>1. AseAnswerIsExact
  <2> SUFFICES ASSUME answer.call = "ase", answer.readable, NEW context, NEW d
               PROVE  Offered(context, d, answer) <=> Wanted(context, d, answer)
    BY DEF AseAnswerIsExact
  <2>1. Offered(context, d, answer) <=> Choosable(context, d, answer)
    BY DEF AseInv
  <2>2. (\E s \in Range(ase_configuration_settings_) : Carries(s, context, d, answer.direction)) <=>
        InFiles(context, d, answer.direction)
    BY SettingsAreFiles DEF AseInv
  <2>3. (\E c \in Range(answer.remote) : Takes(c, context, d)) <=>
        \E c \in {answer.remote[i] : i \in DOMAIN answer.remote} :
           /\ isCapabilitiesMatchedContext(context, c) /\ isMatchedValidCodec(d.ase.codecId, c.codecId)
           /\ isCapabilitiesMatchedCodecConfiguration(d.ase.config, c.capabilities)
    BY DEF Takes, Range
  <2>4. (\E r \in Range(answer.requirements) : Meets(r, context, d, answer.direction)) <=>
        \E r \in {answer.requirements[i] : i \in DOMAIN answer.requirements} :
           LET wanted == IF answer.direction = Sink THEN r.sink ELSE r.source
           IN  r.context = context
               /\ (wanted = Nothing \/ \E q \in wanted : isMatchedAseConfiguration(d.ase, q))
    BY DEF Meets, Range
  <2> QED BY <2>1, <2>2, <2>3, <2>4 DEF Choosable, Wanted
<1>2. ASSUME answer.call = "ase", NEW context, NEW d, Offered(context, d, answer)
      PROVE  /\ answer.direction \in {Sink, Source}
             /\ ase_configuration_settings_ \in Seq(AllSettings)
             /\ \E s \in Range(ase_configuration_settings_) : Carries(s, context, d, answer.direction)
             /\ \E c \in Range(answer.remote) : isMatchedValidCodec(d.ase.codecId, c.codecId)
  <2>1. Choosable(context, d, answer)
    BY <1>2 DEF AseInv
  <2>2. ase_configuration_settings_ \in Seq(AllSettings)
    BY LoadedIsList DEF AseInv
  <2>3. \E c \in Range(answer.remote) : isMatchedValidCodec(d.ase.codecId, c.codecId)
    BY <2>1 DEF Choosable, Takes
  <2> QED BY <1>2, <2>1, <2>2, <2>3 DEF AseInv, Choosable
<1>3. NoDisabledCodec
  <2> SUFFICES ASSUME answer.call = "ase", NEW context, NEW d, Offered(context, d, answer)
               PROVE  /\ d.ase.codecId \notin {c \in DOMAIN codec_priority_map_ :
                                                 codec_priority_map_[c] = Disabled}
                      /\ d.ase.codecId \in {answer.remote[k].codecId : k \in DOMAIN answer.remote}
    BY DEF NoDisabledCodec
  <2>1. PICK c \in Range(answer.remote) : isMatchedValidCodec(d.ase.codecId, c.codecId)
    BY <1>2
  <2> QED BY <2>1 DEF isMatchedValidCodec, Range
<1>4. QosOfOffered
  <2> SUFFICES ASSUME answer.call = "ase", NEW i \in DOMAIN answer.value, NEW d \in Directions,
                      Offered(answer.value[i].context, d, answer)
               PROVE  LET r == [ase |-> d.ase, latency |-> d.qos.latency,
                                retransmission |-> d.qos.retransmission]
                          q == QosAnswer(ase_configuration_settings_, answer.value[i].context,
                                         answer.direction, r)
                          found == IF answer.direction = Sink THEN q.sink ELSE q.source
                      IN  found # Nothing /\ found.latency <= d.qos.latency
                          /\ found.retransmission = d.qos.retransmission
    BY DEF QosOfOffered
  <2>1. \E codec : isMatchedValidCodec(d.ase.codecId, codec)
    BY <1>2
  <2> QED BY <1>2, <2>1, QosFound
<1> QED BY <1>1, <1>3, <1>4

\* Whatever is asked in which order, with whichever priorities, and whichever read of the
\* files fails: as long as the process lives, which it does not if it loads a file that lacks
\* a QoS that it names, getLeAudioAseConfiguration answers exactly what the files, the
\* capabilities and the requirements admit, without a disabled codec, and a QoS query for any
\* of it succeeds.
THEOREM LeAnswersHold == Spec => []LeAnswersRight
<1>1. Init => AseInv
  BY DEF Init, OffloadInit, LeInit, Idle, AseInv
<1>2. AseInv /\ [Next]_vars => AseInv'
  BY QueriesStep
<1>3. AseInv => LeAnswersRight
  BY AseInvImplies DEF LeAnswersRight
<1> QED BY <1>1, <1>2, <1>3, PTL DEF Spec

=============================================================================
