--------------------------- MODULE AudioProviders ---------------------------
(***************************************************************************)
(* The provider factory, a provider of one of its fourteen session types,  *)
(* and what the session of that type keeps for it: the configuration, the  *)
(* data queue and the latency modes.  The Bluetooth stack makes one call   *)
(* at a time; answer is what the last one returned, until it is read, and  *)
(* for ever if the process died of it.                                     *)
(***************************************************************************)
EXTENDS LeAudioOffloadProvider, AudioCodecs, A2dpOffloadCodecs

CONSTANTS Worlds,           \* session types, with the files and the build they meet
          Configurations,   \* what the stack may ask a session for
          Updates,          \* and what it may change it to
          LatencyModes,     \* the sets of latency modes it may give
          Remotes, Hints,   \* A2DP: remote capabilities, [codec, parameters] to hint at
          AseQueries, QosQueries, BroadcastQueries

\* nullopt is no Boolean; an interval is not negative (the code makes an unsigned
\* size of it).
ASSUME ProvidersAssumption ==
    /\ Nothing \notin BOOLEAN
    /\ \A c \in Configurations : c.tag = "pcmConfig" => c.interval \in Nat

\* A remote device gives a list of capabilities, whose SBC bitpools are numbers; so are the
\* bitrates of a hint.
ASSUME RemotesAssumption ==
    /\ \A remote \in Remotes :
          /\ remote \in Seq(Range(remote))
          /\ \A r \in Range(remote) : r.id = "SBC" => r.caps.min \in Nat /\ r.caps.max \in Nat
          /\ \A r \in Range(remote) : r.whole \in BOOLEAN
    /\ \A h \in Hints : h.parameters.given \in BOOLEAN /\ h.parameters.min \in Int
                          /\ h.parameters.max \in Int

\* A query is for one direction, with lists of capabilities and of requirements.
ASSUME QueriesAssumption ==
    \A q \in AseQueries :
       /\ q.direction \in {Sink, Source} /\ q.remote \in Seq(Range(q.remote))
       /\ q.requirements \in Seq(Range(q.requirements))

VARIABLES session_type,
          kEnableA2dpCodecExtensibility,           \* of the build
          opened, stack_iface_, audio_config_, data_mq_,        \* the provider
          session,          \* the session: the same three, and the latency modes
          low_latency_allowed_,
          told              \* the last low latency report since the session started (history)

provider == <<opened, stack_iface_, audio_config_, data_mq_>>
leVars == <<caches, readFailed, aseCaches, codec_priority_map_, broadcast_settings>>
fixed == <<file, dangling, session_type, kEnableA2dpCodecExtensibility>>
vars == <<fixed, provider, session, low_latency_allowed_, told, leVars, answer>>

LeSoftware == {"LE_AUDIO_SOFTWARE_ENCODING", "LE_AUDIO_SOFTWARE_DECODING",
               "LE_AUDIO_BROADCAST_SOFTWARE_ENCODING"}
HfpSoftware == {"HFP_SOFTWARE_ENCODING", "HFP_SOFTWARE_DECODING"}
A2dpSoftware == {"A2DP_SOFTWARE_ENCODING", "A2DP_SOFTWARE_DECODING"}
A2dpOffload == {"A2DP_HARDWARE_OFFLOAD_ENCODING", "A2DP_HARDWARE_OFFLOAD_DECODING"}
HearingAid == {"HEARING_AID_SOFTWARE_ENCODING"}
HfpOffload == {"HFP_HARDWARE_OFFLOAD"}
LeUnicastOffload == {"LE_AUDIO_HARDWARE_OFFLOAD_ENCODING", "LE_AUDIO_HARDWARE_OFFLOAD_DECODING"}
LeBroadcastOffload == LeTypes \ LeUnicastOffload
Software == LeSoftware \cup HfpSoftware \cup A2dpSoftware \cup HearingAid
Types == Software \cup A2dpOffload \cup HfpOffload \cup LeTypes

Idle == [call |-> "none"]
Null == [tag |-> "null"]
NoQueue == 0

Init ==
    /\ OffloadInit /\ answer = Idle
    /\ session_type \in Types /\ kEnableA2dpCodecExtensibility \in BOOLEAN
    /\ [type |-> session_type, file |-> file, dangling |-> dangling,
        extensible |-> kEnableA2dpCodecExtensibility] \in Worlds
    /\ opened = FALSE /\ stack_iface_ = FALSE /\ audio_config_ = Null /\ data_mq_ = NoQueue
    /\ session = [stack_iface_ |-> FALSE, audio_config_ |-> Null, data_mq_ |-> NoQueue,
                  latency_modes_ |-> {}]
    /\ low_latency_allowed_ = TRUE /\ told = Nothing

-----------------------------------------------------------------------------
(* The session: BluetoothAudioSession *)

\* Mutant: the A2DP configuration of codec extensibility is not known here.
UpdateAudioConfigOld(c) ==
    \/ session_type \in Software /\ c.tag = "pcmConfig"
    \/ session_type \in A2dpOffload /\ c.tag = "a2dpConfig"
    \/ session_type \in HfpOffload /\ c.tag = "hfpConfig"
    \/ session_type \in LeUnicastOffload /\ c.tag = "leAudioConfig"
    \/ session_type \in LeBroadcastOffload /\ c.tag = "leAudioBroadcastConfig"

\* UpdateAudioConfig: whether the session has a configuration of this kind.
UpdateAudioConfig(c) ==
    \/ session_type \in Software /\ c.tag = "pcmConfig"
    \/ session_type \in A2dpOffload /\ c.tag \in {"a2dp", "a2dpConfig"}
    \/ session_type \in HfpOffload /\ c.tag = "hfpConfig"
    \/ session_type \in LeUnicastOffload /\ c.tag = "leAudioConfig"
    \/ session_type \in LeBroadcastOffload /\ c.tag = "leAudioBroadcastConfig"

IsSessionReady ==
    /\ session.stack_iface_ /\ session.audio_config_ # Null
    /\ session_type \in Software => session.data_mq_ # NoQueue

\* OnSessionStarted; mapped says whether the queue of the descriptor is valid.
\* A queue that is not leaves the session as it is, without a configuration.
OnSessionStarted(mq_desc, c, modes, mapped) ==
    CASE ~UpdateAudioConfig(c) -> UNCHANGED <<session, told>>
      [] UpdateAudioConfig(c) /\ mq_desc # NoQueue /\ ~mapped ->
            /\ session' = [session EXCEPT !.audio_config_ = Null, !.data_mq_ = NoQueue]
            /\ UNCHANGED told
      [] OTHER ->
            /\ session' = [stack_iface_ |-> TRUE, audio_config_ |-> c, data_mq_ |-> mq_desc,
                           latency_modes_ |-> modes]
            /\ told' = Nothing

OnSessionEnded ==
    session' = [session EXCEPT !.stack_iface_ = FALSE, !.audio_config_ = Null,
                               !.data_mq_ = NoQueue]

ReportAudioConfigChanged(c) ==
    session' = IF session_type \in LeUnicastOffload /\ c.tag = "leAudioConfig"
               THEN [session EXCEPT !.audio_config_ = c] ELSE session

\* Mutant: the mode that is allowed now is not inserted.
ReportLowLatencyModeAllowedChangedOnly(allowed) ==
    IF session_type # "A2DP_HARDWARE_OFFLOAD_ENCODING"
    THEN UNCHANGED <<session, low_latency_allowed_, told>>
    ELSE low_latency_allowed_' = allowed /\ told' = allowed /\ UNCHANGED session

ReportLowLatencyModeAllowedChanged(allowed) ==
    IF session_type # "A2DP_HARDWARE_OFFLOAD_ENCODING"
    THEN UNCHANGED <<session, low_latency_allowed_, told>>
    ELSE /\ low_latency_allowed_' = allowed /\ told' = allowed
         /\ session' = IF allowed
                       THEN [session EXCEPT !.latency_modes_ = @ \cup {"LOW_LATENCY"}]
                       ELSE session

GetSupportedLatencyModes ==
    IF ~IsSessionReady THEN {}
    ELSE session.latency_modes_
           \ IF session_type = "LE_AUDIO_HARDWARE_OFFLOAD_ENCODING" THEN {"LOW_LATENCY"}
             ELSE {"DYNAMIC_SPATIAL_AUDIO_SOFTWARE", "DYNAMIC_SPATIAL_AUDIO_HARDWARE"}
                  \cup IF low_latency_allowed_ THEN {} ELSE {"LOW_LATENCY"}

\* GetAudioConfig: without a session, a configuration of the kind with no values.
GetAudioConfig ==
    IF IsSessionReady THEN session.audio_config_
    ELSE CASE session_type \in A2dpOffload -> [tag |-> "a2dpConfig"]
           [] session_type \in HfpOffload -> [tag |-> "hfpConfig"]
           [] session_type \in LeUnicastOffload -> [tag |-> "leAudioConfig"]
           [] session_type \in LeBroadcastOffload -> [tag |-> "leAudioBroadcastConfig"]
           [] OTHER -> [tag |-> "pcmConfig", rate |-> 0, channelMode |-> "UNKNOWN",
                        bits |-> 0, interval |-> 0]

-----------------------------------------------------------------------------
(* The providers *)

Answers(a) == answer' = a
Refused == answer' = [call |-> "refused"]
Unchanged == UNCHANGED <<fixed, provider, session, low_latency_allowed_, told, leVars>>

\* The queues made with the provider: of A2DP and of hearing aids.
A2dpDataMqSize == 4 * 96 * 10 * 2
HearingAidDataMqSize == 4 * 128 * 7 * 1
OpenedWith ==
    CASE session_type \in A2dpSoftware -> A2dpDataMqSize
      [] session_type \in HearingAid -> HearingAidDataMqSize
      [] OTHER -> NoQueue

\* openProvider; a provider that has no queue where it needs one is not valid.
openProvider ==
    /\ answer = Idle /\ ~opened
    /\ \E allocated \in BOOLEAN :
          IF OpenedWith # NoQueue /\ ~allocated THEN Refused /\ UNCHANGED provider
          ELSE /\ opened' = TRUE /\ data_mq_' = OpenedWith
               /\ Answers([call |-> "open"]) /\ UNCHANGED <<stack_iface_, audio_config_>>
    /\ UNCHANGED <<fixed, session, low_latency_allowed_, told, leVars>>

channel_mode_to_channel_count(mode) ==
    CASE mode = "MONO" -> 1 [] mode = "STEREO" -> 2 [] OTHER -> 0

\* Two buffers of an interval in whole milliseconds; 24 bits are unpacked.
LeDataMqSize(c) ==
    (c.rate * channel_mode_to_channel_count(c.channelMode)
       * (IF c.bits = 24 THEN 4 ELSE c.bits \div 8) * (c.interval \div 1000) * 2) \div 1000

HfpDataMqSize(c) ==
    (2 * (c.bits \div 8) * (c.rate \div 1000) * c.interval) \div 1000

\* What startSession of a provider accepts, before it makes a queue.
HfpSoftwareAccepts(c) ==
    /\ c.tag = "pcmConfig" /\ IsSoftwarePcmConfigurationValid(c)
    /\ c.bits = 16 /\ c.rate \in {8000, 16000, 32000} /\ c.channelMode = "MONO"
    /\ c.interval = 7500
LeSoftwareAccepts(c) ==
    c.tag = "pcmConfig" /\ IsSoftwarePcmConfigurationValid(c) /\ LeDataMqSize(c) > 0
A2dpOffloadAccepts(c) ==
    \/ c.tag = "a2dp" /\ Parse(c.id, c.whole, c.config) = "OK"
    \/ c.tag = "a2dpConfig" /\ IsOffloadCodecConfigurationValid(c.codecType, c.specific)
LeOffloadAccepts(c) ==
    c.tag = IF session_type \in LeBroadcastOffload THEN "leAudioBroadcastConfig"
            ELSE "leAudioConfig"
A2dpSoftwareAccepts(c) == c.tag = "pcmConfig" /\ IsSoftwarePcmConfigurationValid(c)
HearingAidAccepts(c) == c.tag = "pcmConfig" /\ IsSoftwarePcmConfigurationValid(c)
HfpOffloadAccepts(c) == c.tag = "hfpConfig"
Accepts(c) ==
    CASE session_type \in A2dpSoftware -> A2dpSoftwareAccepts(c)
      [] session_type \in HearingAid -> HearingAidAccepts(c)
      [] session_type \in LeSoftware -> LeSoftwareAccepts(c)
      [] session_type \in HfpSoftware -> HfpSoftwareAccepts(c)
      [] session_type \in A2dpOffload -> A2dpOffloadAccepts(c)
      [] session_type \in HfpOffload -> HfpOffloadAccepts(c)
      [] OTHER -> LeOffloadAccepts(c)

\* The queue startSession has made when it goes on; LE and HFP make a new one.
QueueFor(c) ==
    CASE session_type \in LeSoftware -> LeDataMqSize(c)
      [] session_type \in HfpSoftware -> HfpDataMqSize(c)
      [] OTHER -> data_mq_

\* startSession of the base, behind the checks of each provider.
startSession(c, modes, host_if, allocated, mapped) ==
    /\ answer = Idle /\ opened
    /\ IF ~Accepts(c) \/ (session_type \in LeSoftware \cup HfpSoftware /\ ~allocated)
       THEN /\ UNCHANGED <<provider, session, told>>
            /\ Answers([call |-> "start", of |-> c, ok |-> FALSE,
                        served |-> host_if /\ allocated /\ mapped])
       ELSE /\ data_mq_' = QueueFor(c)
            /\ IF ~host_if THEN UNCHANGED <<stack_iface_, audio_config_, session, told>>
               ELSE /\ stack_iface_' = TRUE /\ audio_config_' = c
                    /\ OnSessionStarted(data_mq_', c, modes, mapped)
            /\ Answers([call |-> "start", of |-> c, modes |-> modes, ok |-> host_if,
                        served |-> host_if /\ allocated /\ mapped])
            /\ UNCHANGED opened
    /\ UNCHANGED <<fixed, low_latency_allowed_, leVars>>

endSession ==
    /\ answer = Idle /\ opened
    /\ IF stack_iface_ THEN OnSessionEnded ELSE UNCHANGED session
    /\ stack_iface_' = FALSE /\ audio_config_' = Null
    /\ Answers([call |-> "end"])
    /\ UNCHANGED <<fixed, opened, data_mq_, low_latency_allowed_, told, leVars>>

updateAudioConfiguration(c) ==
    /\ answer = Idle /\ opened
    /\ IF ~stack_iface_ \/ audio_config_ = Null \/ c.tag # audio_config_.tag
       THEN Refused /\ UNCHANGED <<audio_config_, session>>
       ELSE /\ audio_config_' = c /\ ReportAudioConfigChanged(c)
            /\ Answers([call |-> "update"])
    /\ UNCHANGED <<fixed, opened, stack_iface_, data_mq_, low_latency_allowed_, told, leVars>>

setLowLatencyModeAllowed(allowed) ==
    /\ answer = Idle /\ opened
    /\ IF ~stack_iface_ THEN Refused /\ UNCHANGED <<session, low_latency_allowed_, told>>
       ELSE ReportLowLatencyModeAllowedChanged(allowed) /\ Answers([call |-> "latency"])
    /\ UNCHANGED <<fixed, provider, leVars>>

-----------------------------------------------------------------------------
(* What the stack asks before a session *)

Before == answer = Idle /\ ~stack_iface_

\* getProviderCapabilities and getProviderInfo of the factory.
AskCapabilities ==
    /\ Before
    /\ IF session_type \in LeTypes
       THEN getProviderCapabilities(session_type) /\ UNCHANGED <<aseCaches, codec_priority_map_,
                                                                 broadcast_settings>>
       ELSE /\ Answers([call |-> "advertised",
                        value |-> IF session_type \in A2dpOffload
                                  THEN GetA2dpOffloadCodecCapabilities
                                  ELSE [PCM |-> kDefaultSoftwarePcmCapabilities]])
            /\ UNCHANGED leVars
    /\ UNCHANGED <<fixed, provider, session, low_latency_allowed_, told>>
AskInfo ==
    /\ Before
    /\ CASE session_type \in LeTypes ->
              getProviderInfo(session_type) /\ UNCHANGED <<aseCaches, codec_priority_map_,
                                                           broadcast_settings>>
         [] session_type \in A2dpOffload /\ ~kEnableA2dpCodecExtensibility ->
              Refused /\ UNCHANGED leVars
         [] OTHER -> /\ Answers([call |-> "info", value |->
                                   IF session_type \in A2dpOffload THEN {"AAC", "SBC"} ELSE {}])
                     /\ UNCHANGED leVars
    /\ UNCHANGED <<fixed, provider, session, low_latency_allowed_, told>>

\* getA2dpConfiguration and parseA2dpConfiguration, of a build that has them.
getA2dpConfiguration(remote, hint) ==
    /\ Before /\ opened /\ Unchanged
    /\ IF session_type \notin A2dpOffload \/ ~kEnableA2dpCodecExtensibility THEN Refused
       ELSE \E order \in Orders(hint.codec) :
               Answers([call |-> "a2dp", remote |-> remote, hint |-> hint.parameters,
                        value |-> GetConfiguration(order, remote, hint.parameters)])
parseA2dpConfiguration(c) ==
    /\ Before /\ opened /\ Unchanged
    /\ IF session_type \notin A2dpOffload \/ ~kEnableA2dpCodecExtensibility THEN Refused
       ELSE Answers([call |-> "parsed", value |-> Parse(c.id, c.whole, c.config)])

\* The queries of LE offload; every other provider has none of them.
OffloadQuery(query) ==
    /\ Before /\ opened
    /\ IF session_type \in LeTypes THEN query ELSE Refused /\ UNCHANGED leVars
    /\ UNCHANGED <<fixed, provider, session, low_latency_allowed_, told>>

Return ==
    answer \notin {Idle, Died} /\ answer' = Idle /\ Unchanged

Next ==
    \/ openProvider \/ endSession \/ AskCapabilities \/ AskInfo \/ Return
    \/ \E c \in Configurations, modes \in LatencyModes,
          host_if, allocated, mapped \in BOOLEAN :
          startSession(c, modes, host_if, allocated, mapped)
    \/ \E c \in Updates : updateAudioConfiguration(c)
    \/ \E allowed \in BOOLEAN : setLowLatencyModeAllowed(allowed)
    \/ \E remote \in Remotes, hint \in Hints : getA2dpConfiguration(remote, hint)
    \/ \E c \in {x \in Configurations : x.tag = "a2dp"} : parseA2dpConfiguration(c)
    \/ \E codec \in Codecs, priority \in {Disabled, 0} :
          OffloadQuery(setCodecPriority(codec, priority))
    \/ \E q \in AseQueries :
          OffloadQuery(getLeAudioAseConfiguration(q.direction, q.remote, q.requirements))
    \/ \E q \in QosQueries :
          OffloadQuery(getLeAudioAseQosConfiguration(q.context, q.direction, q.required))
    \/ \E q \in BroadcastQueries :
          OffloadQuery(getLeAudioBroadcastConfiguration(q.remote, q.counts))

Spec == Init /\ [][Next]_vars

-----------------------------------------------------------------------------
(* Properties *)

\* What a provider accepts, the session behind it takes: when startSession says
\* that it went well and the queue can be mapped, the session is ready with that
\* configuration, with those modes and with the provider's queue; and a
\* configuration that is updated on an offloaded unicast session is the one the
\* ports are told.
SessionFollowsProvider ==
    /\ answer.call = "start" /\ answer.ok /\ answer.served =>
          IsSessionReady /\ GetAudioConfig = answer.of /\ session.data_mq_ = data_mq_
          /\ session.latency_modes_ = answer.modes
    /\ IsSessionReady /\ session_type \in LeUnicastOffload => GetAudioConfig = audio_config_

\* The queue an LE or HFP software session was started with holds at least one
\* interval of the samples in the format its port writes, and at most two.
QueueHoldsInterval ==
    session_type \in LeSoftware \cup HfpSoftware /\ IsSessionReady =>
       LET c == GetAudioConfig
           port == aidl_LoadAudioConfig(c, session_type, FALSE)
           \* in thousandths of a byte; the rates are whole hundreds
           needed == (port[1] \div 100) * port[2] * BytesOf(port[3]) * (c.interval \div 10)
       IN  session.data_mq_ * 1000 >= needed /\ session.data_mq_ * 1000 <= 2 * needed

\* Over any number of sessions, a port is offered LOW_LATENCY only if the stack
\* did not withdraw it last, and is offered it once it was told in this session
\* that it may use it.
LowLatencyAgrees ==
    session_type = "A2DP_HARDWARE_OFFLOAD_ENCODING" /\ IsSessionReady =>
       /\ told = TRUE => "LOW_LATENCY" \in GetSupportedLatencyModes
       /\ told = FALSE => "LOW_LATENCY" \notin GetSupportedLatencyModes
       /\ ~low_latency_allowed_ => "LOW_LATENCY" \notin GetSupportedLatencyModes

\* A port of each kind, the HIDL one behind the middleware, tells the audio HAL
\* the same of a running software session: rate and channels always, the format
\* unless it is 24 bits; without a session neither can load a configuration.
PortsAgree ==
    session_type \in Software =>
       LET c == GetAudioConfig
           aidl == aidl_LoadAudioConfig(c, session_type, FALSE)
           hidl == hidl_LoadAudioConfig(to_hidl_pcm_config_2_1(c), FALSE)
       IN  IF ~IsSessionReady THEN aidl = <<>> /\ hidl = <<>>
           ELSE /\ aidl # <<>> /\ hidl # <<>>
                /\ aidl[1] = hidl[1] /\ aidl[2] = hidl[2]
                /\ aidl[3] = hidl[3] \/ c.bits = 24

\* The configuration that an offloaded A2DP session runs with is, once the middleware has
\* converted it, one that the HIDL session would have accepted, unless the bitrate, which
\* only HIDL looks at, is not given or does not fit; so is that of a software session,
\* unless the rate is one of the two that HIDL's own table lacks.
HidlAcceptsConverted ==
    IsSessionReady =>
       /\ GetAudioConfig.tag = "a2dpConfig" /\ GetAudioConfig.codecType # "OPUS"
             /\ hidl_IsBitrateValid(GetAudioConfig.specific.bitrate) =>
             hidl_IsOffloadCodecConfigurationValid(
                to_hidl_codec_type_2_0(GetAudioConfig.codecType),
                to_hidl_codec_config_2_0(GetAudioConfig.specific))
       /\ GetAudioConfig.tag = "pcmConfig" =>
             LET hidl == to_hidl_pcm_config_2_1(GetAudioConfig)
             IN  /\ GetAudioConfig.rate \notin {8000, 32000} => IsSoftwarePcmConfigurationValid_2_0(hidl)
                 /\ session_type \in LeSoftware /\ GetAudioConfig.rate \notin {8000, 32000} =>
                       IsSoftwarePcmConfigurationValid_2_1(hidl)

\* The kind of parameters that a codec has.
KindOf(codecType) ==
    CASE codecType = "SBC" -> "sbc" [] codecType = "AAC" -> "aac" [] codecType = "LDAC" -> "ldac"
      [] codecType \in {"APTX", "APTX_HD"} -> "aptx" [] OTHER -> "opus"

\* A configuration within the capabilities that getProviderCapabilities
\* advertises is accepted by startSession (HFP has requirements of its own).
Advertised(c) ==
    CASE c.tag = "a2dpConfig" ->
            /\ session_type \in A2dpOffload
            /\ c.codecType \in DOMAIN GetA2dpOffloadCodecCapabilities
            /\ c.specific.tag = KindOf(c.codecType)
            /\ ContainedInVector(GetA2dpOffloadCodecCapabilities[c.codecType], c.specific)
            /\ c.codecType = "SBC" => SbcBitpools.min <= c.specific.min /\ c.specific.min <= c.specific.max
                                      /\ c.specific.max <= SbcBitpools.max
      [] c.tag = "pcmConfig" ->
            /\ session_type \in Software \ HfpSoftware
            /\ ContainedInVector(kDefaultSoftwarePcmCapabilities, c) /\ c.interval >= 1000
      [] OTHER -> FALSE
AdvertisedIsAccepted ==
    answer.call = "start" /\ answer.served /\ Advertised(answer.of) => answer.ok

\* getA2dpConfiguration offers what startSession accepts, as the factory
\* asserts, whatever the remote device says it can do.
A2dpOfferIsAccepted ==
    answer.call = "a2dp" => OfferIsAccepted(answer.value)

\* Every parameter of the offer is one value that the remote device has as well,
\* also when it is not the one hinted at.  The bitpools offered for SBC are those that
\* an exhaustive search over the bitrates gives.  No more than that holds of the upper
\* one: BuildConfiguration takes the larger of the two sides, which is not the device's.
A2dpOfferWithinRemote ==
    answer.call = "a2dp" => OfferWithinRemote(answer.value, answer.remote, answer.hint)

\* What getA2dpConfiguration offers: accepted here, possible there, and as close to the
\* hint as the bitrates allow.
A2dpOfferRight == A2dpOfferIsAccepted /\ A2dpOfferWithinRemote

\* Capabilities, sessions, queues and ports of both kinds agree on a configuration.
ConfigurationsAgree ==
    AdvertisedIsAccepted /\ QueueHoldsInterval /\ PortsAgree /\ HidlAcceptsConverted

=============================================================================
