----------------------- MODULE LeAudioOffloadProvider -----------------------
(***************************************************************************)
(* The queries of LeAudioOffloadAudioProvider: ASE configurations, their   *)
(* QoS and broadcast configurations, and the two JSON files of             *)
(* AudioSetConfigurationProviderJson that the first two are answered from. *)
(* A codec configuration is a function from the parameters it has to their *)
(* values, and so are the capabilities it is compared with.                *)
(***************************************************************************)
EXTENDS LeAudioCodecs

CONSTANTS sets,             \* the content of the two JSON files, if they are whole
          Codecs            \* the codecs that may be given a priority

VARIABLES dangling,         \* they are not: the first one lacks something that it is read for
          configurations_, ase_configuration_settings_,
          codec_priority_map_, broadcast_settings

aseCaches == <<configurations_, ase_configuration_settings_>>

Sink == 1
Source == 2
Disabled == -1              \* CODEC_PRIORITY_DISABLED

-----------------------------------------------------------------------------
(* What is made of the JSON files *)

FirstNamed(entries, name) ==
    LET i == SelectInSeq(entries, LAMBDA e : e.name = name)
    IN  IF i = 0 THEN Nothing ELSE entries[i]

LookupCodecSpecificParam(params, type, default) ==
    IF type \in DOMAIN params THEN params[type] ELSE default

\* The frequencies and durations that have a notation; a set of locations keeps
\* the ones that are defined.
sampling_freq_map == 1 :> 8000 @@ 3 :> 16000 @@ 5 :> 24000 @@ 6 :> 32000
                       @@ 7 :> 44100 @@ 8 :> 48000
frame_duration_map == 0 :> 7500 @@ 1 :> 10000
audio_channel_allocation_map == 0 .. 27
populateAudioChannelAllocation(location) == location \cap audio_channel_allocation_map

\* populateConfigurationData: a parameter the file does not give counts as 0,
\* which is no frequency but a frame duration.
populateConfigurationData(params) ==
    LET freq == LookupCodecSpecificParam(params, "freq", 0)
        duration == LookupCodecSpecificParam(params, "duration", 0)
        optional(tag, key, map) == IF key \in DOMAIN map THEN tag :> map[key] ELSE <<>>
    IN  optional("freq", freq, sampling_freq_map)
        @@ optional("duration", duration, frame_duration_map)
        @@ "channels" :> populateAudioChannelAllocation(
                            LookupCodecSpecificParam(params, "channels", {}))
        @@ "octets" :> LookupCodecSpecificParam(params, "octets", 0)
        @@ "blocks" :> LookupCodecSpecificParam(params, "blocks", 0)

\* The target latency of a QoS configuration, UNDEFINED for one that is none.
TargetLatency(latency) ==
    IF latency \in {"LOW", "BALANCED_RELIABILITY", "HIGH_RELIABILITY"} THEN latency
    ELSE "UNDEFINED"
populateAseConfiguration(sub, qos) ==
    [codecId |-> sub.codecId, targetLatency |-> TargetLatency(qos.latency),
     config |-> populateConfigurationData(sub.params)]
populateAseQosConfiguration(qos) ==
    [latency |-> qos.transport, retransmission |-> qos.retransmission]

\* The data path of a codec location; the settings are loaded for the host.
DataPath(location) ==
    CASE location = "ADSP" -> [transparent |-> TRUE, id |-> 1]
      [] location = "HOST" -> [transparent |-> TRUE, id |-> 0]
      [] location = "CONTROLLER" -> [transparent |-> FALSE, id |-> 1]

\* Both functions read through qos and through the value of a parameter as they are: of a
\* QoS name that the file lacks, or a parameter without a value, they read through null.
SetConfigurationFromFlatSubconfig(sub, qos, location) ==
    [ase |-> populateAseConfiguration(sub, qos), qos |-> populateAseQosConfiguration(qos),
     path |-> DataPath(location)]

\* The QoS names of a configuration: for the sink and for the source.
QosNames(cfg) ==
    CASE Len(cfg.qos) = 0 -> <<"QoS_Config_Balanced_Reliability", "QoS_Config_Balanced_Reliability">>
      [] Len(cfg.qos) = 1 -> <<cfg.qos[1], cfg.qos[1]>>
      [] OTHER -> <<cfg.qos[1], cfg.qos[2]>>

\* PopulateAseConfigurationFromFlat, one direction of it: a subconfiguration is
\* for the sink or, whatever else it says, for the source.
Populate(j, cfg, direction, location) ==
    LET codec == FirstNamed(j.codecs, cfg.codec)
        subs == IF codec = Nothing THEN <<>>
                ELSE Keep(codec.subs, {s \in Range(codec.subs) :
                                         (s.direction = Sink) = (direction = Sink)})
        qos == FirstNamed(j.qos, QosNames(cfg)[direction])
    IN  [i \in DOMAIN subs |-> SetConfigurationFromFlatSubconfig(subs[i], qos, location)]

\* LoadConfigurationsFromFiles: the map by name, the last one of a name.
LoadConfigurationsFromFiles(j, location) ==
    LET of(cfg) == [name |-> cfg.name, source |-> Populate(j, cfg, Source, location),
                    sink |-> Populate(j, cfg, Sink, location)]
        all == [i \in DOMAIN j.configurations |-> of(j.configurations[i])]
    IN  IF j.qos = <<>> \/ j.codecs = <<>> THEN <<>>
        ELSE ByName(Reverse(Keep(all, {c \in Range(all) : c.source # <<>> \/ c.sink # <<>>})))

Context(scenario) ==
    CASE scenario = "Media" -> {"ALERTS", "INSTRUCTIONAL", "NOTIFICATIONS", "EMERGENCY_ALARM",
                                "UNSPECIFIED", "MEDIA"}
      [] scenario = "Conversational" -> {"RINGTONE_ALERTS", "CONVERSATIONAL"}
      [] scenario = "Live" -> {"LIVE_AUDIO"}
      [] scenario = "Game" -> {"GAME"}
      [] scenario = "VoiceAssistants" -> {"VOICE_ASSISTANTS"}
      [] OTHER -> {}

\* LoadScenariosFromFiles: a setting for every name that has a configuration.
LoadScenariosFromFiles(j, map) ==
    LET of(s) == LET known == Keep(s.configurations, DOMAIN map)
                 IN  [i \in DOMAIN known |-> [context |-> Context(s.name),
                                              source |-> map[known[i]].source,
                                              sink |-> map[known[i]].sink]]
    IN  FlattenSeq([i \in DOMAIN j.scenarios |-> of(j.scenarios[i])])

\* What the two files lead to.
Configured == LoadConfigurationsFromFiles(sets, "HOST")
Settings == LoadScenariosFromFiles(sets, Configured)

\* Every configuration of one direction that there is.
Directions ==
    UNION {Range(Configured[n].sink) \cup Range(Configured[n].source) : n \in DOMAIN Configured}

\* The files hold lists; of whole ones, the QoS that a configuration names is there wherever
\* its codec has a subconfiguration, with a latency that is a number.
ASSUME SetsAssumption ==
    /\ sets.configurations \in Seq(Range(sets.configurations))
    /\ sets.codecs \in Seq(Range(sets.codecs)) /\ sets.scenarios \in Seq(Range(sets.scenarios))
    /\ \A c \in Range(sets.codecs) : c.subs \in Seq(Range(c.subs))
    /\ \A s \in Range(sets.scenarios) : s.configurations \in Seq(Range(s.configurations))
    /\ \A cfg \in Range(sets.configurations), direction \in {Sink, Source} :
          Populate(sets, cfg, direction, "HOST") # <<>> =>
             FirstNamed(sets.qos, QosNames(cfg)[direction]).transport \in Int

\* nullopt is no list, no QoS configuration, no requirement and no word.
ASSUME NothingAssumption ==
    /\ Nothing \notin Seq(Directions)
    /\ \A d \in Directions :
          /\ d.qos # Nothing
          /\ [ase |-> d.ase, latency |-> d.qos.latency, retransmission |-> d.qos.retransmission]
                # Nothing

-----------------------------------------------------------------------------
(* The settings that are loaded, and the broadcast settings *)

OffloadInit ==
    /\ LeInit
    /\ configurations_ = <<>> /\ ase_configuration_settings_ = <<>>
    /\ codec_priority_map_ = <<>> /\ broadcast_settings = <<>>
    /\ dangling \in BOOLEAN

\* Mutant: what is there of the first file is not loaded again.
LoadAudioSetConfigurationProviderJsonOnce(configs, scenarios) ==
    IF configurations_ = <<>> /\ ase_configuration_settings_ = <<>>
    THEN /\ configurations_' = IF configs THEN Configured ELSE <<>>
         /\ ase_configuration_settings_' = IF configs /\ scenarios THEN Settings ELSE <<>>
    ELSE UNCHANGED aseCaches

\* LoadAudioSetConfigurationProviderJson and LoadContent; configs and scenarios
\* say which of the files can be read.
LoadAudioSetConfigurationProviderJson(configs, scenarios) ==
    IF configurations_ = <<>> \/ ase_configuration_settings_ = <<>>
    THEN /\ configurations_' = IF configs THEN Configured ELSE <<>>
         /\ ase_configuration_settings_' = IF configs /\ scenarios THEN Settings ELSE <<>>
    ELSE UNCHANGED aseCaches

\* A load that reads the first file of the two through null ends the process, which
\* answers nothing any more.
Died == [call |-> "died"]
Dereferences(configs) ==
    dangling /\ configs /\ (configurations_ = <<>> \/ ase_configuration_settings_ = <<>>)
Dies == answer' = Died /\ UNCHANGED aseCaches

\* getBroadcastSettings: of the codec information of the broadcast session.
getBroadcastSettings(readable) ==
    IF broadcast_settings # <<>> THEN UNCHANGED <<caches, readFailed, broadcast_settings>>
    ELSE /\ GetLeAudioOffloadCodecInfo(readable)
         /\ LET infos == SetToSeq({i \in CodecInfoAnswer(
                                           "LE_AUDIO_BROADCAST_HARDWARE_OFFLOAD_ENCODING") :
                                     i.frame # Nothing})
            IN  broadcast_settings' =
                   [n \in DOMAIN infos |->
                      << << [codecId |-> infos[n].id,
                             config |-> "freq" :> infos[n].frame.freq
                                        @@ "octets" :> infos[n].frame.octets
                                        @@ "duration" :> infos[n].frame.duration
                                        @@ "channels" :> {2}] >> >>]

-----------------------------------------------------------------------------
(* Matching *)

\* setCodecPriority.
setCodecPriority(codec, priority) ==
    /\ codec_priority_map_' = codec :> priority @@ codec_priority_map_
    /\ answer' = [call |-> "priority"]
    /\ UNCHANGED <<caches, readFailed, aseCaches, broadcast_settings>>

isMatchedValidCodec(cfg_codec, req_codec) ==
    /\ cfg_codec \in DOMAIN codec_priority_map_ => codec_priority_map_[cfg_codec] # Disabled
    /\ cfg_codec = req_codec

\* No metadata matches every context; several preferred contexts, any of them.
isCapabilitiesMatchedContext(context, c) ==
    c.metadata = Nothing \/ \E preferred \in c.metadata : context \cap preferred # {}

\* freq_to_support_bitmask_map has no entry for 44100.
isMatchedSamplingFreq(freq, supported) ==
    /\ freq \in {8000, 11025, 16000, 22050, 24000, 32000, 48000, 88200, 96000, 176400,
                 192000, 384000}
    /\ freq \in supported
isMatchedFrameDuration(duration, supported) == duration \in {7500, 10000} /\ duration \in supported
isMatchedAudioChannel(channels, supported) == TRUE
isMatchedCodecFramesPerSDU(blocks, supported) == blocks <= supported
isMatchedOctetsPerCodecFrame(octets, supported) ==
    octets >= supported.min /\ octets <= supported.max

isCapabilitiesMatchedCodecConfiguration(cfg, capabilities) ==
    \A t \in DOMAIN capabilities :
       /\ t \in DOMAIN cfg
       /\ CASE t = "freq" -> isMatchedSamplingFreq(cfg[t], capabilities[t])
            [] t = "duration" -> isMatchedFrameDuration(cfg[t], capabilities[t])
            [] t = "channels" -> isMatchedAudioChannel(cfg[t], capabilities[t])
            [] t = "blocks" -> isMatchedCodecFramesPerSDU(cfg[t], capabilities[t])
            [] t = "octets" -> isMatchedOctetsPerCodecFrame(cfg[t], capabilities[t])

isMatchedAseConfiguration(ase, req) ==
    /\ req.codecId # Nothing => isMatchedValidCodec(ase.codecId, req.codecId)
    /\ ase.targetLatency = req.targetLatency
    /\ \A t \in DOMAIN req.config : t \in DOMAIN ase.config /\ ase.config[t] = req.config[t]

isMatchedBISConfiguration(bis, c) ==
    /\ isMatchedValidCodec(bis.codecId, c.codecId)
    /\ isCapabilitiesMatchedCodecConfiguration(bis.config, c.capabilities)

filterCapabilitiesAseDirectionConfiguration(directions, c) ==
    Keep(directions, {d \in Range(directions) :
       isMatchedValidCodec(d.ase.codecId, c.codecId)
       /\ isCapabilitiesMatchedCodecConfiguration(d.ase.config, c.capabilities)})
filterRequirementAseDirectionConfiguration(directions, requirements) ==
    Keep(directions, {d \in Range(directions) :
       requirements = Nothing \/ \E r \in requirements : isMatchedAseConfiguration(d.ase, r)})

\* A filtered setting has the direction that was asked for, and nothing else.
Filtered(setting, direction, valid) ==
    [context |-> setting.context, sink |-> IF direction = Sink THEN valid ELSE Nothing,
     source |-> IF direction = Sink THEN Nothing ELSE valid]
InDirection(setting, direction) == IF direction = Sink THEN setting.sink ELSE setting.source

\* The two filters answer with no setting, or with one.
getCapabilitiesMatchedAseConfigurationSettings(setting, c, direction) ==
    LET valid == filterCapabilitiesAseDirectionConfiguration(InDirection(setting, direction), c)
    IN  IF ~isCapabilitiesMatchedContext(setting.context, c) \/ valid = <<>> THEN <<>>
        ELSE << Filtered(setting, direction, valid) >>
getRequirementMatchedAseConfigurationSettings(setting, r) ==
    LET direction == IF setting.sink # Nothing THEN Sink ELSE Source
        valid == filterRequirementAseDirectionConfiguration(
                    InDirection(setting, direction), IF direction = Sink THEN r.sink ELSE r.source)
    IN  IF setting.context # r.context \/ valid = <<>> THEN <<>>
        ELSE << Filtered(setting, direction, valid) >>

-----------------------------------------------------------------------------
(* The queries *)

ForAll(settings, others, filter(_, _)) ==
    FlattenSeq([i \in DOMAIN settings |->
       FlattenSeq([k \in DOMAIN others |-> filter(settings[i], others[k])])])

\* getLeAudioAseConfiguration: the capabilities of one direction; the sink's if
\* both are given.
AseAnswer(settings, direction, remote, requirements) ==
    LET byCapability(s, c) == getCapabilitiesMatchedAseConfigurationSettings(s, c, direction)
        matched == ForAll(settings, remote, byCapability)
    IN  ForAll(matched, requirements, getRequirementMatchedAseConfigurationSettings)
getLeAudioAseConfiguration(direction, remote, requirements) ==
    \E configs, scenarios \in BOOLEAN :
       /\ \/ Dereferences(configs) /\ Dies
          \/ /\ ~Dereferences(configs)
             /\ LoadAudioSetConfigurationProviderJson(configs, scenarios)
             /\ answer' = [call |-> "ase", direction |-> direction, remote |-> remote,
                           requirements |-> requirements, readable |-> configs /\ scenarios,
                           value |-> AseAnswer(ase_configuration_settings_', direction, remote,
                                               requirements)]
       /\ UNCHANGED <<caches, readFailed, codec_priority_map_, broadcast_settings>>

isMatchedQosRequirement(qos, r) ==
    qos.retransmission = r.retransmission /\ qos.latency <= r.latency

\* getLeAudioAseQosConfiguration: the first one that matches, or the first one of
\* the sources if nothing is required.
QosAnswer(settings, context, direction, r) ==
    LET inContext == Keep(settings, {s \in Range(settings) : s.context = context})
        all == FlattenSeq([i \in DOMAIN inContext |-> InDirection(inContext[i], direction)])
        i == SelectInSeq(all, LAMBDA d :
                r = Nothing \/ (isMatchedAseConfiguration(d.ase, r.ase)
                                /\ isMatchedQosRequirement(d.qos, r)))
        found == IF i = 0 THEN Nothing ELSE all[i].qos
    IN  [sink |-> IF direction = Sink \/ r = Nothing THEN found ELSE Nothing,
         source |-> IF direction = Source THEN found ELSE Nothing]
getLeAudioAseQosConfiguration(context, direction, r) ==
    \E configs, scenarios \in BOOLEAN :
       /\ \/ Dereferences(configs) /\ Dies
          \/ /\ ~Dereferences(configs)
             /\ LoadAudioSetConfigurationProviderJson(configs, scenarios)
             /\ answer' = [call |-> "qos",
                           value |-> QosAnswer(ase_configuration_settings_', context,
                                               IF r = Nothing THEN Source ELSE direction, r)]
       /\ UNCHANGED <<caches, readFailed, codec_priority_map_, broadcast_settings>>

\* The subgroups of a broadcast setting that have a configuration left.
getCapabilitiesMatchedBroadcastConfigurationSettings(setting, c) ==
    LET left == [i \in DOMAIN setting |->
                   Keep(setting[i], {b \in Range(setting[i]) : isMatchedBISConfiguration(b, c)})]
        subgroups == Keep(left, {s \in Range(left) : s # <<>>})
    IN  IF subgroups = <<>> THEN <<>> ELSE << subgroups >>

\* getLeAudioBroadcastConfiguration: the result pointer is set to null before
\* anything is matched, so that storing a setting writes through null.
BroadcastAnswer(settings, remote, counts) ==
    LET filtered == ForAll(settings, remote, getCapabilitiesMatchedBroadcastConfigurationSettings)
        meets(s) == \E i \in DOMAIN s : Len(s[i]) \in counts
    IN  IF filtered # <<>> /\ (counts = {} \/ \E i \in DOMAIN filtered : meets(filtered[i]))
        THEN "null write" ELSE Nothing
getLeAudioBroadcastConfiguration(remote, counts) ==
    \E readable \in BOOLEAN :
       /\ getBroadcastSettings(readable)
       /\ answer' = [call |-> "broadcast",
                     value |-> BroadcastAnswer(broadcast_settings', remote, counts)]
       /\ UNCHANGED <<aseCaches, codec_priority_map_>>

-----------------------------------------------------------------------------
(* Properties *)

\* What the files say of one context and direction.
InFiles(context, d, direction) ==
    \E i \in DOMAIN sets.scenarios :
       /\ Context(sets.scenarios[i].name) = context
       /\ \E n \in DOMAIN sets.scenarios[i].configurations :
             LET name == sets.scenarios[i].configurations[n]
             IN  name \in DOMAIN Configured
                 /\ \E k \in DOMAIN InDirection(Configured[name], direction) :
                       InDirection(Configured[name], direction)[k] = d

Offered(context, d, a) ==
    \E i \in DOMAIN a.value :
       /\ a.value[i].context = context
       /\ InDirection(a.value[i], a.direction) # Nothing
       /\ \E k \in DOMAIN InDirection(a.value[i], a.direction) :
             InDirection(a.value[i], a.direction)[k] = d
Wanted(context, d, a) ==
    /\ InFiles(context, d, a.direction)
    /\ \E c \in {a.remote[i] : i \in DOMAIN a.remote} :
          /\ isCapabilitiesMatchedContext(context, c) /\ isMatchedValidCodec(d.ase.codecId, c.codecId)
          /\ isCapabilitiesMatchedCodecConfiguration(d.ase.config, c.capabilities)
    /\ \E r \in {a.requirements[i] : i \in DOMAIN a.requirements} :
          LET wanted == IF a.direction = Sink THEN r.sink ELSE r.source
          IN  r.context = context
              /\ (wanted = Nothing \/ \E q \in wanted : isMatchedAseConfiguration(d.ase, q))

\* getLeAudioAseConfiguration answers exactly the configurations of the files
\* that one of the capabilities and one of the requirements of the context
\* accept, in the direction asked for, if the files can be read in that call:
\* a call that could not read one of them leaves nothing behind that hides it.
AseAnswerIsExact ==
    answer.call = "ase" /\ answer.readable =>
       \A i \in DOMAIN sets.scenarios : \A d \in Directions :
          LET context == Context(sets.scenarios[i].name)
          IN  Offered(context, d, answer) <=> Wanted(context, d, answer)

\* Whatever priorities were set before, in whatever order, a configuration
\* offered has a codec that is not disabled and that a remote device has.
NoDisabledCodec ==
    answer.call = "ase" =>
       \A i \in DOMAIN answer.value : \A d \in Directions :
          Offered(answer.value[i].context, d, answer) =>
             /\ d.ase.codecId \notin {c \in DOMAIN codec_priority_map_ :
                                         codec_priority_map_[c] = Disabled}
             /\ d.ase.codecId \in {answer.remote[k].codecId : k \in DOMAIN answer.remote}

\* The stack asks for the QoS of a configuration it was offered, with that
\* configuration as the requirement: there is an answer, and it is within the
\* latency and the retransmissions of the configuration.
QosOfOffered ==
    answer.call = "ase" =>
       \A i \in DOMAIN answer.value : \A d \in Directions :
          Offered(answer.value[i].context, d, answer) =>
             LET r == [ase |-> d.ase, latency |-> d.qos.latency,
                       retransmission |-> d.qos.retransmission]
                 q == QosAnswer(ase_configuration_settings_, answer.value[i].context,
                                answer.direction, r)
                 found == IF answer.direction = Sink THEN q.sink ELSE q.source
             IN  found # Nothing /\ found.latency <= d.qos.latency
                 /\ found.retransmission = d.qos.retransmission

\* The queries of the LE offload provider for unicast are answered exactly, with no codec
\* that is disabled and a QoS within what was asked for.
LeAnswersRight == AseAnswerIsExact /\ NoDisabledCodec /\ QosOfOffered

=============================================================================
