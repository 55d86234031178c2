---------------------------- MODULE LeAudioCodecs ----------------------------
(***************************************************************************)
(* The LE audio capabilities of the provider factory: the XML file of      *)
(* BluetoothLeAudioCodecsProvider, what is composed of it, and the static  *)
(* caches it is kept in, here and in BluetoothAudioCodecs.  The file may be *)
(* unreadable when it is asked for.                                        *)
(***************************************************************************)
EXTENDS Integers, SequencesExt

CONSTANTS Files,            \* the contents the XML file may have
          Missing,          \* an attribute the file does not give
          Nothing           \* nullopt

VARIABLES file,             \* its content
          leAudioCodecCapabilities, isInvalidFileContent, session_codecs_map_,
          kDefaultOffloadLeAudioCapabilities, kDefaultOffloadLeAudioCodecInfoMap,
          readFailed,       \* some read of the file failed (history)
          answer            \* the last call and what it returned

caches == <<leAudioCodecCapabilities, isInvalidFileContent, session_codecs_map_,
            kDefaultOffloadLeAudioCapabilities, kDefaultOffloadLeAudioCodecInfoMap>>

Unknown == [codecType |-> "UNKNOWN"]
LeTypes == {"LE_AUDIO_HARDWARE_OFFLOAD_ENCODING", "LE_AUDIO_HARDWARE_OFFLOAD_DECODING",
            "LE_AUDIO_BROADCAST_HARDWARE_OFFLOAD_ENCODING"}

-----------------------------------------------------------------------------
(* The maps made of one file *)

Complete(entry) == \A a \in DOMAIN entry : entry[a] # Missing

\* The elements of a list that are in a set, in their order.
Keep(s, S) ==
    LET kept[n \in 0 .. Len(s)] ==
          IF n = 0 THEN <<>> ELSE IF s[n] \in S THEN Append(kept[n - 1], s[n]) ELSE kept[n - 1]
    IN  kept[Len(s)]

\* Inserting entries by name: the first one of a name stays.
ByName(entries) ==
    [n \in {entries[i].name : i \in DOMAIN entries} |->
        entries[CHOOSE i \in DOMAIN entries :
                   entries[i].name = n /\ \A j \in 1 .. i - 1 : entries[j].name # n]]

GetScenarios(f) ==
    Keep(f.scenarios, {s \in Range(f.scenarios) : s.encode # Missing /\ s.decode # Missing})
Whole(entries) == Keep(entries, {e \in Range(entries) : Complete(e)})
UpdateConfigurationsToMap(f) == ByName(Whole(f.configurations))
UpdateCodecConfigurationsToMap(f) == ByName(Whole(f.codecs))

\* Stereo over one or two devices or broadcast, mono over one.
IsValidStrategyConfiguration(s) ==
    /\ Complete(s)
    /\ <<s.location, s.devices, s.channels>> \in
          {<<"STEREO", 2, 1>>, <<"STEREO", 1, 2>>, <<"STEREO", 0, 2>>, <<"MONO", 1, 1>>}

UpdateStrategyConfigurationsToMap(f) ==
    ByName(Keep(f.strategies, {s \in Range(f.strategies) : IsValidStrategyConfiguration(s)}))

\* LoadConfigurationToMap fills all four maps or leaves one of them empty.
LoadConfigurationToMap(f) ==
    /\ GetScenarios(f) # <<>>
    /\ DOMAIN UpdateConfigurationsToMap(f) # {}
    /\ DOMAIN UpdateCodecConfigurationsToMap(f) # {}
    /\ DOMAIN UpdateStrategyConfigurationsToMap(f) # {}

\* The codec and the strategy a configuration name leads to.
Resolves(f, name) ==
    LET configurations == UpdateConfigurationsToMap(f)
    IN  /\ name \in DOMAIN configurations
        /\ configurations[name].codec \in DOMAIN UpdateCodecConfigurationsToMap(f)
        /\ configurations[name].strategy \in DOMAIN UpdateStrategyConfigurationsToMap(f)
CodecOf(f, name) == UpdateCodecConfigurationsToMap(f)[UpdateConfigurationsToMap(f)[name].codec]
StrategyOf(f, name) ==
    UpdateStrategyConfigurationsToMap(f)[UpdateConfigurationsToMap(f)[name].strategy]

GetUnicastCapability(f, name) ==
    IF name # "invalid" /\ Resolves(f, name)
         /\ CodecOf(f, name).codec \in {"LC3", "APTX_ADAPTIVE_LE", "APTX_ADAPTIVE_LEX"}
    THEN [codecType |-> CodecOf(f, name).codec, location |-> StrategyOf(f, name).location,
          devices |-> StrategyOf(f, name).devices, channels |-> StrategyOf(f, name).channels,
          frame |-> CodecOf(f, name).frame]
    ELSE Unknown

GetBroadcastCapability(f, name) ==
    IF name # "invalid" /\ Resolves(f, name) /\ CodecOf(f, name).codec = "LC3"
    THEN [codecType |-> "LC3", location |-> StrategyOf(f, name).location,
          channels |-> StrategyOf(f, name).channels, frame |-> CodecOf(f, name).frame]
    ELSE Unknown

ComposeLeAudioCodecCapabilities(f) ==
    LET of(s) == [encode |-> GetUnicastCapability(f, s.encode),
                  decode |-> GetUnicastCapability(f, s.decode),
                  broadcast |-> IF s.broadcast = Missing THEN Unknown
                                ELSE GetBroadcastCapability(f, s.broadcast)]
        all == [i \in DOMAIN GetScenarios(f) |-> of(GetScenarios(f)[i])]
    IN  Keep(all, {c \in Range(all) : \E d \in DOMAIN c : c[d] # Unknown})

\* The CodecInfo of a configuration name, the initial one if it leads nowhere.
CodecInfoOf(f, name) ==
    IF ~Resolves(f, name) THEN [id |-> Nothing, mode |-> Nothing, frame |-> Nothing]
    ELSE [id |-> IF CodecOf(f, name).codec = "LC3" THEN "LC3" ELSE "VENDOR",
          mode |-> IF StrategyOf(f, name).location = "STEREO" THEN "STEREO"
                   ELSE IF StrategyOf(f, name).channels = 1 THEN "MONO" ELSE "DUALMONO",
          frame |-> CodecOf(f, name).frame]

SessionCodecs(f) ==
    LET names(d) == {s[d] : s \in {GetScenarios(f)[i] : i \in DOMAIN GetScenarios(f)}} \ {Missing}
        infos(d) == {CodecInfoOf(f, n) : n \in names(d)}
    IN  [t \in LeTypes |-> infos(CASE t = "LE_AUDIO_HARDWARE_OFFLOAD_ENCODING" -> "encode"
                                   [] t = "LE_AUDIO_HARDWARE_OFFLOAD_DECODING" -> "decode"
                                   [] OTHER -> "broadcast")]

\* nullopt is neither the content of a file nor a map made of one; the scenarios and the
\* strategies of a file are lists.
ASSUME FilesAssumption ==
    \A f \in Files :
       /\ f # Nothing /\ SessionCodecs(f) # Nothing
       /\ f.scenarios \in Seq(Range(f.scenarios)) /\ f.strategies \in Seq(Range(f.strategies))

-----------------------------------------------------------------------------
(* The caches *)

LeInit ==
    /\ file \in Files
    /\ leAudioCodecCapabilities = <<>> /\ kDefaultOffloadLeAudioCapabilities = <<>>
    /\ session_codecs_map_ = Nothing /\ kDefaultOffloadLeAudioCodecInfoMap = Nothing
    /\ isInvalidFileContent = FALSE /\ readFailed = FALSE

\* ParseFromLeAudioOffloadSettingFile reads the file, unless there is something
\* cached already or the file was found invalid.
ParseFromLeAudioOffloadSettingFile(readable) ==
    IF leAudioCodecCapabilities # <<>> \/ isInvalidFileContent \/ ~readable
    THEN Nothing ELSE file
Reads(readable) ==
    readFailed' = (readFailed \/ (~readable /\ leAudioCodecCapabilities = <<>>
                                  /\ ~isInvalidFileContent))

\* GetLeAudioCodecCapabilities: what it returns is also what it caches.
GetLeAudioCodecCapabilities(setting) ==
    IF leAudioCodecCapabilities # <<>>
    THEN UNCHANGED <<leAudioCodecCapabilities, isInvalidFileContent, session_codecs_map_>>
    ELSE /\ leAudioCodecCapabilities' =
               IF setting # Nothing /\ LoadConfigurationToMap(setting)
               THEN ComposeLeAudioCodecCapabilities(setting) ELSE <<>>
         /\ isInvalidFileContent' = (leAudioCodecCapabilities' = <<>>)
         /\ session_codecs_map_' = IF setting = Nothing THEN session_codecs_map_ ELSE Nothing

\* Mutant: a file that was read well stays marked as invalid.
GetLeAudioCodecInfoStaysInvalid(setting) ==
    IF session_codecs_map_ # Nothing
    THEN UNCHANGED <<leAudioCodecCapabilities, isInvalidFileContent, session_codecs_map_>>
    ELSE /\ session_codecs_map_' = IF setting # Nothing /\ LoadConfigurationToMap(setting)
                                   THEN SessionCodecs(setting) ELSE Nothing
         /\ leAudioCodecCapabilities' = IF setting = Nothing THEN leAudioCodecCapabilities ELSE <<>>
         /\ isInvalidFileContent' = TRUE

\* GetLeAudioCodecInfo: loading the file again drops the capabilities made of it.
GetLeAudioCodecInfo(setting) ==
    IF session_codecs_map_ # Nothing
    THEN UNCHANGED <<leAudioCodecCapabilities, isInvalidFileContent, session_codecs_map_>>
    ELSE /\ session_codecs_map_' = IF setting # Nothing /\ LoadConfigurationToMap(setting)
                                   THEN SessionCodecs(setting) ELSE Nothing
         /\ leAudioCodecCapabilities' = IF setting = Nothing THEN leAudioCodecCapabilities ELSE <<>>
         /\ isInvalidFileContent' = (session_codecs_map_' = Nothing)

GetLeAudioOffloadCodecCapabilities(readable) ==
    IF kDefaultOffloadLeAudioCapabilities # <<>> THEN UNCHANGED <<caches, readFailed>>
    ELSE /\ Reads(readable)
         /\ GetLeAudioCodecCapabilities(ParseFromLeAudioOffloadSettingFile(readable))
         /\ kDefaultOffloadLeAudioCapabilities' = leAudioCodecCapabilities'
         /\ UNCHANGED kDefaultOffloadLeAudioCodecInfoMap

\* GetLeAudioOffloadCodecInfo stores the map in a local that hides the global one.
GetLeAudioOffloadCodecInfo(readable) ==
    IF kDefaultOffloadLeAudioCodecInfoMap # Nothing THEN UNCHANGED <<caches, readFailed>>
    ELSE /\ Reads(readable)
         /\ GetLeAudioCodecInfo(ParseFromLeAudioOffloadSettingFile(readable))
         /\ UNCHANGED <<kDefaultOffloadLeAudioCapabilities, kDefaultOffloadLeAudioCodecInfoMap>>

CodecInfoAnswer(t) ==
    IF kDefaultOffloadLeAudioCodecInfoMap' = Nothing THEN {}
    ELSE kDefaultOffloadLeAudioCodecInfoMap'[t]

\* The factory: getProviderCapabilities and getProviderInfo of an LE offload type.
getProviderCapabilities(t) ==
    \E readable \in BOOLEAN :
       /\ GetLeAudioOffloadCodecCapabilities(readable)
       /\ answer' = [call |-> "capabilities", value |-> kDefaultOffloadLeAudioCapabilities']
getProviderInfo(t) ==
    \E readable \in BOOLEAN :
       /\ GetLeAudioOffloadCodecInfo(readable)
       /\ answer' = [call |-> "info", value |-> CodecInfoAnswer(t)]

-----------------------------------------------------------------------------
(* Properties *)

\* Whatever the order in which capabilities, provider information and broadcast
\* settings are asked for, each of which drops what another one cached, the
\* capabilities answered are those of the file, as long as it could be read.
CapabilitiesOfFile ==
    answer.call = "capabilities" /\ ~readFailed =>
       answer.value = IF LoadConfigurationToMap(file)
                      THEN ComposeLeAudioCodecCapabilities(file) ELSE <<>>

\* A capability that is answered comes of a scenario whose names all resolve,
\* and mono capabilities are for one device and one channel.
CapabilitiesAreSound ==
    answer.call = "capabilities" =>
       \A i \in DOMAIN answer.value : \A d \in {"encode", "decode"} :
          LET c == answer.value[i][d]
          IN  c # Unknown => (c.location = "MONO" => c.devices = 1 /\ c.channels = 1)
                             /\ (c.location = "STEREO" => c.devices * c.channels \in {0, 2})

\* The LE capabilities the factory answers with are those of the file, and sound,
\* whatever was asked before and whichever read failed.
LeCapabilitiesRight == CapabilitiesOfFile /\ CapabilitiesAreSound

=============================================================================
