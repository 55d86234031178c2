----------------------------- MODULE AudioCodecs -----------------------------
(***************************************************************************)
(* Which audio configurations the AIDL and the HIDL side accept, what the  *)
(* middleware makes of an AIDL configuration for a HIDL port, and what a   *)
(* port of either kind tells the audio HAL about it.  A HIDL parameter is  *)
(* a bit field, here the set of the values whose bit is set; an AIDL       *)
(* parameter is one value, and an AIDL capability the set of its values.   *)
(***************************************************************************)
EXTENDS Integers, Sequences, FiniteSets

-----------------------------------------------------------------------------
(* BluetoothAudioCodecs: the AIDL capabilities *)

kDefaultSoftwarePcmCapabilities ==
    [rate |-> {8000, 16000, 24000, 32000, 44100, 48000, 88200, 96000},
     channelMode |-> {"MONO", "STEREO"}, bits |-> {16, 24, 32}]

kDefaultOffloadSbcCapability ==
    [rate |-> {44100}, channelMode |-> {"MONO", "JOINT_STEREO"}, blockLength |-> {4, 8, 12, 16},
     numSubbands |-> {8}, allocMethod |-> {"ALLOC_MD_L"}, bits |-> {16}]
SbcBitpools == [min |-> 2, max |-> 53]
kDefaultOffloadAacCapability ==
    [objectType |-> {"MPEG2_LC"}, rate |-> {44100}, channelMode |-> {"STEREO"}, bits |-> {16},
     vbr |-> BOOLEAN]
kDefaultOffloadLdacCapability ==
    [rate |-> {44100, 48000, 88200, 96000}, channelMode |-> {"DUAL", "STEREO"},
     qualityIndex |-> {"HIGH"}, bits |-> {16, 24, 32}]
kDefaultOffloadAptxCapability ==
    [rate |-> {44100, 48000}, channelMode |-> {"STEREO"}, bits |-> {16}]
kDefaultOffloadAptxHdCapability ==
    [rate |-> {44100, 48000}, channelMode |-> {"STEREO"}, bits |-> {24}]
kDefaultOffloadOpusCapability ==
    [rate |-> {48000}, duration |-> {10000, 20000}, channelMode |-> {"MONO", "STEREO"}]

\* ContainedInVector, of every parameter that a capability lists.
ContainedInVector(capability, c) == \A f \in DOMAIN capability : c[f] \in capability[f]

\* The parameters of a codec are those of its own kind, or nothing is valid.
IsOffloadSbcConfigurationValid(c) ==
    /\ c.tag = "sbc" /\ ContainedInVector(kDefaultOffloadSbcCapability, c)
    /\ c.min <= c.max /\ SbcBitpools.min <= c.min /\ SbcBitpools.max >= c.max
IsOffloadAacConfigurationValid(c) ==
    c.tag = "aac" /\ ContainedInVector(kDefaultOffloadAacCapability, c)
IsOffloadLdacConfigurationValid(c) ==
    c.tag = "ldac" /\ ContainedInVector(kDefaultOffloadLdacCapability, c)
IsOffloadAptxConfigurationValid(c) ==
    c.tag = "aptx" /\ ContainedInVector(kDefaultOffloadAptxCapability, c)
IsOffloadAptxHdConfigurationValid(c) ==
    c.tag = "aptx" /\ ContainedInVector(kDefaultOffloadAptxHdCapability, c)
IsOffloadOpusConfigurationValid(c) ==
    c.tag = "opus" /\ ContainedInVector(kDefaultOffloadOpusCapability, c)

IsSoftwarePcmConfigurationValid(c) == ContainedInVector(kDefaultSoftwarePcmCapabilities, c)

IsOffloadCodecConfigurationValid(codecType, c) ==
    CASE codecType = "SBC" -> IsOffloadSbcConfigurationValid(c)
      [] codecType = "AAC" -> IsOffloadAacConfigurationValid(c)
      [] codecType = "LDAC" -> IsOffloadLdacConfigurationValid(c)
      [] codecType = "APTX" -> IsOffloadAptxConfigurationValid(c)
      [] codecType = "APTX_HD" -> IsOffloadAptxHdConfigurationValid(c)
      [] codecType = "OPUS" -> IsOffloadOpusConfigurationValid(c)
      [] OTHER -> FALSE

GetA2dpOffloadCodecCapabilities ==
    [SBC |-> kDefaultOffloadSbcCapability, AAC |-> kDefaultOffloadAacCapability,
     LDAC |-> kDefaultOffloadLdacCapability, APTX |-> kDefaultOffloadAptxCapability,
     APTX_HD |-> kDefaultOffloadAptxHdCapability, OPUS |-> kDefaultOffloadOpusCapability]

-----------------------------------------------------------------------------
(* BluetoothAudioSupportedCodecsDB: the HIDL side *)

\* The sampling rates of version 2.0, which a mask of eight bits covers; 2.1 adds
\* two more.
Rates_2_0 == {44100, 48000, 88200, 96000, 176400, 192000, 16000, 24000}
Rates_2_1 == Rates_2_0 \cup {8000, 32000}
AllBits == {16, 24, 32}

IsSingleBit(field, mask) == Cardinality(field \cap mask) = 1
Within(c, f, capability) == c[f] \cap capability # {}

hidl_IsOffloadSbcConfigurationValid(c) ==
    /\ c.tag = "sbc"
    /\ IsSingleBit(c.rate, Rates_2_0) /\ IsSingleBit(c.bits, AllBits)
    /\ IsSingleBit(c.channelMode, {"JOINT_STEREO", "STEREO", "DUAL", "MONO"})
    /\ IsSingleBit(c.blockLength, {4, 8, 12, 16}) /\ IsSingleBit(c.numSubbands, {4, 8})
    /\ IsSingleBit(c.allocMethod, {"ALLOC_MD_S", "ALLOC_MD_L"}) /\ c.min <= c.max
    /\ Within(c, "rate", {44100}) /\ Within(c, "channelMode", {"MONO", "JOINT_STEREO"})
    /\ Within(c, "blockLength", {4, 8, 12, 16}) /\ Within(c, "numSubbands", {8})
    /\ Within(c, "allocMethod", {"ALLOC_MD_L"}) /\ Within(c, "bits", {16})
    /\ 2 <= c.min /\ c.max <= 53
hidl_IsOffloadAacConfigurationValid(c) ==
    /\ c.tag = "aac"
    /\ IsSingleBit(c.objectType, {"MPEG2_LC", "MPEG4_LC", "MPEG4_LTP", "MPEG4_SCALABLE"})
    /\ IsSingleBit(c.rate, Rates_2_0) /\ IsSingleBit(c.channelMode, {"MONO", "STEREO"})
    /\ IsSingleBit(c.bits, AllBits)
    /\ Within(c, "objectType", {"MPEG2_LC"}) /\ Within(c, "rate", {44100})
    /\ Within(c, "channelMode", {"STEREO"}) /\ Within(c, "bits", {16})
hidl_IsOffloadLdacConfigurationValid(c) ==
    /\ c.tag = "ldac" /\ IsSingleBit(c.rate, Rates_2_0) /\ IsSingleBit(c.bits, AllBits)
    /\ IsSingleBit(c.channelMode, {"STEREO", "DUAL", "MONO"})
    /\ c.qualityIndex \in {"HIGH", "MID", "LOW", "ABR"}
    /\ Within(c, "rate", {44100, 48000, 88200, 96000}) /\ Within(c, "channelMode", {"DUAL", "STEREO"})
hidl_IsOffloadAptxConfigurationValid(c) ==
    /\ c.tag = "aptx" /\ IsSingleBit(c.rate, Rates_2_0) /\ IsSingleBit(c.bits, AllBits)
    /\ IsSingleBit(c.channelMode, {"MONO", "STEREO"})
    /\ Within(c, "rate", {44100, 48000}) /\ Within(c, "channelMode", {"STEREO"})
    /\ Within(c, "bits", {16})
hidl_IsOffloadAptxHdConfigurationValid(c) ==
    /\ c.tag = "aptx" /\ IsSingleBit(c.rate, Rates_2_0) /\ IsSingleBit(c.bits, AllBits)
    /\ IsSingleBit(c.channelMode, {"MONO", "STEREO"})
    /\ Within(c, "rate", {44100, 48000}) /\ Within(c, "channelMode", {"STEREO"})
    /\ Within(c, "bits", {24})

\* The encoded bitrate is given and has three bytes.
hidl_IsBitrateValid(bitrate) == bitrate >= 1 /\ bitrate <= 16777215

hidl_IsOffloadCodecConfigurationValid(codecType, c) ==
    /\ hidl_IsBitrateValid(c.bitrate)
    /\ CASE codecType = "SBC" -> hidl_IsOffloadSbcConfigurationValid(c)
         [] codecType = "AAC" -> hidl_IsOffloadAacConfigurationValid(c)
         [] codecType = "LDAC" -> hidl_IsOffloadLdacConfigurationValid(c)
         [] codecType = "APTX" -> hidl_IsOffloadAptxConfigurationValid(c)
         [] codecType = "APTX_HD" -> hidl_IsOffloadAptxHdConfigurationValid(c)
         [] OTHER -> FALSE

\* IsSoftwarePcmConfigurationValid_2_1; the one of 2.0 has no data interval.
IsSoftwarePcmConfigurationValid_2_0(c) ==
    /\ c.rate \in {{44100}, {48000}, {88200}, {96000}, {16000}, {24000}}
    /\ c.bits \in {{16}, {24}, {32}} /\ c.channelMode \in {{"MONO"}, {"STEREO"}}
IsSoftwarePcmConfigurationValid_2_1(c) ==
    IsSoftwarePcmConfigurationValid_2_0(c) /\ c.interval # 0

-----------------------------------------------------------------------------
(* HidlToAidlMiddleware: from AIDL to HIDL.  What a map does not have is no bit. *)

OnlyIn(v, values) == {v} \cap values

\* Mutant: only the rates that version 2.0 has.
to_hidl_sample_rate_2_0(rate) == OnlyIn(rate, Rates_2_0)

to_hidl_sample_rate_2_1(rate) == OnlyIn(rate, Rates_2_1)

to_hidl_bits_per_sample(bits) == OnlyIn(bits, AllBits)
to_hidl_channel_mode(mode) == OnlyIn(mode, {"MONO", "STEREO"})
to_hidl_codec_type_2_0(codecType) ==
    IF codecType \in {"SBC", "AAC", "APTX", "APTX_HD", "LDAC"} THEN codecType ELSE "UNKNOWN"

to_hidl_pcm_config_2_1(c) ==
    [rate |-> to_hidl_sample_rate_2_1(c.rate), channelMode |-> to_hidl_channel_mode(c.channelMode),
     bits |-> to_hidl_bits_per_sample(c.bits), interval |-> c.interval]

to_hidl_sbc_config(c) ==
    [tag |-> "sbc", min |-> c.min, max |-> c.max, rate |-> to_hidl_sample_rate_2_1(c.rate),
     bits |-> to_hidl_bits_per_sample(c.bits),
     channelMode |-> OnlyIn(c.channelMode, {"JOINT_STEREO", "STEREO", "DUAL", "MONO"}),
     blockLength |-> OnlyIn(c.blockLength, {4, 8, 12, 16}),
     numSubbands |-> OnlyIn(c.numSubbands, {4, 8}),
     allocMethod |-> OnlyIn(c.allocMethod, {"ALLOC_MD_S", "ALLOC_MD_L"}), bitrate |-> c.bitrate]

to_hidl_aac_config(c) ==
    [tag |-> "aac", rate |-> to_hidl_sample_rate_2_1(c.rate),
     bits |-> to_hidl_bits_per_sample(c.bits), channelMode |-> to_hidl_channel_mode(c.channelMode),
     objectType |-> OnlyIn(c.objectType, {"MPEG2_LC", "MPEG4_LC", "MPEG4_LTP", "MPEG4_SCALABLE"}),
     vbr |-> c.vbr, bitrate |-> c.bitrate]
to_hidl_ldac_config(c) ==
    [tag |-> "ldac", rate |-> to_hidl_sample_rate_2_1(c.rate),
     bits |-> to_hidl_bits_per_sample(c.bits),
     channelMode |-> OnlyIn(c.channelMode, {"STEREO", "DUAL", "MONO"}),
     qualityIndex |-> c.qualityIndex, bitrate |-> c.bitrate]
to_hidl_aptx_config(c) ==
    [tag |-> "aptx", rate |-> to_hidl_sample_rate_2_1(c.rate),
     bits |-> to_hidl_bits_per_sample(c.bits), channelMode |-> to_hidl_channel_mode(c.channelMode),
     bitrate |-> c.bitrate]
to_hidl_codec_config_2_0(c) ==
    CASE c.tag = "sbc" -> to_hidl_sbc_config(c) [] c.tag = "aac" -> to_hidl_aac_config(c)
      [] c.tag = "ldac" -> to_hidl_ldac_config(c) [] c.tag = "aptx" -> to_hidl_aptx_config(c)
      [] OTHER -> [tag |-> "none", bitrate |-> c.bitrate]

-----------------------------------------------------------------------------
(* The ports: what the audio HAL is told, <<>> for a failure *)

\* Bytes of a sample in an audio format of the audio HAL.
BytesOf(format) == CASE format = "PCM_16_BIT" -> 2 [] format = "PCM_24_BIT_PACKED" -> 3
                     [] OTHER -> 4

\* BitsPerSampleToAudioFormat: classic sessions have packed samples of 24 bits.
BitsPerSampleToAudioFormat(bits, session_type) ==
    CASE bits = 24 -> IF session_type \in {"A2DP_HARDWARE_OFFLOAD_ENCODING", "A2DP_SOFTWARE_ENCODING"}
                      THEN "PCM_24_BIT_PACKED" ELSE "PCM_8_24_BIT"
      [] bits = 32 -> "PCM_32_BIT"
      [] OTHER -> "PCM_16_BIT"
hidl_BitsPerSampleToAudioFormat(bits) ==
    CASE bits = {24} -> "PCM_24_BIT_PACKED" [] bits = {32} -> "PCM_32_BIT" [] OTHER -> "PCM_16_BIT"
ChannelModeToAudioFormat(mode) == IF mode = "MONO" THEN 1 ELSE 2

\* LoadAudioConfig of an AIDL port and of a HIDL port that is in use.
aidl_LoadAudioConfig(c, session_type, stereo_to_mono) ==
    IF c.channelMode = "UNKNOWN" THEN <<>>
    ELSE <<c.rate, IF stereo_to_mono THEN 2 ELSE ChannelModeToAudioFormat(c.channelMode),
           BitsPerSampleToAudioFormat(c.bits, session_type)>>

SampleRateToAudioFormat(rate) ==
    IF rate \in {{r} : r \in Rates_2_1} THEN CHOOSE r \in rate : TRUE ELSE 44100
hidl_LoadAudioConfig(c, stereo_to_mono) ==
    IF c.rate = {} \/ c.channelMode = {} \/ c.bits = {} THEN <<>>
    ELSE <<SampleRateToAudioFormat(c.rate),
           IF stereo_to_mono THEN 2 ELSE ChannelModeToAudioFormat(CHOOSE m \in c.channelMode : TRUE),
           hidl_BitsPerSampleToAudioFormat(c.bits)>>

=============================================================================
