-------------------------- MODULE MCAudioProviders --------------------------
(* Small sets of files, configurations and queries, with the wrong ones.   *)
EXTENDS AudioProviders

\* A file with unicast and broadcast, one with unresolved names and strategies
\* that are not valid, one with no scenario that is complete.
frame == [freq |-> 48000, duration |-> 10000, octets |-> 100]
good == [scenarios |-> << [encode |-> "stereo", decode |-> "mono", broadcast |-> "stereo"],
                          [encode |-> "mono", decode |-> "invalid", broadcast |-> Missing] >>,
         configurations |-> << [name |-> "stereo", codec |-> "LC3_48", strategy |-> "two"],
                               [name |-> "mono", codec |-> "LC3_48", strategy |-> "one"] >>,
         codecs |-> << [name |-> "LC3_48", codec |-> "LC3", frame |-> frame] >>,
         strategies |-> << [name |-> "two", location |-> "STEREO", devices |-> 2, channels |-> 1],
                           [name |-> "one", location |-> "MONO", devices |-> 1, channels |-> 1] >>]
unresolved ==
    [good EXCEPT !.configurations = @ \o << [name |-> "stereo", codec |-> "none", strategy |-> "two"] >>,
                 !.codecs = << [name |-> "LC3_48", codec |-> "APTX_ADAPTIVE_LE", frame |-> frame],
                               [name |-> "none", codec |-> Missing, frame |-> frame] >>,
                 !.strategies = << [name |-> "two", location |-> "STEREO", devices |-> 2, channels |-> 2],
                                   [name |-> "one", location |-> "MONO", devices |-> 1, channels |-> 1] >>]
incomplete == [good EXCEPT !.scenarios = << [encode |-> Missing, decode |-> "mono", broadcast |-> Missing] >>]
MCFiles == {good, unresolved, incomplete}

\* Two set configurations, one of two codecs and without a QoS of its own.
params == [freq |-> 8, duration |-> 1, octets |-> 100, blocks |-> 1, channels |-> {0, 1, 40}]
MCsets ==
    [configurations |-> << [name |-> "a", codec |-> "ca", qos |-> << "Low" >>],
                            [name |-> "b", codec |-> "cb", qos |-> << >>],
                            [name |-> "a", codec |-> "none", qos |-> << "gone" >>] >>,
      codecs |-> << [name |-> "ca", subs |-> << [direction |-> Sink, codecId |-> "LC3", params |-> params] >>],
                    [name |-> "cb", subs |-> << [direction |-> Sink, codecId |-> "VENDOR", params |-> params],
                                                [direction |-> Source, codecId |-> "LC3",
                                                 params |-> [freq |-> 3]] >>] >>,
      qos |-> << [name |-> "Low", latency |-> "LOW", retransmission |-> 2, transport |-> 20],
                 [name |-> "QoS_Config_Balanced_Reliability", latency |-> "BALANCED_RELIABILITY",
                  retransmission |-> 5, transport |-> 60] >>,
      scenarios |-> << [name |-> "Media", configurations |-> << "a", "b" >>],
                       [name |-> "Live", configurations |-> << "b", "none" >>] >>]
MCCodecs == {"LC3"}         \* "VENDOR" is never given a priority

caps(freqs) == [freq |-> freqs, octets |-> [min |-> 40, max |-> 120]]
remote(codec, metadata, freqs) == [codecId |-> codec, metadata |-> metadata, capabilities |-> caps(freqs)]
Every(direction) ==
    [remotes |-> {<< remote("LC3", Nothing, {16000, 48000}) >>,
                  << remote("VENDOR", {{"MEDIA"}}, {48000}), remote("LC3", Nothing, {16000}) >>,
                  << [codecId |-> "LC3", metadata |-> {{"GAME"}, {"LIVE_AUDIO"}}, capabilities |-> <<>>] >>},
     wanted |-> {Nothing,
                 {[codecId |-> "LC3", targetLatency |-> "LOW", config |-> [freq |-> 48000]],
                  [codecId |-> Nothing, targetLatency |-> "BALANCED_RELIABILITY",
                   config |-> [freq |-> IF direction = Sink THEN 48000 ELSE 16000]]}}]
requirement(context, wanted) == [context |-> Context(context), sink |-> wanted, source |-> wanted]
MCAseQueries ==
    UNION {{[direction |-> d, remote |-> r,
             requirements |-> << requirement("Media", w), requirement("Live", Nothing) >>] :
              r \in Every(d).remotes, w \in Every(d).wanted} : d \in {Sink, Source}}
MCQosQueries ==
    {[context |-> Context(n), direction |-> Sink, required |-> r] :
        n \in {"Media", "Live"},
        r \in {Nothing, [ase |-> [codecId |-> "LC3", targetLatency |-> "LOW", config |-> [freq |-> 48000]],
                         latency |-> 20, retransmission |-> 2]}}
MCBroadcastQueries ==
    {[remote |-> << remote("LC3", Nothing, {48000}) >>, counts |-> n] : n \in {{}, {1}, {2}}}

\* Configurations of every kind.
pcm == {[tag |-> "pcmConfig", rate |-> r, channelMode |-> m, bits |-> b[1], interval |-> b[2]] :
           r \in {8000, 44100}, m \in {"MONO", "STEREO"}, b \in {<<16, 7500>>, <<24, 10000>>}}
wrongPcm == {[tag |-> "pcmConfig", rate |-> x[1], channelMode |-> x[2], bits |-> x[3], interval |-> x[4]] :
                x \in {<<11025, "MONO", 16, 7500>>, <<44100, "UNKNOWN", 16, 7500>>,
                       <<44100, "STEREO", 8, 10000>>, <<44100, "STEREO", 16, 500>>}}
sbc == [tag |-> "sbc", rate |-> 44100, channelMode |-> "JOINT_STEREO", blockLength |-> 16,
        numSubbands |-> 8, allocMethod |-> "ALLOC_MD_L", bits |-> 16, min |-> 2, max |-> 53,
        bitrate |-> 328000]
aptx == [tag |-> "aptx", rate |-> 48000, channelMode |-> "STEREO", bits |-> 16, bitrate |-> 352000]
codec(type, specific) == [tag |-> "a2dpConfig", codecType |-> type, specific |-> specific]
a2dp == {codec("SBC", sbc), codec("SBC", [sbc EXCEPT !.max = 54]), codec("AAC", sbc),
         codec("AAC", [tag |-> "aac", objectType |-> "MPEG2_LC", rate |-> 44100, channelMode |-> "STEREO",
                       bits |-> 16, vbr |-> TRUE, bitrate |-> 320000]),
         codec("LDAC", [tag |-> "ldac", rate |-> 96000, channelMode |-> "DUAL", qualityIndex |-> "HIGH",
                        bits |-> 24, bitrate |-> 990000]),
         codec("APTX", aptx), codec("APTX", [aptx EXCEPT !.bits = 24]),
         codec("APTX", [aptx EXCEPT !.bitrate = 0]),
         codec("APTX", [aptx EXCEPT !.tag = "aac"]),
         codec("APTX_HD", [aptx EXCEPT !.bits = 24]),
         codec("OPUS", [tag |-> "opus", rate |-> 48000, duration |-> 20000, channelMode |-> "STEREO",
                        bitrate |-> 0]),
         codec("LC3", [aptx EXCEPT !.tag = "none"])}
signalled == [freq |-> {44100}, mode |-> {"JOINT"}, blocks |-> {16}, subbands |-> {8},
              alloc |-> {"LOUDNESS"}, min |-> 2, max |-> 53]
extended == {[tag |-> "a2dp", whole |-> TRUE, id |-> "SBC", config |-> signalled],
             [tag |-> "a2dp", whole |-> TRUE, id |-> "SBC", config |-> [signalled EXCEPT !.freq = {44100, 48000}]],
             [tag |-> "a2dp", whole |-> FALSE, id |-> "SBC", config |-> signalled],
             [tag |-> "a2dp", whole |-> TRUE, id |-> "AAC", config |-> [object |-> {"MPEG2_LC"}, freq |-> {48000},
                                                        channels |-> {2}, vbr |-> TRUE, bitrate |-> 0]],
             [tag |-> "a2dp", whole |-> TRUE, id |-> "VENDOR", config |-> signalled]}
MCConfigurations ==
    pcm \cup wrongPcm \cup a2dp \cup extended
    \cup {[tag |-> t, value |-> v] : t \in {"hfpConfig", "leAudioConfig", "leAudioBroadcastConfig"}, v \in {1, 2}}
MCUpdates == {[tag |-> "pcmConfig", rate |-> 11025, channelMode |-> "STEREO", bits |-> 16, interval |-> 0],
              codec("SBC", sbc), codec("AAC", sbc), [tag |-> "a2dp", whole |-> TRUE, id |-> "SBC", config |-> signalled]}
             \cup {[tag |-> t, value |-> 2] : t \in {"hfpConfig", "leAudioConfig", "leAudioBroadcastConfig"}}

\* The files matter to LE audio, whole or not, and the build to A2DP offload.
world(t, f, damaged, build) == [type |-> t, file |-> f, dangling |-> damaged, extensible |-> build]
MCWorlds == {world(t, good, damaged, FALSE) : t \in LeTypes, damaged \in BOOLEAN}
            \cup {world(t, f, FALSE, FALSE) : t \in LeBroadcastOffload, f \in MCFiles}
            \cup {world(t, good, FALSE, t \in A2dpOffload) : t \in Types \ LeTypes}
            \cup {world(t, good, FALSE, FALSE) : t \in A2dpOffload}
MCLatencyModes == {{"FREE"}, {"FREE", "LOW_LATENCY", "DYNAMIC_SPATIAL_AUDIO_SOFTWARE"}}

\* Remote devices with everything, with little, and with nonsense.
sbcRemotes ==
    {[freq |-> f, mode |-> m, blocks |-> b, subbands |-> {4, 8}, alloc |-> {"SNR", "LOUDNESS"},
      min |-> p[1], max |-> p[2]] :
        f \in {{44100, 48000}, {48000}, {16000}}, m \in {{"JOINT", "STEREO"}, {"MONO"}, {"DUAL", "MONO"}},
        b \in {{16}, {4, 12}}, p \in {<<2, 53>>, <<40, 250>>, <<0, 255>>, <<60, 10>>}}
aacRemotes ==
    {[object |-> o, freq |-> f, channels |-> n, vbr |-> TRUE, bitrate |-> 320000] :
        o \in {{"MPEG4_LC"}, {"MPEG4_LTP"}}, f \in {{44100, 48000}, {96000}}, n \in {{1}, {1, 2}}}
offers(name, capabilities) == [id |-> name, whole |-> TRUE, caps |-> capabilities]
MCRemotes ==
    {<<>>} \cup {<< offers("SBC", c) >> : c \in sbcRemotes}
    \cup {<< offers("AAC", c), offers("SBC", CHOOSE s \in sbcRemotes : TRUE) >> : c \in aacRemotes}
    \cup {<< [offers("AAC", c) EXCEPT !.whole = FALSE], offers("SBC", CHOOSE s \in sbcRemotes : TRUE) >> :
              c \in aacRemotes}
    \cup {<< offers("AAC", c), offers("AAC", d) >> :
              c, d \in {x \in aacRemotes : x.channels = {1} /\ 48000 \in x.freq}}
MCHints ==
    {[codec |-> k, parameters |-> p] :
        k \in {"SBC", "AAC", "none"},
        p \in {NoHint} \cup {[given |-> TRUE, freq |-> f, mode |-> m, min |-> b[1], max |-> b[2]] :
                                f \in {48000}, m \in {"STEREO", "DUALMONO"},
                                b \in {<<0, 0>>, <<100000, 328000>>, <<229000, 100>>}}}

=============================================================================
