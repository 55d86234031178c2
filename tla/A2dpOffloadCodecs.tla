-------------------------- MODULE A2dpOffloadCodecs --------------------------
(***************************************************************************)
(* The negotiation of an A2DP offload codec: A2dpOffloadCodecSbc,          *)
(* A2dpOffloadCodecAac and A2dpOffloadCodecFactory.  A bit field of the    *)
(* signalling format is the set of the values whose bit is set; a          *)
(* configuration is well formed when exactly one bit of a field is set.    *)
(***************************************************************************)
EXTENDS Integers, SequencesExt

CONSTANT NoBit              \* no bit, or more than one

ASSUME BitAssumption ==
    /\ NoBit \notin Int
    /\ NoBit \notin {"MONO", "DUAL", "STEREO", "JOINT", "SNR", "LOUDNESS", "MPEG2_LC", "MPEG4_LC"}

\* find_active_bit.
find_active_bit(field) ==
    IF Cardinality(field) = 1 THEN CHOOSE b \in field : TRUE ELSE NoBit

\* The field with the first of the preferred values that both sides have, or empty.
Select(preferred, local, remote) ==
    LET i == SelectInSeq(preferred, LAMBDA v : v \in local \cap remote)
    IN  IF i = 0 THEN {} ELSE {preferred[i]}

Larger(a, b) == IF a >= b THEN a ELSE b
Smaller(a, b) == IF a <= b THEN a ELSE b

\* The first of a list of checks that fails, OK if none does.
FirstFailure(checks) ==
    LET i == SelectInSeq(checks, LAMBDA c : ~c[1])
    IN  IF i = 0 THEN "OK" ELSE checks[i][2]

\* The check of one field: well formed, and among the local capabilities.
FieldChecks(field, local, invalid, unsupported) ==
    << <<find_active_bit(field) # NoBit, invalid>>,
       <<find_active_bit(field) \in local, unsupported>> >>

-----------------------------------------------------------------------------
(* SBC *)

SbcLocal == [freq |-> {44100, 48000},
             mode |-> {"MONO", "DUAL", "STEREO", "JOINT"},
             blocks |-> {4, 8, 12, 16}, subbands |-> {4, 8},
             alloc |-> {"SNR", "LOUDNESS"}, min |-> 2, max |-> 250]

\* GetFrameSize: header, scale factors, samples and the joint flags, in bytes.
GetFrameSize(c, bitpool) ==
    LET subbands == find_active_bit(c.subbands)
        blocks == find_active_bit(c.blocks)
        bits == (4 * subbands) * (IF "MONO" \in c.mode THEN 1 ELSE 2)
                  + (blocks * bitpool) * (IF "DUAL" \in c.mode THEN 2 ELSE 1)
                  + (IF "JOINT" \in c.mode THEN subbands ELSE 0)
    IN  4 + (bits + 7) \div 8

GetBitrate(c, bitpool) ==
    (8 * GetFrameSize(c, bitpool) * find_active_bit(c.freq))
       \div (find_active_bit(c.blocks) * find_active_bit(c.subbands))

Clamp(b) == Smaller(Larger(b, 2), 250)

\* GetBitpool: a binary search, from the bit of 128 down to the bit of 1.
GetBitpool(c, bitrate) ==
    LET search[i \in 0 .. 8] ==
          IF i = 0 THEN 0
          ELSE LET b == search[i - 1] + <<128, 64, 32, 16, 8, 4, 2, 1>>[i]
               IN  IF bitrate > GetBitrate(c, b) THEN b ELSE search[i - 1]
    IN  Clamp(search[8])

InBitpoolRange(b) == b >= 2 /\ b <= 250

\* ParseConfiguration of SBC: the status.  The block length is not compared
\* with the capabilities, and the two bitpools are not compared at all.
ParseSbc(c, local) ==
    FirstFailure(
       FieldChecks(c.freq, local.freq, "INVALID_SAMPLING_FREQUENCY",
                   "NOT_SUPPORTED_SAMPLING_FREQUENCY")
       \o FieldChecks(c.mode, local.mode, "INVALID_CHANNEL_MODE",
                      "NOT_SUPPORTED_CHANNEL_MODE")
       \o << <<find_active_bit(c.blocks) # NoBit, "INVALID_BLOCK_LENGTH">> >>
       \o FieldChecks(c.subbands, local.subbands, "INVALID_SUBBANDS",
                      "NOT_SUPPORTED_SUBBANDS")
       \o FieldChecks(c.alloc, local.alloc, "INVALID_ALLOCATION_METHOD",
                      "NOT_SUPPORTED_ALLOCATION_METHOD")
       \o << <<InBitpoolRange(c.min), "INVALID_MINIMUM_BITPOOL_VALUE">>,
             <<c.min >= local.min, "NOT_SUPPORTED_MINIMUM_BITPOOL_VALUE">>,
             <<InBitpoolRange(c.max), "INVALID_MAXIMUM_BITPOOL_VALUE">>,
             <<c.max <= local.max, "NOT_SUPPORTED_MAXIMUM_BITPOOL_VALUE">> >>)

\* Mutant: bitpools out of range are taken as the remote device gave them.
RemoteBitpoolUnchecked(r) == <<r.min, r.max>>

\* The bitpools of the remote device, or the whole range if they make no sense.
RemoteBitpool(r) ==
    IF InBitpoolRange(r.min) /\ InBitpoolRange(r.max) /\ r.min <= r.max
    THEN <<r.min, r.max>> ELSE <<2, 250>>

\* A hint: whether there is one, and the four parameters the codecs look at.
NoHint == [given |-> FALSE, freq |-> 0, mode |-> "UNKNOWN", min |-> 0, max |-> 0]

\* GetSamplingFrequencyBit, GetChannelModeBit: STEREO asks for JOINT, whose bit
\* number is what the two are ORed to.
SbcModeBit(mode) == CASE mode = "STEREO" -> "JOINT" [] mode = "DUALMONO" -> "DUAL"
                      [] mode = "MONO" -> "MONO" [] OTHER -> NoBit
SbcFrequencyBit(freq) == IF freq \in {16000, 32000, 44100, 48000} THEN freq ELSE NoBit
HintFirst(value, given, preferred) == IF given THEN <<value>> \o preferred ELSE preferred

\* The bit fields of an SBC configuration, each empty where it cannot be agreed on.
SbcFields(r, hint) ==
    [freq |-> Select(HintFirst(SbcFrequencyBit(hint.freq), hint.given, <<44100, 48000>>),
                     SbcLocal.freq, r.freq),
     mode |-> Select(HintFirst(SbcModeBit(hint.mode), hint.given,
                               <<"JOINT", "STEREO", "DUAL", "MONO">>),
                     SbcLocal.mode, r.mode),
     blocks |-> Select(<<16, 12, 8, 4>>, SbcLocal.blocks, r.blocks),
     subbands |-> Select(<<8, 4>>, SbcLocal.subbands, r.subbands),
     alloc |-> Select(<<"LOUDNESS", "SNR">>, SbcLocal.alloc, r.alloc)]

\* BuildConfiguration of SBC.  The upper bitpool is the larger one of both sides.
BuildSbc(r, hint) ==
    LET c == SbcFields(r, hint)
        min == Larger(RemoteBitpool(r)[1], SbcLocal.min)
        max == Larger(RemoteBitpool(r)[2], SbcLocal.max)
        config(lo, hi) == [freq |-> c.freq, mode |-> c.mode, blocks |-> c.blocks,
                           subbands |-> c.subbands, alloc |-> c.alloc,
                           min |-> lo, max |-> hi]
    IN  IF \E f \in DOMAIN c : c[f] = {} THEN config(0, 0)
        ELSE IF hint.given
        THEN config(Larger(min, GetBitpool(c, hint.min)),
                    IF hint.max # 0 /\ hint.max >= hint.min
                    THEN Smaller(max, GetBitpool(c, hint.max)) ELSE max)
        ELSE config(min, max)

SbcBuilt(c) == c.alloc # {} /\ c.min # 0

-----------------------------------------------------------------------------
(* AAC *)

\* No local bitrate limit: the field is left 0.
AacLocal == [object |-> {"MPEG2_LC", "MPEG4_LC"}, freq |-> {44100, 48000},
             channels |-> {1, 2}, vbr |-> TRUE, bitrate |-> 0]

\* ParseConfiguration of AAC.
ParseAac(c, local) ==
    FirstFailure(
       FieldChecks(c.object, local.object, "INVALID_OBJECT_TYPE",
                   "NOT_SUPPORTED_OBJECT_TYPE")
       \o FieldChecks(c.freq, local.freq, "INVALID_SAMPLING_FREQUENCY",
                      "NOT_SUPPORTED_SAMPLING_FREQUENCY")
       \o FieldChecks(c.channels, local.channels, "INVALID_CHANNELS",
                      "NOT_SUPPORTED_CHANNELS")
       \o << <<c.vbr => local.vbr, "NOT_SUPPORTED_VBR">>,
             <<c.vbr /\ local.bitrate # 0 => c.bitrate <= local.bitrate,
               "NOT_SUPPORTED_BIT_RATE">> >>)

AacFrequencyBit(freq) ==
    IF freq \in {8000, 11025, 12000, 16000, 22050, 24000, 32000, 44100, 48000, 64000, 88200, 96000}
    THEN freq ELSE NoBit
AacChannelsBit(mode) == CASE mode = "MONO" -> 1 [] mode = "STEREO" -> 2 [] OTHER -> NoBit

\* BuildConfiguration of AAC; the bitrate field has 23 bits.
BuildAac(r, hint) ==
    [object |-> Select(<<"MPEG2_LC", "MPEG4_LC">>, AacLocal.object, r.object),
     freq |-> Select(HintFirst(AacFrequencyBit(hint.freq), hint.given, <<96000, 88200, 48000, 44100>>),
                     AacLocal.freq, r.freq),
     channels |-> Select(HintFirst(AacChannelsBit(hint.mode), hint.given, <<2, 1>>),
                         AacLocal.channels, r.channels),
     vbr |-> (~hint.given \/ hint.min = 0) /\ AacLocal.vbr /\ r.vbr,
     bitrate |-> IF ~hint.given \/ hint.max <= 0 THEN AacLocal.bitrate
                 ELSE (IF AacLocal.bitrate # 0 THEN Smaller(hint.max, AacLocal.bitrate)
                       ELSE hint.max) % 2 ^ 23]

AacBuilt(c) == c.object # {} /\ c.freq # {} /\ c.channels # {}

-----------------------------------------------------------------------------
(* The factory *)

Ranked == <<"AAC", "SBC">>

\* The order in which GetConfiguration tries the codecs.  Without a hinted codec
\* it compares every codec with what end() refers to, which is not an element:
\* any one of the codecs may be left out.
Orders(hinted) ==
    LET other == [AAC |-> "SBC", SBC |-> "AAC"]
    IN  IF hinted \in {"AAC", "SBC"} THEN {<<hinted, other[hinted]>>}
        ELSE {Ranked, <<"AAC">>, <<"SBC">>}

\* The place of a codec among the remote capabilities: the first one counts.
RemoteOf(codec, remote) == SelectInSeq(remote, LAMBDA r : r.id = codec)

\* BuildConfiguration builds nothing for capabilities of another length than the codec's.
Build(codec, caps, hint) == IF codec = "SBC" THEN BuildSbc(caps, hint) ELSE BuildAac(caps, hint)
Offers(codec, remote, hint) ==
    /\ RemoteOf(codec, remote) # 0
    /\ remote[RemoteOf(codec, remote)].whole
    /\ LET c == Build(codec, remote[RemoteOf(codec, remote)].caps, hint)
       IN  IF codec = "SBC" THEN SbcBuilt(c) ELSE AacBuilt(c)

\* GetConfiguration, for one order: the first codec the remote device has as
\* well and that can be configured.
GetConfiguration(order, remote, hint) ==
    LET i == SelectInSeq(order, LAMBDA k : Offers(k, remote, hint))
    IN  IF i = 0 THEN [id |-> "none"]
        ELSE [id |-> order[i],
              config |-> Build(order[i], remote[RemoteOf(order[i], remote)].caps, hint)]

\* parseA2dpConfiguration, and what startSession asks of an a2dp configuration: whole
\* says whether it has the length that the codec's has.
Parse(id, whole, c) ==
    CASE id \notin {"SBC", "AAC"} -> "NOT_SUPPORTED_CODEC_TYPE"
      [] id \in {"SBC", "AAC"} /\ ~whole -> "BAD_LENGTH"
      [] id = "SBC" /\ whole -> ParseSbc(c, SbcLocal)
      [] id = "AAC" /\ whole -> ParseAac(c, AacLocal)

-----------------------------------------------------------------------------
(* What is expected of an answer to getA2dpConfiguration *)

\* The configuration offered is one that parses, as the factory asserts and as
\* startSession demands, whatever the remote device says it can do.
OfferIsAccepted(answer) ==
    answer.id # "none" => Parse(answer.id, TRUE, answer.config) = "OK"

\* The lower bitpool a remote device asks for, if its range makes sense.
Lowest(caps) == IF caps.min >= 2 /\ caps.min <= caps.max /\ caps.max <= 250 THEN caps.min ELSE 2

\* A hint limits the bitrate above, and does so above what it wants below.
Limits(hint) == hint.given /\ hint.max # 0 /\ hint.max >= hint.min

\* The two ends of an SBC offer, by the bitrates of the bitpools: the lower one is not
\* below the remote device's, leaves no bitpool out whose bitrate reaches the one wanted,
\* and takes none in that is not needed for it; the upper one leaves out exactly the
\* bitpools that reach the limit.  The range is empty only where the remote device's own
\* lower end is above the limit.
BitpoolsOffered(c, caps, hint) ==
    /\ Lowest(caps) <= c.min
    /\ \A b \in 2 .. 250 :
          /\ hint.given /\ b < c.min /\ Lowest(caps) <= b => GetBitrate(c, b) < hint.min
          /\ hint.given /\ b > c.min => GetBitrate(c, b) >= hint.min
          /\ ~hint.given => c.min = Lowest(caps)
          /\ Limits(hint) => (b > c.max <=> b # 2 /\ GetBitrate(c, b) >= hint.max)
          /\ ~Limits(hint) => b <= c.max
    /\ c.min > c.max => Limits(hint) /\ c.min = Lowest(caps)

\* Every field of it has one value, and one that the remote device has as well; the
\* bitpools of SBC follow the device and the hint.
OfferWithinRemote(answer, remote, hint) ==
    answer.id # "none" =>
       \E r \in Range(remote) :
          /\ r.id = answer.id /\ r.whole
          /\ \A f \in {"freq", "mode", "blocks", "subbands", "alloc", "object", "channels"} :
                f \in DOMAIN answer.config =>
                   answer.config[f] \subseteq r.caps[f]
                   /\ Cardinality(answer.config[f]) = 1
          /\ answer.id = "SBC" => BitpoolsOffered(answer.config, r.caps, hint)

=============================================================================
