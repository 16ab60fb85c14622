----------------------------- MODULE EncParams -----------------------------
(***************************************************************************)
(* The parameters of the encoder (C2RKMpiEnc::IntfImpl): their defaults,   *)
(* what their setters make of the client's values, and the parameters that *)
(* are computed from others.  A frame rate is a whole number, a sync frame *)
(* period is in milliseconds.                                              *)
(***************************************************************************)
EXTENDS Integers, Sequences, FiniteSets, SequencesExt, CodecTables, ColorAspects

CONSTANT UintMax        \* bound: stands for UINT32_MAX

ASSUME UintMaxAssumption == UintMax \in Nat \ {0}

Forever == UintMax      \* a gop layer's count, a sync period: no end

ColorAspectsSetter(me) == Bounded(me)
CodedColorAspectsSetter(coded) == coded

\* Within the declared range, or the old value.
SizeSetter(old, me) ==
    LET Ok(x) == x \in 90 .. 7680 /\ x % 2 = 0
    IN  [width  |-> IF Ok(me.width) THEN me.width ELSE old.width,
         height |-> IF Ok(me.height) THEN me.height ELSE old.height]

BitrateSetter(me) == IF me <= 4096 THEN 4096 ELSE me

IntraRefreshSetter(period) ==
    IF period < 1 THEN [mode |-> "DISABLED", period |-> 0]
    ELSE [mode |-> "ARBITRARY", period |-> period]

(***************************************************************************)
(* ParseGop: the distance of sync frames is the product of the layers'     *)
(* counts + 1, as far as it fits 32 bits; one endless layer makes it 0.    *)
(***************************************************************************)
GopLength(acc, layer) ==
    IF layer.count = Forever THEN 0
    ELSE IF acc <= UintMax \div (layer.count + 1) THEN acc * (layer.count + 1) ELSE acc

SyncInterval(gop) == FoldLeft(GopLength, 1, gop)

\* The count of the last layer of P and B frames.
MaxBframes(gop) ==
    LET b == SelectSeq(gop, LAMBDA layer : layer.type = "PB")
    IN  IF b = << >> THEN 0 ELSE b[Len(b)].count

InputDelaySetter(gop) == MaxBframes(gop)

\* getSyncFramePeriod_l: in frames, at least one; 0 when there is none.
getSyncFramePeriod_l(p) ==
    IF p.syncPeriod < 0 \/ p.syncPeriod = Forever THEN 0
    ELSE LET frames == (p.syncPeriod * p.frameRate + 500) \div 1000
         IN  IF frames < 1 THEN 1 ELSE frames

(***************************************************************************)
(* Levels.  HEVC's sizes and rates are in units of 1024 samples: every     *)
(* limit is a multiple of that.                                            *)
(***************************************************************************)
Limit(level, rate, size, bitrate) ==
    [level |-> level, rate |-> rate, size |-> size, bitrate |-> bitrate]

AVCLimits ==
    << Limit("1",     1485,    99,     64000), Limit("1_1",   3000,   396,    192000),
       Limit("1_2",   6000,   396,    384000), Limit("1_3",  11880,   396,    768000),
       Limit("2",    11880,   396,   2000000), Limit("2_1",  19800,   792,   4000000),
       Limit("2_2",  20250,  1620,   4000000), Limit("3",    40500,  1620,  10000000),
       Limit("3_1", 108000,  3600,  14000000), Limit("3_2", 216000,  5120,  20000000),
       Limit("4",   245760,  8192,  20000000), Limit("4_1", 245760,  8192,  50000000),
       Limit("4_2", 522240,  8704,  50000000), Limit("5",   589824, 22080, 135000000) >>

HEVCLimits ==
    << Limit("1",       540,    36,    128000), Limit("2",      3600,   120,   1500000),
       Limit("2_1",    7200,   240,   3000000), Limit("3",     16200,   540,   6000000),
       Limit("3_1",   32400,   960,  10000000), Limit("4",     65280,  2176,  12000000),
       Limit("4_1",  130560,  2176,  20000000), Limit("5",    261120,  8704,  25000000),
       Limit("5_1",  522240,  8704,  40000000), Limit("5_2", 1044480,  8704,  60000000),
       Limit("6",   1044480, 34816,  60000000), Limit("6_1", 2088960, 34816, 120000000),
       Limit("6_2", 4177920, 34816, 240000000) >>

Limits(codec) == IF codec = "AVC" THEN AVCLimits ELSE HEVCLimits

CeilDiv(a, b) == (a + b - 1) \div b

\* The load of a picture and of a second of them, in the units of Limits.
PictureLoad(codec, size) ==
    IF codec = "AVC" THEN CeilDiv(size.width, 16) * CeilDiv(size.height, 16)
    ELSE CeilDiv(size.width * size.height, 1024)
SecondLoad(codec, size, fps) ==
    IF codec = "AVC" THEN PictureLoad(codec, size) * fps
    ELSE LET samples == size.width * size.height
         IN  (samples \div 1024) * fps + CeilDiv((samples % 1024) * fps, 1024)

Meets(limit, codec, size, fps, bitrate) ==
    /\ PictureLoad(codec, size) <= limit.size
    /\ SecondLoad(codec, size, fps) <= limit.rate
    /\ bitrate <= limit.bitrate

\* The rows of the table that meet the configuration.
Feasible(codec, size, fps, bitrate) ==
    {i \in DOMAIN Limits(codec) : Meets(Limits(codec)[i], codec, size, fps, bitrate)}

\* The level is kept unless it comes before the first row that is feasible.
LevelSetter(codec, level, size, fps, bitrate) ==
    LET table == Limits(codec)
        rows  == Feasible(codec, size, fps, bitrate)
        first == CHOOSE i \in rows : \A j \in rows : i <= j
        TooLow == \/ codec = "AVC" /\ level = "1B"
                  \/ \E i \in 1 .. first - 1 : table[i].level = level
    IN  IF rows = {} THEN (IF codec = "AVC" THEN "5" ELSE "4_1")
        ELSE IF TooLow THEN table[first].level ELSE level

Profiles(codec) == IF codec = "AVC" THEN {"AVC_BASELINE", "AVC_MAIN", "AVC_HIGH"}
                   ELSE {"HEVC_MAIN", "HEVC_MAIN_10"}

\* AVCProfileLevelSetter, HEVCProfileLevelSetter, DefaultProfileLevelSetter
ProfileLevelSetter(codec, me, size, fps, bitrate) ==
    IF codec \notin {"AVC", "HEVC"} THEN me
    ELSE [profile |-> IF me.profile \in Profiles(codec) THEN me.profile
                      ELSE IF codec = "AVC" THEN "AVC_MAIN" ELSE "HEVC_MAIN",
          level |-> LevelSetter(codec, me.level, size, fps, bitrate)]

(***************************************************************************)
(* The parameters.  The framework's helper (external) runs the setter of   *)
(* each when it is added: the defaults are those the setters leave.        *)
(***************************************************************************)
DefaultProfileLevel(codec) ==
    CASE codec = "AVC"  -> [profile |-> "AVC_BASELINE", level |-> "3_1"]
      [] codec = "HEVC" -> [profile |-> "HEVC_MAIN", level |-> "4_1"]
      [] OTHER          -> [profile |-> "UNUSED", level |-> "UNUSED"]

\* A parameter of the MLVEC extension that the client did not set (0 there).
NotSet == ""

\* Of the MLVEC extension only the last three reach MPP.
DefaultParams(codec) ==
    [size |-> [width |-> 176, height |-> 144], gop |-> << >>, quantization |-> << >>,
     inputDelay |-> 0, frameRate |-> 1, bitrateMode |-> "VARIABLE", bitrate |-> 64000,
     intraRefresh |-> [mode |-> "DISABLED", period |-> 0], syncPeriod |-> 1000,
     profileLevel |-> DefaultProfileLevel(codec),
     aspects |-> Unspecified, codedAspects |-> CodedColorAspectsSetter(Unspecified),
     layerCount |-> 0, prependHeader |-> "NONE", sceneMode |-> 0,
     mProfile |-> NotSet, mLevel |-> NotSet, mRateControl |-> NotSet]

\* What a setter makes of the client's value v for parameter k.
SetterOf(k, v, p) ==
    CASE k = "size"         -> SizeSetter(p.size, v)
      [] k = "bitrate"      -> BitrateSetter(v)
      [] k = "intraRefresh" -> IntraRefreshSetter(v)
      [] k = "aspects"      -> ColorAspectsSetter(v)
      [] OTHER              -> v

\* The level is not looked at again when the frame rate is set.
MutDependents(codec, p, k) ==
    [p EXCEPT
        !.inputDelay   = IF k \in {"gop", "inputDelay"} THEN InputDelaySetter(p.gop) ELSE @,
        !.codedAspects = IF k \in {"aspects", "codedAspects"}
                         THEN CodedColorAspectsSetter(p.aspects) ELSE @,
        !.profileLevel = IF k \in {"profileLevel", "size", "bitrate"}
                         THEN ProfileLevelSetter(codec, @, p.size, p.frameRate, p.bitrate)
                         ELSE @]

\* A parameter that depends on another is set again when that one is set.
Dependents(codec, p, k) ==
    [p EXCEPT
        !.inputDelay   = IF k \in {"gop", "inputDelay"} THEN InputDelaySetter(p.gop) ELSE @,
        !.codedAspects = IF k \in {"aspects", "codedAspects"}
                         THEN CodedColorAspectsSetter(p.aspects) ELSE @,
        !.profileLevel = IF k \in {"profileLevel", "size", "frameRate", "bitrate"}
                         THEN ProfileLevelSetter(codec, @, p.size, p.frameRate, p.bitrate)
                         ELSE @]

Configured(codec, p, k, v) == Dependents(codec, [p EXCEPT ![k] = SetterOf(k, v, p)], k)

(***************************************************************************)
(* What MPP is given of them: an MLVEC value goes before the Codec2 one.   *)
(***************************************************************************)
getProfile_l(codec, p) ==
    CASE codec = "AVC"  -> IF p.mProfile # NotSet THEN getMppH264Profile(p.mProfile, FALSE)
                           ELSE getMppH264Profile(p.profileLevel.profile, TRUE)
      [] codec = "HEVC" -> getMppH265Profile(p.profileLevel.profile)
      [] OTHER          -> "0"

getLevel_l(codec, p) ==
    CASE codec = "AVC"  -> IF p.mLevel # NotSet THEN getMppH264Level(p.mLevel, FALSE)
                           ELSE getMppH264Level(p.profileLevel.level, TRUE)
      [] codec = "HEVC" -> getMppH265Level(p.profileLevel.level)
      [] OTHER          -> "0"

getBitrateMode_l(p) ==
    IF p.mRateControl # NotSet THEN getMppBitrateMode(p.mRateControl, FALSE)
    ELSE getMppBitrateMode(p.bitrateMode, TRUE)
=============================================================================
