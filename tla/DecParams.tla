------------------------------ MODULE DecParams ------------------------------
(***************************************************************************)
(* The parameters of the decoder (C2RKMpiDec::IntfImpl): their defaults,   *)
(* what their setters make of a value, and the ones computed from others.  *)
(* The framework's helper (external) runs each setter when its parameter   *)
(* is added: the defaults are those the setters leave.                     *)
(***************************************************************************)
EXTENDS Integers, Sequences, TLC, ColorAspects

kMaxVideoWidth == 8192
kMinInputBufferSize == 2097152
kDefaultOutputDelay == 16
kMaxOutputDelay == 16

Max2(a, b) == IF a > b THEN a ELSE b
Min2(a, b) == IF a < b THEN a ELSE b

\* An odd or too large size is refused, in one direction or both.
Supported(x) == x \in 2 .. kMaxVideoWidth /\ x % 2 = 0
SizeAccepted(size) == Supported(size.width) /\ Supported(size.height)
DecSizeSetter(old, me) ==
    [width  |-> IF Supported(me.width) THEN me.width ELSE old.width,
     height |-> IF Supported(me.height) THEN me.height ELSE old.height]
BlockSizeSetter(old, me) == DecSizeSetter(old, me)

MaxPictureSizeSetter(me, size) ==
    [width  |-> Min2(Max2(me.width, size.width), kMaxVideoWidth),
     height |-> Min2(Max2(me.height, size.height), kMaxVideoWidth)]

MaxInputSizeSetter(maxSize) ==
    Max2(((maxSize.width + 63) \div 64) * ((maxSize.height + 63) \div 64) * 3072,
         kMinInputBufferSize)

DefaultColorAspectsSetter(me) == Bounded(me)
DecCodedColorAspectsSetter(me) == Bounded(me)

\* What the stream says, and the client's default where it says nothing.
DecColorAspectsSetter(def, coded) ==
    [f \in Field |-> IF coded[f] = 0 THEN def[f] ELSE coded[f]]

\* The codecs whose streams carry colour aspects.
HasAspects(codec) == codec \in {"AVC", "HEVC", "MPEG2"}

\* Never validated: the setter keeps what it is given, and the values listed
\* with the parameter are only there for queries.
DecProfileLevel(codec) ==
    CASE codec = "AVC"   -> <<"AVC_BASELINE", "AVC_5_1">>
      [] codec = "HEVC"  -> <<"HEVC_MAIN", "HEVC_MAIN_5_1">>
      [] codec = "MPEG2" -> <<"MP2V_SIMPLE", "MP2V_HIGH">>
      [] codec = "MPEG4" -> <<"MP4V_SIMPLE", "MP4V_3">>
      [] codec = "H263"  -> <<"H263_BASELINE", "H263_30">>
      [] codec = "VP9"   -> <<"VP9_0", "VP9_5">>
      [] codec = "AV1"   -> <<"AV1_0", "AV1_7_3">>
      [] OTHER           -> << >>

\* The parameters at construction; only streams with aspects have low latency.
DecDefaults(codec, pool) ==
    [size |-> [width |-> 320, height |-> 240], maxSize |-> [width |-> 320, height |-> 240],
     blockSize |-> [width |-> 320, height |-> 240], maxInputSize |-> kMinInputBufferSize,
     outputDelay |-> kDefaultOutputDelay, profileLevel |-> DecProfileLevel(codec),
     defaultAspects |-> Unspecified, codedAspects |-> Specified(2, 0, 0, 0),
     aspects |-> DecColorAspectsSetter(Unspecified, Specified(2, 0, 0, 0)),
     lowLatency |-> FALSE, outputPool |-> pool]

DecSetterOf(k, v, p) ==
    CASE k = "size"           -> DecSizeSetter(p.size, v)
      [] k = "blockSize"      -> BlockSizeSetter(p.blockSize, v)
      [] k = "outputDelay"    -> IF v \in 0 .. kMaxOutputDelay THEN v ELSE p.outputDelay
      [] k = "defaultAspects" -> DefaultColorAspectsSetter(v)
      [] k = "codedAspects"   -> DecCodedColorAspectsSetter(v)
      [] OTHER                -> v

\* Size leads to the largest size, and that to the largest input.
DecDependents(codec, p, k) ==
    LET maxSize == IF k \in {"size", "maxSize"} THEN MaxPictureSizeSetter(p.maxSize, p.size)
                   ELSE p.maxSize
    IN  [p EXCEPT
            !.maxSize = maxSize,
            !.maxInputSize = IF k \in {"size", "maxSize"} THEN MaxInputSizeSetter(maxSize) ELSE @,
            !.aspects = IF HasAspects(codec) /\ k \in {"defaultAspects", "codedAspects"}
                        THEN DecColorAspectsSetter(p.defaultAspects, p.codedAspects) ELSE @]

\* A parameter the component does not have is not set.
DecHas(codec, k) == k \in {"codedAspects", "lowLatency"} => HasAspects(codec)
DecConfigured(codec, p, k, v) ==
    IF DecHas(codec, k) THEN DecDependents(codec, [p EXCEPT ![k] = DecSetterOf(k, v, p)], k)
    ELSE p
==============================================================================
