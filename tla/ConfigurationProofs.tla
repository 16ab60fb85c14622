------------------------ MODULE ConfigurationProofs ------------------------
(***************************************************************************)
(* What holds of every component, from any requests: a decoder's frames    *)
(* are returned with their own colour aspects, and the blocks it gives MPP *)
(* are large enough; an encoder's target is the client's, its frames are   *)
(* described as they are, its layers can be dropped, its level is high     *)
(* enough.  The half that was not made takes no step.                      *)
(***************************************************************************)
EXTENDS Configuration, TLAPS

-----------------------------------------------------------------------------
(***************************************************************************)
(* The decoder: the invariant behind AspectsFollow.                        *)
(***************************************************************************)

AspectParams == {"defaultAspects", "codedAspects", "aspects"}

\* The members and the parameters the aspects are kept in.
AspectsPlaces ==
    /\ {"mCodingType", "mBitstreamColorAspects", "mSignalledError"} \subseteq DOMAIN dec
    /\ AspectParams \subseteq DOMAIN dparams
    /\ {"frame", "default", "with"} \subseteq DOMAIN shown
    /\ stream \in Streams

\* The interface's aspects are computed from what they depend on.
AspectsComputed(p) == p.aspects = DecColorAspectsSetter(p.defaultAspects, p.codedAspects)

\* The cache and the interface's coded aspects are of the same frame.
CacheCurrent(p, m) == p.codedAspects = Bounded(ToCodec2(m.mBitstreamColorAspects))

\* A frame between getoutframe and finishWork is the one the cache is of.
FrameInCache == dpc = "finish" => shown.frame = dec.mBitstreamColorAspects

\* A frame that was returned had its own aspects.
ShownFollows ==
    dpc # "finish" /\ shown # NotShown
        => shown.with = DecColorAspectsSetter(shown.default, Bounded(ToCodec2(shown.frame)))

\* Frames have aspects of one byte.
FrameBounded == \A f \in Field : shown.frame[f] \in 0 .. OTHER_VALUE

AspectsInv ==
    /\ AspectsPlaces
    /\ HasAspects(dec.mCodingType) =>
          /\ AspectsComputed(dparams) /\ CacheCurrent(dparams, dec)
          /\ FrameInCache /\ ShownFollows
    /\ FrameBounded

-----------------------------------------------------------------------------
(***************************************************************************)
(* The parameters.                                                         *)
(***************************************************************************)

\* A parameter other than the coded aspects, set by the client or by an info
\* change, leaves them alone and computes the aspects again.
LEMMA OtherParameter ==
    ASSUME NEW codec, NEW p, NEW k, NEW v,
           AspectParams \subseteq DOMAIN p, k \notin {"codedAspects", "aspects"}
    PROVE  LET q == DecConfigured(codec, p, k, v)
           IN  /\ AspectParams \subseteq DOMAIN q
               /\ q.codedAspects = p.codedAspects
               /\ HasAspects(codec) /\ AspectsComputed(p) => AspectsComputed(q)
<1> DEFINE r == [p EXCEPT ![k] = DecSetterOf(k, v, p)]
           q == DecDependents(codec, r, k)
<1>1. /\ DOMAIN r = DOMAIN p
      /\ r.codedAspects = p.codedAspects /\ r.aspects = p.aspects
      /\ k # "defaultAspects" => r.defaultAspects = p.defaultAspects
  BY DEF AspectParams
<1>2. /\ DOMAIN q = DOMAIN r
      /\ q.codedAspects = r.codedAspects /\ q.defaultAspects = r.defaultAspects
      /\ q.aspects = IF HasAspects(codec) /\ k = "defaultAspects"
                     THEN DecColorAspectsSetter(r.defaultAspects, r.codedAspects)
                     ELSE r.aspects
  BY <1>1 DEF DecDependents, AspectParams
<1>3. DecConfigured(codec, p, k, v) = IF DecHas(codec, k) THEN q ELSE p
  BY DEF DecConfigured
<1>4. HasAspects(codec) /\ AspectsComputed(p) => AspectsComputed(q)
  BY <1>1, <1>2 DEF AspectsComputed
<1>5. QED
  BY <1>1, <1>2, <1>3, <1>4

\* The coded aspects of a frame are bounded, and the aspects computed from them.
LEMMA CodedAspects ==
    ASSUME NEW codec, NEW p, NEW v, AspectParams \subseteq DOMAIN p, HasAspects(codec)
    PROVE  LET q == DecConfigured(codec, p, "codedAspects", v)
           IN  /\ AspectParams \subseteq DOMAIN q
               /\ q.codedAspects = Bounded(v)
               /\ AspectsComputed(q)
<1> DEFINE r == [p EXCEPT !["codedAspects"] = DecSetterOf("codedAspects", v, p)]
           q == DecDependents(codec, r, "codedAspects")
<1>0. DecSetterOf("codedAspects", v, p) = Bounded(v)
  BY DEF DecSetterOf, DecCodedColorAspectsSetter
<1>1. /\ DOMAIN r = DOMAIN p
      /\ r.codedAspects = Bounded(v) /\ r.defaultAspects = p.defaultAspects
  BY <1>0 DEF AspectParams
<1>2. /\ DOMAIN q = DOMAIN r
      /\ q.codedAspects = r.codedAspects /\ q.defaultAspects = r.defaultAspects
      /\ q.aspects = DecColorAspectsSetter(r.defaultAspects, r.codedAspects)
  BY <1>1 DEF DecDependents, AspectParams
<1>3. DecConfigured(codec, p, "codedAspects", v) = q
  BY DEF DecConfigured, DecHas
<1>4. AspectsComputed(q)
  BY <1>2 DEF AspectsComputed
<1>5. QED
  BY <1>1, <1>2, <1>3, <1>4

\* Aspects of one byte are not bounded any further.
LEMMA BoundedFrame ==
    ASSUME NEW a, \A f \in Field : a[f] \in 0 .. OTHER_VALUE
    PROVE  Bounded(ToCodec2(a)) = ToCodec2(a)
  BY DEF Bounded, ToCodec2, Field, OTHER_VALUE

-----------------------------------------------------------------------------
(***************************************************************************)
(* The steps.                                                              *)
(***************************************************************************)

\* A new component's interface and cache agree: both say unspecified.
LEMMA AspectsInit ==
    ASSUME NEW codec, NEW device, NEW pool, DecInit(codec, device, pool)
    PROVE  AspectsInv
<1>1. /\ dec = DecMembers(codec, device) /\ dparams = DecDefaults(codec, pool)
      /\ shown = NotShown /\ dpc = "idle" /\ stream \in Streams
  BY DEF DecInit
<1>2. /\ AspectParams \subseteq DOMAIN dparams
      /\ dparams.defaultAspects = Unspecified
      /\ dparams.codedAspects = Specified(2, 0, 0, 0)
      /\ dparams.aspects = DecColorAspectsSetter(Unspecified, Specified(2, 0, 0, 0))
  BY <1>1 DEF DecDefaults, AspectParams
<1>3. dec.mBitstreamColorAspects = Specified(0, 2, 2, 2)
  BY <1>1 DEF DecMembers
<1>4. CacheCurrent(dparams, dec)
  BY <1>2, <1>3 DEF CacheCurrent, Bounded, ToCodec2, Specified, Field, OTHER_VALUE
<1>5. AspectsPlaces
  BY <1>1, <1>2 DEF AspectsPlaces, DecMembers, NotShown
<1>6. FrameBounded
  BY <1>1 DEF FrameBounded, NotShown, Unspecified, Specified, Field, OTHER_VALUE
<1>7. QED
  BY <1>1, <1>2, <1>4, <1>5, <1>6
     DEF AspectsInv, AspectsComputed, FrameInCache, ShownFollows

\* A step that leaves the frame, the cache and the aspects alone.
LEMMA AspectsKept ==
    ASSUME AspectsInv, AspectsPlaces',
           dec'.mCodingType = dec.mCodingType,
           dec'.mBitstreamColorAspects = dec.mBitstreamColorAspects,
           dparams'.codedAspects = dparams.codedAspects,
           HasAspects(dec.mCodingType) => AspectsComputed(dparams'),
           shown' = shown, dpc' = "finish" <=> dpc = "finish"
    PROVE  AspectsInv'
<1>1. HasAspects(dec.mCodingType) => CacheCurrent(dparams', dec')
  BY DEF AspectsInv, CacheCurrent, ToCodec2
<1>2. HasAspects(dec.mCodingType) => FrameInCache' /\ ShownFollows'
  BY DEF AspectsInv, FrameInCache, ShownFollows
<1>3. FrameBounded'
  BY DEF AspectsInv, FrameBounded
<1>4. QED
  BY <1>1, <1>2, <1>3 DEF AspectsInv

\* Most of the members do not matter.
LEMMA MembersKept ==
    ASSUME AspectsInv, UNCHANGED <<dparams, stream, shown>>, dpc' = "finish" <=> dpc = "finish",
           DOMAIN dec' = DOMAIN dec,
           dec'.mCodingType = dec.mCodingType,
           dec'.mBitstreamColorAspects = dec.mBitstreamColorAspects
    PROVE  AspectsInv'
<1>1. AspectsPlaces'
  BY DEF AspectsInv, AspectsPlaces
<1>2. QED
  BY <1>1, AspectsKept DEF AspectsInv

\* The setup of a decoder leaves the aspects alone.
LEMMA BeginKeeps == ASSUME AspectsInv, DecBegin PROVE AspectsInv'
<1>1. PICK pool :
        LET m == [dec EXCEPT !.mOutputBlockPool = pool,
                             !.mBufferMode = (pool # BUFFERQUEUE)]
            set == FbcSet(Adopted(m))
            info == FrameInfo(set)
            ready == [set EXCEPT !.mHorStride = info.hor, !.mVerStride = info.ver]
        IN  dec' \in {m, Adopted(m), ready, [ready EXCEPT !.mStarted = TRUE]}
  <2> DEFINE pool == IF dec.mOutputBlockPool = NoPool THEN dparams.outputPool
                     ELSE dec.mOutputBlockPool
  <2>1. QED
    BY DEF DecBegin
<1> DEFINE m == [dec EXCEPT !.mOutputBlockPool = pool, !.mBufferMode = (pool # BUFFERQUEUE)]
           set == FbcSet(Adopted(m))
           info == FrameInfo(set)
           ready == [set EXCEPT !.mHorStride = info.hor, !.mVerStride = info.ver]
           Same(x) == /\ DOMAIN x = DOMAIN dec /\ x.mCodingType = dec.mCodingType
                      /\ x.mBitstreamColorAspects = dec.mBitstreamColorAspects
<1>2. Same(m)
  OBVIOUS
<1>3. Same(Adopted(m))
  BY <1>2 DEF Adopted
<1>4. Same(set)
  BY <1>3 DEF FbcSet
<1>5. Same(ready)
  BY <1>4
<1>6. Same([ready EXCEPT !.mStarted = TRUE])
  BY <1>5
<1>7. Same(dec')
  BY <1>1, <1>2, <1>3, <1>5, <1>6
<1>8. UNCHANGED <<dparams, stream, shown>> /\ (dpc' = "finish" <=> dpc = "finish")
  BY DEF DecBegin
<1>9. QED
  BY <1>7, <1>8, MembersKept

\* So does the fetch of blocks.
LEMMA EnsureKeeps == ASSUME AspectsInv, EnsureDecoderState PROVE AspectsInv'
<1>1. PICK failure : dec' = [dec EXCEPT !.mSignalledError = failure]
  BY DEF EnsureDecoderState
<1>2. /\ DOMAIN dec' = DOMAIN dec /\ dec'.mCodingType = dec.mCodingType
      /\ dec'.mBitstreamColorAspects = dec.mBitstreamColorAspects
  BY <1>1
<1>3. UNCHANGED <<dparams, stream, shown>> /\ (dpc' = "finish" <=> dpc = "finish")
  BY DEF EnsureDecoderState
<1>4. QED
  BY <1>2, <1>3, MembersKept

\* An info change sets the size parameter and no aspects.
LEMMA InfoChangeKeeps == ASSUME AspectsInv, InfoChange PROVE AspectsInv'
<1>1. UNCHANGED <<stream, shown>> /\ (dpc' = "finish" <=> dpc = "finish")
  BY DEF InfoChange
<1>2. \/ dparams' = dparams
      \/ \E v : dparams' = DecConfigured(dec.mCodingType, dparams, "size", v)
  BY DEF InfoChange
<1>3. \/ dec' = [dec EXCEPT !.mSignalledError = TRUE]
      \/ dec' = [Changed(dec, InfoNow) EXCEPT !.mSignalledError = ~SizeAccepted(stream)]
  BY DEF InfoChange
<1>4. /\ DOMAIN dec' = DOMAIN dec /\ dec'.mCodingType = dec.mCodingType
      /\ dec'.mBitstreamColorAspects = dec.mBitstreamColorAspects
  <2>1. CASE dec' = [dec EXCEPT !.mSignalledError = TRUE]
    BY <2>1
  <2> DEFINE m == Changed(dec, InfoNow)
  <2>2. /\ DOMAIN m = DOMAIN dec /\ m.mCodingType = dec.mCodingType
        /\ m.mBitstreamColorAspects = dec.mBitstreamColorAspects
    BY DEF Changed, AspectsInv, AspectsPlaces
  <2>3. CASE dec' = [m EXCEPT !.mSignalledError = ~SizeAccepted(stream)]
    <3> HIDE DEF m
    <3>1. QED
      BY <2>2, <2>3
  <2>4. QED
    BY <1>3, <2>1, <2>3
<1>5. /\ AspectParams \subseteq DOMAIN dparams'
      /\ dparams'.codedAspects = dparams.codedAspects
      /\ HasAspects(dec.mCodingType) => AspectsComputed(dparams')
  BY <1>2, OtherParameter DEF AspectsInv, AspectsPlaces
<1>6. AspectsPlaces'
  BY <1>1, <1>4, <1>5 DEF AspectsInv, AspectsPlaces
<1>7. QED
  BY <1>1, <1>4, <1>5, <1>6, AspectsKept

\* The cache and the interface change together, for the frame that is got.
LEMMA GetFrameKeeps == ASSUME AspectsInv, GetFrame PROVE AspectsInv'
<1> DEFINE aspects == FrameAspects(dec.mCodingType, stream.aspects)
<1>1. CASE dpc' = "crashed" /\ UNCHANGED <<dec, dparams, shown>>
  BY <1>1, MembersKept DEF GetFrame
<1>2. CASE /\ dec' = [dec EXCEPT !.mSignalledError = TRUE]
           /\ dpc' = "idle" /\ UNCHANGED <<dparams, shown>>
  BY <1>2, MembersKept DEF GetFrame
<1>3. CASE /\ getVuiParams(dec, aspects)
           /\ shown' = [NotShown EXCEPT !.frame = aspects]
           /\ dpc' = "finish"
  <2>1. /\ shown'.frame = aspects /\ {"frame", "default", "with"} \subseteq DOMAIN shown'
        /\ stream' = stream
    BY <1>3 DEF NotShown, GetFrame
  <2>2. FrameBounded'
    <3>1. \A f \in Field : stream.aspects[f] \in 0 .. OTHER_VALUE
      BY DecConfigAssumption DEF AspectsInv, AspectsPlaces
    <3>2. QED
      BY <2>1, <3>1 DEF FrameBounded, FrameAspects, Field, OTHER_VALUE
  <2>3. CASE HasAspects(dec.mCodingType) /\ aspects # dec.mBitstreamColorAspects
    <3>1. /\ dec' = [dec EXCEPT !.mBitstreamColorAspects = aspects]
          /\ dparams' = DecConfigured(dec.mCodingType, dparams, "codedAspects",
                                      ToCodec2(aspects))
      BY <1>3, <2>3 DEF getVuiParams
    <3>2. /\ AspectParams \subseteq DOMAIN dparams'
          /\ dparams'.codedAspects = Bounded(ToCodec2(aspects))
          /\ AspectsComputed(dparams')
      BY <2>3, <3>1, CodedAspects DEF AspectsInv, AspectsPlaces
    <3>3. /\ DOMAIN dec' = DOMAIN dec /\ dec'.mBitstreamColorAspects = aspects
      BY <3>1 DEF AspectsInv, AspectsPlaces
    <3>4. AspectsPlaces'
      BY <2>1, <3>2, <3>3 DEF AspectsInv, AspectsPlaces
    <3>5. CacheCurrent(dparams', dec')
      BY <3>2, <3>3 DEF CacheCurrent
    <3>6. FrameInCache' /\ ShownFollows'
      BY <1>3, <2>1, <3>3 DEF FrameInCache, ShownFollows
    <3>7. QED
      BY <2>2, <3>2, <3>4, <3>5, <3>6 DEF AspectsInv
  <2>4. CASE ~(HasAspects(dec.mCodingType) /\ aspects # dec.mBitstreamColorAspects)
    <3>1. UNCHANGED <<dec, dparams>>
      BY <1>3, <2>4 DEF getVuiParams
    <3>2. AspectsPlaces'
      BY <2>1, <3>1 DEF AspectsInv, AspectsPlaces
    <3>3. HasAspects(dec'.mCodingType) =>
             /\ AspectsComputed(dparams') /\ CacheCurrent(dparams', dec')
      BY <3>1 DEF AspectsInv
    <3>4. HasAspects(dec'.mCodingType) => FrameInCache' /\ ShownFollows'
      BY <1>3, <2>1, <2>4, <3>1 DEF FrameInCache, ShownFollows
    <3>5. QED
      BY <2>2, <3>2, <3>3, <3>4 DEF AspectsInv
  <2>5. QED
    BY <2>3, <2>4
<1>4. QED
  BY <1>1, <1>2, <1>3 DEF GetFrame

\* The frame is returned with the aspects of the interface, which are its own.
LEMMA FinishWorkKeeps == ASSUME AspectsInv, FinishWork PROVE AspectsInv'
<1> DEFINE with == IF HasAspects(dec.mCodingType) THEN dparams.aspects ELSE shown.with
<1>1. shown' = [shown EXCEPT !.with = with, !.default = dparams.defaultAspects]
  BY DEF FinishWork
<1>2. /\ DOMAIN shown' = DOMAIN shown /\ shown'.frame = shown.frame
      /\ shown'.with = with /\ shown'.default = dparams.defaultAspects
  BY <1>1 DEF AspectsInv, AspectsPlaces
<1>3. UNCHANGED <<dec, dparams, stream>> /\ dpc' = "outframe" /\ dpc = "finish"
  BY DEF FinishWork
<1>4. AspectsPlaces'
  BY <1>2, <1>3 DEF AspectsInv, AspectsPlaces
<1>5. FrameBounded'
  BY <1>2 DEF AspectsInv, FrameBounded
<1>6. CASE HasAspects(dec.mCodingType)
  <2>1. /\ shown.frame = dec.mBitstreamColorAspects
        /\ dparams.aspects = DecColorAspectsSetter(dparams.defaultAspects,
                                Bounded(ToCodec2(dec.mBitstreamColorAspects)))
    BY <1>3, <1>6 DEF AspectsInv, FrameInCache, AspectsComputed, CacheCurrent
  <2>2. ShownFollows'
    BY <1>2, <1>6, <2>1 DEF ShownFollows
  <2>3. AspectsComputed(dparams') /\ CacheCurrent(dparams', dec') /\ FrameInCache'
    BY <1>3, <1>6 DEF AspectsInv, FrameInCache
  <2>4. QED
    BY <1>4, <1>5, <2>2, <2>3 DEF AspectsInv
<1>7. CASE ~HasAspects(dec.mCodingType)
  BY <1>3, <1>4, <1>5, <1>7 DEF AspectsInv
<1>8. QED
  BY <1>6, <1>7

\* The client may set any of its parameters at any place of process().
LEMMA DecConfigureKeeps ==
    ASSUME AspectsInv, NEW k \in DOMAIN DecOffers, NEW v \in DecOffers[k], DecConfigure(k, v)
    PROVE  AspectsInv'
<1>1. k \notin {"codedAspects", "aspects"}
  BY DecConfigAssumption
<1>2. UNCHANGED <<dec, dpc, stream, shown>>
  BY DEF DecConfigure
<1>3. /\ AspectParams \subseteq DOMAIN dparams'
      /\ dparams'.codedAspects = dparams.codedAspects
      /\ HasAspects(dec.mCodingType) => AspectsComputed(dparams')
  BY <1>1, OtherParameter DEF DecConfigure, AspectsInv, AspectsPlaces
<1>4. AspectsPlaces'
  BY <1>2, <1>3 DEF AspectsInv, AspectsPlaces
<1>5. QED
  BY <1>2, <1>3, <1>4, AspectsKept

\* The looper's other messages leave the aspects alone: a restarted session
\* goes on with the cache and the interface of the one before.
LEMMA MessagesKeep ==
    ASSUME AspectsInv, DecFlush \/ DecStop \/ DecRelease
    PROVE  AspectsInv'
<1> DEFINE Same(x) == /\ DOMAIN x = DOMAIN dec /\ x.mCodingType = dec.mCodingType
                      /\ x.mBitstreamColorAspects = dec.mBitstreamColorAspects
           m == Flushed(dec)
<1>1. UNCHANGED <<dparams, stream, shown, dpc>>
  BY DEF DecFlush, DecStop, DecRelease
<1>2. Same(m)
  BY DEF Flushed
<1>3. \/ dec' = m
      \/ dec' = [m EXCEPT !.mOutputBlockPool = NoPool]
      \/ dec' = [m EXCEPT !.mStarted = FALSE, !.mOutputBlockPool = NoPool]
  BY DEF DecFlush, DecStop, DecRelease
<1>4. Same(dec')
  <2>0. {"mCodingType", "mBitstreamColorAspects"} \subseteq DOMAIN m
    BY <1>2 DEF AspectsInv, AspectsPlaces
  <2> HIDE DEF m
  <2>1. CASE dec' = m
    BY <1>2, <2>1
  <2>2. CASE dec' = [m EXCEPT !.mOutputBlockPool = NoPool]
    BY <1>2, <2>0, <2>2
  <2>3. CASE dec' = [m EXCEPT !.mStarted = FALSE, !.mOutputBlockPool = NoPool]
    BY <1>2, <2>0, <2>3
  <2>4. QED
    BY <1>3, <2>1, <2>2, <2>3
<1>5. QED
  BY <1>1, <1>4, MembersKept

\* Every step of the decoder keeps the invariant.
LEMMA AspectsStep ==
    ASSUME AspectsInv, DecNext \/ UNCHANGED decVars
    PROVE  AspectsInv'
<1>1. CASE \E k \in DOMAIN DecOffers : \E v \in DecOffers[k] : DecConfigure(k, v)
  BY <1>1, DecConfigureKeeps
<1>2. CASE StreamChanges
  <2>1. stream' \in Streams /\ UNCHANGED <<dparams, dec, dpc, shown>>
    BY <1>2 DEF StreamChanges
  <2>2. AspectsPlaces'
    BY <2>1 DEF AspectsInv, AspectsPlaces
  <2>3. QED
    BY <2>1, <2>2, AspectsKept DEF AspectsInv
<1>3. CASE NoFrame
  <2>1. UNCHANGED <<dparams, dec, stream, shown>> /\ dpc' # "finish" /\ dpc # "finish"
    BY <1>3 DEF NoFrame
  <2>2. QED
    BY <2>1, MembersKept
<1>4. CASE UNCHANGED decVars
  BY <1>4, MembersKept DEF decVars
<1>5. QED
  BY <1>1, <1>2, <1>3, <1>4, BeginKeeps, EnsureKeeps, InfoChangeKeeps, GetFrameKeeps,
     FinishWorkKeeps, MessagesKeep DEF DecNext

\* The invariant is strong enough.
LEMMA AspectsEnough == ASSUME AspectsInv PROVE AspectsFollow
<1>1. CASE dpc = "outframe" /\ shown # NotShown /\ HasAspects(dec.mCodingType)
  <2>1. shown.with = DecColorAspectsSetter(shown.default, Bounded(ToCodec2(shown.frame)))
    BY <1>1 DEF AspectsInv, ShownFollows
  <2>2. Bounded(ToCodec2(shown.frame)) = ToCodec2(shown.frame)
    BY <1>1, BoundedFrame DEF AspectsInv, FrameBounded
  <2>3. QED
    BY <2>1, <2>2 DEF AspectsFollow
<1>2. QED
  BY <1>1 DEF AspectsFollow

-----------------------------------------------------------------------------
(***************************************************************************)
(* The decoder: the invariant behind BlockFits.                            *)
(***************************************************************************)

Alignments == {16, 64, 128, 256}

\* HorStride, of a chip with this alignment.
RowOf(codec, align, width, bits) ==
    LET bytes == IF bits = 10 THEN (width * 10) \div 8 ELSE width
    IN  IF codec = "VP9" \/ align = 256 THEN C2_ALIGN_ODD(bytes, 256)
        ELSE C2_ALIGN(bytes, align)

PixelBits(m) == IF m.mColorFormat.pixels = Pixels(10) THEN 10 ELSE 8

\* The stride of the members is the one MPP has for their size.
RowKnown(m, align) ==
    m.mHorStride = RowOf(m.mCodingType, align, m.mWidth, PixelBits(m))

\* Members the geometry can be computed from.
Measured(m) ==
    /\ m.mWidth \in Int /\ m.mGrallocVersion \in {0, 4}
    /\ m.mColorFormat.pixels \in {Pixels(8), Pixels(10)}
    /\ m.mCodingType = "VP9" => m.mColorFormat.pixels = Pixels(8)

\* What is aligned is no shorter, and stays as it is when it is aligned again.
LEMMA Aligned ==
    ASSUME NEW x \in Int, NEW a \in Alignments
    PROVE  /\ C2_ALIGN(x, a) \in Int /\ C2_ALIGN(x, a) >= x
           /\ C2_ALIGN(C2_ALIGN(x, a), a) = C2_ALIGN(x, a)
           /\ C2_ALIGN_ODD(x, a) \in Int
           /\ C2_ALIGN_ODD(C2_ALIGN_ODD(x, a), a) = C2_ALIGN_ODD(x, a)
<1>1. CASE a = 16
  BY <1>1 DEF C2_ALIGN, C2_ALIGN_ODD
<1>2. CASE a = 64
  BY <1>2 DEF C2_ALIGN, C2_ALIGN_ODD
<1>3. CASE a = 128
  BY <1>3 DEF C2_ALIGN, C2_ALIGN_ODD
<1>4. CASE a = 256
  BY <1>4 DEF C2_ALIGN, C2_ALIGN_ODD
<1>5. QED
  BY <1>1, <1>2, <1>3, <1>4 DEF Alignments

\* A row is a number, and it is MPP's row for a picture of that width.
LEMMA RowAgain ==
    ASSUME NEW codec, NEW a \in Alignments, NEW width \in Int, NEW bits
    PROVE  LET row == RowOf(codec, a, width, bits)
           IN  row \in Int /\ RowOf(codec, a, row, 8) = row
<1> DEFINE bytes == IF bits = 10 THEN (width * 10) \div 8 ELSE width
<1>1. bytes \in Int
  OBVIOUS
<1>2. 256 \in Alignments
  BY DEF Alignments
<1> HIDE DEF bytes
<1>3. RowOf(codec, a, width, bits) =
        IF codec = "VP9" \/ a = 256 THEN C2_ALIGN_ODD(bytes, 256) ELSE C2_ALIGN(bytes, a)
  BY DEF RowOf, bytes
<1>4. \A row : RowOf(codec, a, row, 8) =
        IF codec = "VP9" \/ a = 256 THEN C2_ALIGN_ODD(row, 256) ELSE C2_ALIGN(row, a)
  BY DEF RowOf
<1>5. QED
  BY <1>1, <1>2, <1>3, <1>4, Aligned

\* The usage that is asked for makes gralloc choose MPP's stride.
LEMMA UsageOfStride ==
    ASSUME NEW a \in Alignments, NEW width \in Int, NEW stride, NEW codec,
           stride = RowOf(codec, a, width, 8),
           NEW b, b.width = width, b.usage = getStrideUsage(width, stride)
    PROVE  StrideOfBlock(b) = stride
<1>1. stride \in {C2_ALIGN_ODD(width, 256), C2_ALIGN(width, 16),
                  C2_ALIGN(width, 64), C2_ALIGN(width, 128)}
  BY DEF RowOf, Alignments
<1>2. CASE stride = C2_ALIGN_ODD(width, 256)
  BY <1>2 DEF StrideOfBlock, getStrideUsage
<1>3. CASE stride # C2_ALIGN_ODD(width, 256) /\ stride = C2_ALIGN(width, 128)
  BY <1>3 DEF StrideOfBlock, getStrideUsage
<1>4. CASE /\ stride \notin {C2_ALIGN_ODD(width, 256), C2_ALIGN(width, 128)}
           /\ stride = C2_ALIGN(width, 64)
  BY <1>4 DEF StrideOfBlock, getStrideUsage
<1>5. CASE /\ stride \notin {C2_ALIGN_ODD(width, 256), C2_ALIGN(width, 128)}
           /\ stride # C2_ALIGN(width, 64)
  <2>1. stride = C2_ALIGN(width, 16)
    BY <1>1, <1>5
  <2>2. getStrideUsage(width, stride) = "ALIGN_16"
    BY <1>5 DEF getStrideUsage
  <2>3. QED
    BY <2>1, <2>2 DEF StrideOfBlock
<1>6. QED
  BY <1>2, <1>3, <1>4, <1>5

\* The blocks asked for have the rows MPP writes.
LEMMA GeometryFits ==
    ASSUME NEW m, NEW a \in Alignments, Measured(m), RowKnown(m, a)
    PROVE  LET g == Geometry(m)
           IN  IF m.fbcMode # 0
               THEN /\ g.usage = "SPECIFY_STRIDE"
                    /\ IF PixelBits(m) = 10 THEN g.width >= m.mWidth
                       ELSE g.width = m.mHorStride
               ELSE /\ StrideOfBlock(g) = m.mHorStride
                    /\ m.mHorStride = RowOf(m.mCodingType, a, g.width, 8)
<1> DEFINE g == Geometry(m)
           format == colorFormatMpiToAndroid(m.mColorFormat.pixels, m.fbcMode # 0)
<1>1. /\ g.width = BlockWidth(m, format)
      /\ g.usage = IF ByUsage(m) THEN getStrideUsage(m.mWidth, m.mHorStride)
                   ELSE "SPECIFY_STRIDE"
  BY DEF Geometry
<1>2. CASE m.fbcMode # 0
  <2>1. format = IF PixelBits(m) = 10 THEN "YUV420_10BIT_I" ELSE "YUV420_8BIT_I"
    BY <1>2 DEF Measured, PixelBits, Pixels, colorFormatMpiToAndroid
  <2>2. ~ByUsage(m)
    BY <2>1 DEF ByUsage
  <2>3. CASE PixelBits(m) = 10
    <3>1. g.width = C2_ALIGN(m.mWidth, 64)
      BY <1>1, <1>2, <2>1, <2>3 DEF BlockWidth
    <3>2. C2_ALIGN(m.mWidth, 64) >= m.mWidth
      BY Aligned DEF Measured, Alignments
    <3>3. QED
      BY <1>1, <1>2, <2>2, <2>3, <3>1, <3>2
  <2>4. CASE PixelBits(m) # 10
    <3>1. g.width = m.mHorStride
      BY <1>1, <1>2, <2>1, <2>2, <2>4 DEF BlockWidth
    <3>2. QED
      BY <1>1, <1>2, <2>2, <2>4, <3>1
  <2>5. QED
    BY <2>3, <2>4
<1>3. CASE m.fbcMode = 0
  <2>1. /\ m.mHorStride = RowOf(m.mCodingType, a, m.mWidth, PixelBits(m))
        /\ RowOf(m.mCodingType, a, m.mHorStride, 8) = m.mHorStride
    BY RowAgain DEF RowKnown, Measured
  <2>2. format = IF PixelBits(m) = 10 THEN "NV12_10" ELSE "NV12"
    BY <1>3 DEF Measured, PixelBits, Pixels, colorFormatMpiToAndroid
  <2>3. m.mCodingType = "VP9" => PixelBits(m) = 8
    BY DEF Measured, PixelBits, Pixels
  <2>4. CASE ByUsage(m)
    <3>1. g.width = m.mWidth /\ PixelBits(m) = 8
      BY <1>1, <1>3, <2>2, <2>4 DEF BlockWidth, ByUsage, PixelBits
    <3>2. StrideOfBlock(g) = m.mHorStride
      <4>1. g.usage = getStrideUsage(m.mWidth, m.mHorStride)
        BY <1>1, <2>4
      <4> HIDE DEF g
      <4>2. QED
        BY <2>1, <3>1, <4>1, UsageOfStride DEF Measured
    <3>3. QED
      BY <1>3, <2>1, <3>1, <3>2
  <2>5. CASE ~ByUsage(m)
    <3>1. g.width = m.mHorStride
      <4>1. CASE m.mCodingType = "VP9" /\ m.mGrallocVersion < 4
        <5>1. m.mHorStride = C2_ALIGN_ODD(m.mWidth, 256)
          BY <2>1, <2>3, <4>1 DEF RowOf
        <5>2. QED
          BY <1>1, <1>3, <4>1, <5>1 DEF BlockWidth
      <4>2. CASE ~(m.mCodingType = "VP9" /\ m.mGrallocVersion < 4)
        BY <1>1, <1>3, <2>5, <4>2 DEF BlockWidth
      <4>3. QED
        BY <4>1, <4>2
    <3>2. g.usage = "SPECIFY_STRIDE"
      BY <1>1, <2>5
    <3>3. StrideOfBlock(g) = g.width
      <4> HIDE DEF g
      <4>1. QED
        BY <3>2 DEF StrideOfBlock
    <3>4. QED
      BY <1>3, <2>1, <3>1, <3>3
  <2>6. QED
    BY <2>4, <2>5
<1>4. QED
  BY <1>2, <1>3

DecMember ==
    {"mCodingType", "mGrallocVersion", "mStarted", "mSignalledError", "mBufferMode",
     "mLowLatencyMode", "mTransfer", "mWidth", "mHeight", "mHorStride", "mVerStride",
     "mColorFormat", "fbcMode", "paddingX", "paddingY", "mBitstreamColorAspects",
     "mOutputBlockPool"}

\* The members, MPP's controls and the sizes, and what their values are.
FitPlaces ==
    /\ DecMember \subseteq DOMAIN dec /\ Measured(dec)
    /\ {"deinterlace", "split", "fastParser", "fastPlay", "immediate", "fbc", "external",
        "info", "align", "givesStrides", "fbcOf"} \subseteq DOMAIN dmpp
    /\ dmpp.align \in Strides /\ dmpp.fbcOf.offset[2] \in Int
    /\ "size" \in DOMAIN dparams
    /\ dparams.size.width \in Int /\ dparams.size.height \in Int
    /\ stream \in Streams /\ (dec.mCodingType = "VP9" => stream.bits = 8)

\* The members are what MPP was told or has reported.
Adopts(m, mpp) ==
    /\ mpp.info.width = m.mWidth /\ mpp.info.hor = m.mHorStride
    /\ mpp.info.ver = m.mVerStride
    /\ mpp.info.format.pixels = m.mColorFormat.pixels
    /\ mpp.fbc <=> m.fbcMode # 0
    /\ mpp.fbc => m.paddingY = mpp.fbcOf.offset[2]
    /\ mpp.givesStrides => RowKnown(m, mpp.align)
InfoAdopted == dec.mStarted => Adopts(dec, dmpp)

\* The table is of the surface, and of one geometry.
BlocksInv ==
    /\ blocks \subseteq {Geometry(dec)}
    /\ blocks # {} => dec.mStarted /\ ~dec.mBufferMode /\ dec.mOutputBlockPool = BUFFERQUEUE
    /\ dpc # "idle" =>
          dec.mStarted /\ (dec.mBufferMode <=> dec.mOutputBlockPool # BUFFERQUEUE)

\* The block of buffer mode has MPP's rows for its own width, which may be that
\* of a picture before.
Held(b, m, mpp) ==
    mpp.givesStrides =>
        IF mpp.fbc THEN b.usage = "SPECIFY_STRIDE"
        ELSE StrideOfBlock(b) = RowOf(m.mCodingType, mpp.align, b.width, 8)
SizeOf(b) == <<b.width, b.height>>
HeldInv ==
    /\ mOutBlock # NoBlock => dec.mStarted /\ Held(mOutBlock, dec, dmpp)
    /\ dpc = "outframe" /\ dec.mBufferMode /\ mOutBlock # NoBlock =>
          SizeOf(mOutBlock) = SizeOf(Geometry(dec))

FitInv == FitPlaces /\ InfoAdopted /\ BlocksInv /\ HeldInv

\* The members the geometry is computed from.
SameGeometry(m, n) ==
    /\ m.mColorFormat = n.mColorFormat /\ m.fbcMode = n.fbcMode
    /\ m.mCodingType = n.mCodingType /\ m.mGrallocVersion = n.mGrallocVersion
    /\ m.mWidth = n.mWidth /\ m.mHorStride = n.mHorStride
    /\ m.mVerStride = n.mVerStride /\ m.paddingY = n.paddingY

\* The others do not matter.
LEMMA GeometryOf ==
    ASSUME NEW m, NEW n, SameGeometry(m, n)
    PROVE  /\ Geometry(m) = Geometry(n)
           /\ \A mpp : Adopts(m, mpp) => Adopts(n, mpp)
           /\ \A b, mpp : Held(b, m, mpp) => Held(b, n, mpp)
           /\ Measured(m) => Measured(n)
<1>1. Geometry(m) = Geometry(n)
  BY DEF SameGeometry, Geometry, ByUsage, BlockWidth, BlockHeight
<1>2. \A mpp : Adopts(m, mpp) => Adopts(n, mpp)
  BY DEF SameGeometry, Adopts, RowKnown, PixelBits
<1>3. QED
  BY <1>1, <1>2 DEF SameGeometry, Held, Measured

\* HorStride is RowOf this chip.
LEMMA RowIs ==
    ASSUME NEW codec, NEW width, NEW bits
    PROVE  HorStride(codec, width, bits) = RowOf(codec, dmpp.align, width, bits)
  BY DEF HorStride, RowOf

\* A block that was asked for with the adopted members may be held.
LEMMA GeometryHeld ==
    ASSUME NEW m, NEW mpp, mpp.align \in Alignments, Measured(m), Adopts(m, mpp)
    PROVE  Held(Geometry(m), m, mpp)
<1>1. CASE mpp.givesStrides
  <2>1. RowKnown(m, mpp.align)
    BY <1>1 DEF Adopts
  <2> DEFINE g == Geometry(m)
  <2>2. IF m.fbcMode # 0 THEN g.usage = "SPECIFY_STRIDE"
        ELSE StrideOfBlock(g) = RowOf(m.mCodingType, mpp.align, g.width, 8)
    BY <2>1, GeometryFits
  <2> HIDE DEF g
  <2>3. QED
    BY <2>2 DEF Held, Adopts, g
<1>2. QED
  BY <1>1 DEF Held

\* What becomes of the table and of the block that is held.
LEMMA EnsureIs ==
    ASSUME NEW m, NEW held, NEW table, NEW ok, Ensure(m, held, table, ok),
           table \subseteq {Geometry(m)}
    PROVE  /\ blocks' \subseteq {Geometry(m)}
           /\ m.mBufferMode => blocks' = table
           /\ mOutBlock' \in {held, Geometry(m), NoBlock}
           /\ m.mBufferMode /\ mOutBlock' # NoBlock =>
                 SizeOf(mOutBlock') = SizeOf(Geometry(m))
<1> DEFINE g == Geometry(m)
<1> HIDE DEF g
<1>1. table \subseteq {g}
  BY DEF g
<1>2. /\ mOutBlock' = IF \/ held # NoBlock /\ held.width = g.width /\ held.height = g.height
                         \/ ~m.mBufferMode
                      THEN held ELSE IF ok THEN g ELSE NoBlock
      /\ blocks' \in IF m.mBufferMode THEN {table}
                    ELSE IF ok /\ table = {} THEN {{g}} ELSE {table, table \cup {g}}
  BY DEF Ensure, g
<1>3. blocks' \subseteq {g} /\ (m.mBufferMode => blocks' = table)
  BY <1>1, <1>2
<1>4. /\ mOutBlock' \in {held, g, NoBlock}
      /\ m.mBufferMode /\ mOutBlock' # NoBlock => SizeOf(mOutBlock') = SizeOf(g)
  BY <1>2 DEF SizeOf
<1>5. QED
  BY <1>3, <1>4 DEF g

\* A size stays a size.
LEMMA SizeKept ==
    ASSUME NEW codec, NEW p, NEW k, NEW v, "size" \in DOMAIN p,
           p.size.width \in Int, p.size.height \in Int
    PROVE  LET q == DecConfigured(codec, p, k, v)
           IN  "size" \in DOMAIN q /\ q.size.width \in Int /\ q.size.height \in Int
<1> DEFINE r == [p EXCEPT ![k] = DecSetterOf(k, v, p)]
           q == DecDependents(codec, r, k)
           s == DecSizeSetter(p.size, v)
<1>1. s.width \in Int /\ s.height \in Int
  <2>1. \A x : Supported(x) => x \in Int
    <3>1. SUFFICES ASSUME NEW x, x \in 2 .. kMaxVideoWidth PROVE x \in Int
      BY DEF Supported
    <3>2. QED
      BY <3>1 DEF kMaxVideoWidth
  <2>2. QED
    BY <2>1 DEF DecSizeSetter
<1>2. DOMAIN r = DOMAIN p /\ r.size = IF k = "size" THEN s ELSE p.size
  BY DEF DecSetterOf
<1>3. DOMAIN q = DOMAIN r /\ q.size = r.size
  BY <1>2 DEF DecDependents
<1>4. DecConfigured(codec, p, k, v) = IF DecHas(codec, k) THEN q ELSE p
  BY DEF DecConfigured
<1>5. QED
  BY <1>1, <1>2, <1>3, <1>4

\* The rows of padding are a number for every chip.
LEMMA PaddingOfChip ==
    ASSUME NEW device, NEW codec
    PROVE  getFbcOutputOffset(device, codec)[2] \in Int
<1> DEFINE caps == CapsOf(device, codec)
           c == CHOOSE c \in caps : TRUE
<1>1. \A n : \A d \in Range(FbcCaps(n)) : d.offsetY \in Int
  BY DEF FbcCaps, Range
<1>2. \A d \in caps : d.offsetY \in Int
  BY <1>1 DEF CapsOf
<1>3. CASE caps = {}
  BY <1>3 DEF getFbcOutputOffset, getFbcOutputMode
<1>4. CASE caps # {}
  <2>1. c.offsetY \in Int
    BY <1>2, <1>4
  <2>2. QED
    BY <2>1 DEF getFbcOutputOffset
<1>5. QED
  BY <1>3, <1>4

\* A new decoder has no blocks.
LEMMA FitInit ==
    ASSUME NEW codec, NEW device, NEW pool, DecInit(codec, device, pool)
    PROVE  FitInv
<1>1. /\ dec = DecMembers(codec, device) /\ dparams = DecDefaults(codec, pool)
      /\ stream \in {s \in Streams : codec = "VP9" => s.bits = 8}
      /\ blocks = {} /\ mOutBlock = NoBlock /\ dpc = "idle"
  BY DEF DecInit
<1>2. /\ DecMember \subseteq DOMAIN dec /\ Measured(dec)
      /\ ~dec.mStarted /\ dec.mCodingType = codec
  BY <1>1 DEF DecMembers, DecMember, Measured, Format
<1>3. /\ "size" \in DOMAIN dparams
      /\ dparams.size.width \in Int /\ dparams.size.height \in Int
  BY <1>1 DEF DecDefaults
<1>4. PICK align \in Strides, gives \in BOOLEAN :
          dmpp = NewMpp([align |-> align, givesStrides |-> gives,
                         fbcOf |-> [mode |-> getFbcOutputMode(device, codec),
                                    offset |-> getFbcOutputOffset(device, codec)]])
  BY DEF DecInit
<1>5. /\ {"deinterlace", "split", "fastParser", "fastPlay", "immediate", "fbc", "external",
          "info", "align", "givesStrides", "fbcOf"} \subseteq DOMAIN dmpp
      /\ dmpp.align = align /\ dmpp.fbcOf.offset = getFbcOutputOffset(device, codec)
  BY <1>4 DEF NewMpp
<1>6. dmpp.fbcOf.offset[2] \in Int
  BY <1>5, PaddingOfChip
<1>7. FitPlaces
  BY <1>1, <1>2, <1>3, <1>5, <1>6 DEF FitPlaces
<1>8. QED
  BY <1>1, <1>2, <1>7 DEF FitInv, InfoAdopted, BlocksInv, HeldInv

\* A step that leaves MPP, the geometry and the mode alone, and at most takes
\* blocks away.
LEMMA FitKept ==
    ASSUME FitInv, FitPlaces', dmpp' = dmpp, SameGeometry(dec, dec'),
           dec'.mStarted = dec.mStarted, dec'.mBufferMode = dec.mBufferMode,
           blocks' \subseteq blocks, mOutBlock' = mOutBlock,
           dpc' = "outframe" => dpc = "outframe", dpc' # "idle" => dpc # "idle",
           dpc' # "idle" \/ blocks' # {} => dec'.mOutputBlockPool = dec.mOutputBlockPool
    PROVE  FitInv'
<1>1. /\ Geometry(dec') = Geometry(dec)
      /\ Adopts(dec, dmpp) => Adopts(dec', dmpp)
      /\ Held(mOutBlock, dec, dmpp) => Held(mOutBlock, dec', dmpp)
  BY GeometryOf
<1>2. InfoAdopted'
  <2>1. InfoAdopted' <=> (dec'.mStarted => Adopts(dec', dmpp))
    BY DEF InfoAdopted, Adopts, RowKnown, PixelBits
  <2>2. QED
    BY <1>1, <2>1 DEF FitInv, InfoAdopted
<1>3. BlocksInv'
  <2>1. Geometry(dec)' = Geometry(dec')
    BY DEF Geometry, ByUsage, BlockWidth, BlockHeight
  <2>2. QED
    BY <1>1, <2>1 DEF FitInv, BlocksInv
<1>4. HeldInv'
  <2>1. /\ Geometry(dec)' = Geometry(dec')
        /\ Held(mOutBlock, dec, dmpp)' <=> Held(mOutBlock', dec', dmpp')
    BY DEF Geometry, ByUsage, BlockWidth, BlockHeight, Held
  <2>2. QED
    BY <1>1, <2>1 DEF FitInv, HeldInv, SizeOf
<1>5. QED
  BY <1>2, <1>3, <1>4 DEF FitInv

\* The places of a step that leaves MPP and the geometry alone.
LEMMA FitPlacesKept ==
    ASSUME FitPlaces, DOMAIN dec' = DOMAIN dec, SameGeometry(dec, dec'),
           dmpp' = dmpp, UNCHANGED stream,
           \/ dparams' = dparams
           \/ \E k, v : dparams' = DecConfigured(dec.mCodingType, dparams, k, v)
    PROVE  FitPlaces'
<1>1. Measured(dec')
  BY GeometryOf DEF FitPlaces
<1>2. /\ "size" \in DOMAIN dparams'
      /\ dparams'.size.width \in Int /\ dparams'.size.height \in Int
  BY SizeKept DEF FitPlaces
<1>3. Measured(dec)' <=> Measured(dec')
  BY DEF Measured
<1>4. QED
  BY <1>1, <1>2, <1>3 DEF FitPlaces, SameGeometry

\* The client's parameters are read by the next setup only.
LEMMA FitConfigure ==
    ASSUME FitInv, NEW k, NEW v, DecConfigure(k, v) PROVE FitInv'
<1>1. /\ UNCHANGED <<dec, dmpp, stream, blocks, mOutBlock, dpc>>
      /\ dparams' = DecConfigured(dec.mCodingType, dparams, k, v)
  BY DEF DecConfigure
<1>2. SameGeometry(dec, dec')
  BY <1>1 DEF SameGeometry
<1>3. FitPlaces'
  BY <1>1, <1>2, FitPlacesKept DEF FitInv
<1>4. QED
  BY <1>1, <1>2, <1>3, FitKept

\* What is decoded changes, and the info does not.
LEMMA FitStream == ASSUME FitInv, StreamChanges PROVE FitInv'
<1>1. /\ UNCHANGED <<dparams, dec, dmpp, blocks, mOutBlock, dpc>>
      /\ stream' \in Streams /\ (dec.mCodingType = "VP9" => stream'.bits = 8)
  BY DEF StreamChanges
<1>2. SameGeometry(dec, dec')
  BY <1>1 DEF SameGeometry
<1>3. FitPlaces'
  <2>1. Measured(dec)' <=> Measured(dec)
    BY <1>1 DEF Measured
  <2>2. QED
    BY <1>1, <2>1 DEF FitInv, FitPlaces
<1>4. QED
  BY <1>1, <1>2, <1>3, FitKept

\* A frame changes the cache of its aspects.
LEMMA FitFrame == ASSUME FitInv, NoFrame \/ GetFrame PROVE FitInv'
<1>1. /\ UNCHANGED <<dmpp, stream, blocks, mOutBlock>>
      /\ dpc = "outframe" /\ dpc' \in {"idle", "crashed", "finish"}
  BY DEF NoFrame, GetFrame
<1>2. \/ dec' = dec
      \/ dec' = [dec EXCEPT !.mSignalledError = TRUE]
      \/ \E a : dec' = [dec EXCEPT !.mBitstreamColorAspects = a]
  BY DEF NoFrame, GetFrame, getVuiParams
<1>3. /\ DOMAIN dec' = DOMAIN dec
      /\ dec'.mColorFormat = dec.mColorFormat /\ dec'.fbcMode = dec.fbcMode
      /\ dec'.mCodingType = dec.mCodingType /\ dec'.mGrallocVersion = dec.mGrallocVersion
      /\ dec'.mWidth = dec.mWidth /\ dec'.mHorStride = dec.mHorStride
      /\ dec'.mVerStride = dec.mVerStride /\ dec'.paddingY = dec.paddingY
      /\ dec'.mStarted = dec.mStarted /\ dec'.mBufferMode = dec.mBufferMode
      /\ dec'.mOutputBlockPool = dec.mOutputBlockPool
  BY <1>2 DEF FitInv, FitPlaces, DecMember
<1>4. SameGeometry(dec, dec')
  BY <1>3 DEF SameGeometry
<1>5. \/ dparams' = dparams
      \/ \E k, v : dparams' = DecConfigured(dec.mCodingType, dparams, k, v)
  BY DEF NoFrame, GetFrame, getVuiParams
<1>6. FitPlaces'
  BY <1>1, <1>3, <1>4, <1>5, FitPlacesKept DEF FitInv
<1>7. QED
  BY <1>1, <1>3, <1>4, <1>6, FitKept

\* Flush and stop clear the table; stop lets go of the pool.
LEMMA FitFlush == ASSUME FitInv, DecFlush \/ DecStop PROVE FitInv'
<1>1. /\ UNCHANGED <<dparams, dmpp, stream, mOutBlock, dpc>>
      /\ dpc = "idle" /\ blocks' = {}
      /\ \/ dec' = Flushed(dec)
         \/ dec' = [Flushed(dec) EXCEPT !.mOutputBlockPool = NoPool]
  BY DEF DecFlush, DecStop
<1>2. /\ DOMAIN dec' = DOMAIN dec
      /\ dec'.mColorFormat = dec.mColorFormat /\ dec'.fbcMode = dec.fbcMode
      /\ dec'.mCodingType = dec.mCodingType /\ dec'.mGrallocVersion = dec.mGrallocVersion
      /\ dec'.mWidth = dec.mWidth /\ dec'.mHorStride = dec.mHorStride
      /\ dec'.mVerStride = dec.mVerStride /\ dec'.paddingY = dec.paddingY
      /\ dec'.mStarted = dec.mStarted /\ dec'.mBufferMode = dec.mBufferMode
  BY <1>1 DEF Flushed, FitInv, FitPlaces, DecMember
<1>3. SameGeometry(dec, dec')
  BY <1>2 DEF SameGeometry
<1>4. FitPlaces'
  BY <1>1, <1>2, <1>3, FitPlacesKept DEF FitInv
<1>5. QED
  BY <1>1, <1>2, <1>3, <1>4, FitKept

\* Release leaves no block and a new context.
LEMMA FitRelease == ASSUME FitInv, DecRelease PROVE FitInv'
<1>1. /\ UNCHANGED <<dparams, stream, dpc>> /\ dpc = "idle"
      /\ dmpp' = NewMpp(dmpp) /\ blocks' = {} /\ mOutBlock' = NoBlock
      /\ dec' = [Flushed(dec) EXCEPT !.mStarted = FALSE, !.mOutputBlockPool = NoPool]
  BY DEF DecRelease
<1>2. /\ DOMAIN dec' = DOMAIN dec /\ ~dec'.mStarted
      /\ dec'.mColorFormat = dec.mColorFormat
      /\ dec'.mCodingType = dec.mCodingType /\ dec'.mGrallocVersion = dec.mGrallocVersion
      /\ dec'.mWidth = dec.mWidth
  BY <1>1 DEF Flushed, FitInv, FitPlaces, DecMember
<1>3. Measured(dec')
  BY <1>2 DEF FitInv, FitPlaces, Measured
<1>4. FitPlaces'
  <2>1. Measured(dec)' <=> Measured(dec')
    BY DEF Measured
  <2>2. QED
    BY <1>1, <1>2, <1>3, <2>1 DEF FitInv, FitPlaces, NewMpp
<1>5. QED
  BY <1>1, <1>2, <1>4 DEF FitInv, InfoAdopted, BlocksInv, HeldInv

\* What the setup makes of the members.
LEMMA SetUpMembers ==
    ASSUME NEW m, DecMember \subseteq DOMAIN m
    PROVE  LET set == FbcSet(Adopted(m))
           IN  /\ DOMAIN set = DOMAIN m
               /\ set.mColorFormat = m.mColorFormat /\ set.mCodingType = m.mCodingType
               /\ set.mGrallocVersion = m.mGrallocVersion /\ set.mStarted = m.mStarted
               /\ set.mBufferMode = m.mBufferMode
               /\ set.mOutputBlockPool = m.mOutputBlockPool
               /\ set.mWidth = dparams.size.width
               /\ set.fbcMode # 0 => set.paddingY = dmpp.fbcOf.offset[2]
<1> DEFINE x == Adopted(m)
           set == FbcSet(x)
<1>1. /\ DOMAIN x = DOMAIN m
      /\ x.mColorFormat = m.mColorFormat /\ x.mCodingType = m.mCodingType
      /\ x.mGrallocVersion = m.mGrallocVersion /\ x.mStarted = m.mStarted
      /\ x.mBufferMode = m.mBufferMode /\ x.mOutputBlockPool = m.mOutputBlockPool
      /\ x.mWidth = dparams.size.width
  BY DEF Adopted, DecMember
<1> HIDE DEF x
<1>2. PICK mode :
         set = [x EXCEPT !.fbcMode = mode,
                         !.paddingX = IF mode # 0 THEN dmpp.fbcOf.offset[1] ELSE @,
                         !.paddingY = IF mode # 0 THEN dmpp.fbcOf.offset[2] ELSE @]
  BY DEF FbcSet
<1> HIDE DEF set
<1>3. /\ DOMAIN set = DOMAIN x
      /\ set.mColorFormat = x.mColorFormat /\ set.mCodingType = x.mCodingType
      /\ set.mGrallocVersion = x.mGrallocVersion /\ set.mStarted = x.mStarted
      /\ set.mBufferMode = x.mBufferMode /\ set.mOutputBlockPool = x.mOutputBlockPool
      /\ set.mWidth = x.mWidth
      /\ set.fbcMode # 0 => set.paddingY = dmpp.fbcOf.offset[2]
  BY <1>1, <1>2 DEF DecMember
<1>4. QED
  BY <1>1, <1>3 DEF x, set

\* What MPP is told is what the members say.
LEMMA InfoTold ==
    ASSUME NEW m, Measured(m)
    PROVE  LET info == FrameInfo(m)
           IN  /\ info.width = m.mWidth
               /\ info.format.pixels = m.mColorFormat.pixels
               /\ dmpp.givesStrides =>
                     info.hor = RowOf(m.mCodingType, dmpp.align, m.mWidth, PixelBits(m))
<1> DEFINE bits == PixelBits(m)
<1> DEFINE format == [m.mColorFormat EXCEPT !.fbc = @ \/ m.fbcMode # 0]
           size == [width |-> m.mWidth, height |-> m.mHeight, bits |-> bits]
           given == InfoOf(m.mCodingType, size, format.fbc)
<1>1. FrameInfo(m) = IF dmpp.givesStrides THEN given
                     ELSE [given EXCEPT !.hor = m.mWidth, !.ver = m.mHeight]
  BY DEF FrameInfo, PixelBits
<1>2. Pixels(bits) = m.mColorFormat.pixels
  BY DEF PixelBits, Measured, Pixels
<1>3. /\ given.width = m.mWidth /\ given.format.pixels = Pixels(bits)
      /\ given.hor = RowOf(m.mCodingType, dmpp.align, m.mWidth, bits)
      /\ DOMAIN given = {"width", "height", "hor", "ver", "format"}
  BY RowIs DEF InfoOf, Format
<1> HIDE DEF given, bits
<1>4. QED
  BY <1>1, <1>2, <1>3 DEF bits

\* Members of a decoder that was not started have no blocks to fit.
LEMMA FitUnstarted ==
    ASSUME FitInv, FitPlaces', ~dec.mStarted, ~dec'.mStarted, dpc' = "idle",
           UNCHANGED <<blocks, mOutBlock>>
    PROVE  FitInv'
  BY DEF FitInv, InfoAdopted, BlocksInv, HeldInv

\* The first setup adopts what it tells MPP.
LEMMA FitSetUp ==
    ASSUME FitInv, DecBegin, ~dec.mStarted
    PROVE  FitInv'
<1> DEFINE pool == IF dec.mOutputBlockPool = NoPool THEN dparams.outputPool
                   ELSE dec.mOutputBlockPool
           m == [dec EXCEPT !.mOutputBlockPool = pool, !.mBufferMode = (pool # BUFFERQUEUE)]
           set == FbcSet(Adopted(m))
           info == FrameInfo(set)
           ready == [set EXCEPT !.mHorStride = info.hor, !.mVerStride = info.ver]
<1>1. /\ UNCHANGED <<dparams, stream, blocks, mOutBlock>>
      /\ \/ /\ dec' = [ready EXCEPT !.mStarted = TRUE]
            /\ dmpp' = Controls(set, info)
            /\ dpc' \in {"idle", "ensure"}
         \/ /\ dec' \in {Adopted(m), ready}
            /\ dpc' = "idle" /\ UNCHANGED dmpp
  BY DEF DecBegin
<1>2. /\ DOMAIN m = DOMAIN dec /\ DecMember \subseteq DOMAIN m
      /\ m.mColorFormat = dec.mColorFormat /\ m.mCodingType = dec.mCodingType
      /\ m.mGrallocVersion = dec.mGrallocVersion /\ m.mStarted = dec.mStarted
      /\ m.mOutputBlockPool = pool /\ (m.mBufferMode <=> pool # BUFFERQUEUE)
  BY DEF FitInv, FitPlaces, DecMember
<1>3. /\ DOMAIN set = DOMAIN dec
      /\ set.mColorFormat = dec.mColorFormat /\ set.mCodingType = dec.mCodingType
      /\ set.mGrallocVersion = dec.mGrallocVersion /\ set.mStarted = dec.mStarted
      /\ set.mOutputBlockPool = pool /\ (set.mBufferMode <=> pool # BUFFERQUEUE)
      /\ set.mWidth = dparams.size.width
      /\ set.fbcMode # 0 => set.paddingY = dmpp.fbcOf.offset[2]
  <2> HIDE DEF m, pool
  <2>1. QED
    BY <1>2, SetUpMembers
<1>4. /\ DOMAIN Adopted(m) = DOMAIN dec
      /\ Adopted(m).mColorFormat = dec.mColorFormat
      /\ Adopted(m).mCodingType = dec.mCodingType
      /\ Adopted(m).mGrallocVersion = dec.mGrallocVersion
      /\ Adopted(m).mStarted = dec.mStarted
      /\ Adopted(m).mWidth = dparams.size.width
  <2> HIDE DEF m, pool
  <2>1. QED
    BY <1>2 DEF Adopted, DecMember
<1>5. \A x : /\ x.mColorFormat = dec.mColorFormat /\ x.mCodingType = dec.mCodingType
             /\ x.mGrallocVersion = dec.mGrallocVersion
             /\ x.mWidth = dparams.size.width
             => Measured(x)
  BY DEF FitInv, FitPlaces, Measured
<1> HIDE DEF m, pool, set
<1>6. Measured(set)
  BY <1>3, <1>5
<1>7. /\ info.width = set.mWidth
      /\ info.format.pixels = set.mColorFormat.pixels
      /\ dmpp.givesStrides =>
            info.hor = RowOf(set.mCodingType, dmpp.align, set.mWidth, PixelBits(set))
  BY <1>6, InfoTold
<1> HIDE DEF info
<1>8. /\ DOMAIN ready = DOMAIN dec
      /\ ready.mColorFormat = dec.mColorFormat /\ ready.mCodingType = dec.mCodingType
      /\ ready.mGrallocVersion = dec.mGrallocVersion /\ ready.mStarted = dec.mStarted
      /\ ready.mOutputBlockPool = pool /\ (ready.mBufferMode <=> pool # BUFFERQUEUE)
      /\ ready.mWidth = dparams.size.width
      /\ ready.fbcMode = set.fbcMode /\ ready.paddingY = set.paddingY
      /\ ready.mHorStride = info.hor /\ ready.mVerStride = info.ver
  BY <1>2, <1>3
<1> HIDE DEF ready
<1>9. CASE /\ dec' \in {Adopted(m), ready} /\ dpc' = "idle" /\ UNCHANGED dmpp
  <2>1. /\ DOMAIN dec' = DOMAIN dec
        /\ dec'.mColorFormat = dec.mColorFormat /\ dec'.mCodingType = dec.mCodingType
        /\ dec'.mGrallocVersion = dec.mGrallocVersion /\ dec'.mStarted = dec.mStarted
        /\ dec'.mWidth = dparams.size.width
    BY <1>4, <1>8, <1>9
  <2>2. Measured(dec)' <=> Measured(dec')
    BY DEF Measured
  <2>3. FitPlaces'
    BY <1>1, <1>5, <1>9, <2>1, <2>2 DEF FitInv, FitPlaces
  <2>4. QED
    BY <1>1, <1>9, <2>1, <2>3, FitUnstarted
<1>10. CASE /\ dec' = [ready EXCEPT !.mStarted = TRUE]
            /\ dmpp' = Controls(set, info)
            /\ dpc' \in {"idle", "ensure"}
  <2>1. /\ DOMAIN dec' = DOMAIN dec
        /\ dec'.mColorFormat = dec.mColorFormat /\ dec'.mCodingType = dec.mCodingType
        /\ dec'.mGrallocVersion = dec.mGrallocVersion /\ dec'.mStarted
        /\ dec'.mOutputBlockPool = pool /\ (dec'.mBufferMode <=> pool # BUFFERQUEUE)
        /\ dec'.mWidth = dparams.size.width
        /\ dec'.fbcMode = set.fbcMode /\ dec'.paddingY = set.paddingY
        /\ dec'.mHorStride = info.hor /\ dec'.mVerStride = info.ver
    BY <1>8, <1>10 DEF FitInv, FitPlaces, DecMember
  <2>2. /\ DOMAIN dmpp' = DOMAIN dmpp
        /\ dmpp'.info = info /\ (dmpp'.fbc <=> set.fbcMode # 0)
        /\ dmpp'.align = dmpp.align /\ dmpp'.givesStrides = dmpp.givesStrides
        /\ dmpp'.fbcOf = dmpp.fbcOf
    BY <1>10 DEF Controls, FitInv, FitPlaces
  <2>3. FitPlaces'
    <3>1. Measured(dec)' <=> Measured(dec')
      BY DEF Measured
    <3>2. QED
      BY <1>1, <1>5, <2>1, <2>2, <3>1 DEF FitInv, FitPlaces
  <2>4. Adopts(dec', dmpp')
    BY <1>3, <1>7, <2>1, <2>2 DEF Adopts, RowKnown, PixelBits
  <2>5. InfoAdopted'
    BY <2>4 DEF InfoAdopted, Adopts, RowKnown, PixelBits
  <2>6. BlocksInv' /\ HeldInv'
    BY <1>1, <1>10, <2>1 DEF FitInv, BlocksInv, HeldInv
  <2>7. QED
    BY <2>3, <2>5, <2>6 DEF FitInv
<1>11. QED
  BY <1>1, <1>9, <1>10

\* Later ones look at the pool's id again.
LEMMA FitAgain ==
    ASSUME FitInv, DecBegin, dec.mStarted
    PROVE  FitInv'
<1> DEFINE pool == IF dec.mOutputBlockPool = NoPool THEN dparams.outputPool
                   ELSE dec.mOutputBlockPool
<1>1. /\ UNCHANGED <<dparams, dmpp, stream, blocks, mOutBlock>>
      /\ dpc' \in {"idle", "ensure"}
      /\ dec' = [dec EXCEPT !.mOutputBlockPool = pool, !.mBufferMode = (pool # BUFFERQUEUE)]
  BY DEF DecBegin
<1>2. /\ DOMAIN dec' = DOMAIN dec
      /\ dec'.mColorFormat = dec.mColorFormat /\ dec'.fbcMode = dec.fbcMode
      /\ dec'.mCodingType = dec.mCodingType /\ dec'.mGrallocVersion = dec.mGrallocVersion
      /\ dec'.mWidth = dec.mWidth /\ dec'.mHorStride = dec.mHorStride
      /\ dec'.mVerStride = dec.mVerStride /\ dec'.paddingY = dec.paddingY
      /\ dec'.mStarted
      /\ dec'.mOutputBlockPool = pool /\ (dec'.mBufferMode <=> pool # BUFFERQUEUE)
  BY <1>1 DEF FitInv, FitPlaces, DecMember
<1>3. SameGeometry(dec, dec')
  BY <1>2 DEF SameGeometry
<1>4. FitPlaces'
  BY <1>1, <1>2, <1>3, FitPlacesKept DEF FitInv
<1>5. /\ Geometry(dec') = Geometry(dec) /\ Geometry(dec)' = Geometry(dec')
      /\ Adopts(dec, dmpp) => Adopts(dec', dmpp)
      /\ Held(mOutBlock, dec, dmpp) => Held(mOutBlock, dec', dmpp)
  BY <1>3, GeometryOf DEF Geometry, ByUsage, BlockWidth, BlockHeight
<1>6. InfoAdopted'
  <2>1. InfoAdopted' <=> (dec'.mStarted => Adopts(dec', dmpp'))
    BY DEF InfoAdopted, Adopts, RowKnown, PixelBits
  <2>2. QED
    BY <1>1, <1>5, <2>1 DEF FitInv, InfoAdopted
<1>7. BlocksInv'
  <2>1. blocks # {} => pool = BUFFERQUEUE
    BY DEF FitInv, BlocksInv, BUFFERQUEUE, NoPool
  <2>2. QED
    BY <1>1, <1>2, <1>5, <2>1 DEF FitInv, BlocksInv
<1>8. HeldInv'
  <2>1. Held(mOutBlock, dec, dmpp)' <=> Held(mOutBlock', dec', dmpp')
    BY DEF Held
  <2>2. QED
    BY <1>1, <1>2, <1>5, <2>1 DEF FitInv, HeldInv
<1>9. QED
  BY <1>4, <1>6, <1>7, <1>8 DEF FitInv

\* After blocks were asked for with the members m, which are MPP's.
LEMMA FitEnsured ==
    ASSUME FitInv, FitPlaces', NEW m, NEW held, NEW table, NEW ok,
           Ensure(m, held, table, ok), table \subseteq {Geometry(m)}, table \subseteq blocks,
           held \in {mOutBlock, NoBlock},
           SameGeometry(m, dec'), m.mBufferMode = dec.mBufferMode,
           Adopts(m, dmpp'), m.mCodingType = dec.mCodingType, dpc # "idle",
           dmpp'.fbc = dmpp.fbc, dmpp'.givesStrides = dmpp.givesStrides,
           dmpp'.align = dmpp.align,
           dec'.mStarted = dec.mStarted, dec'.mBufferMode = dec.mBufferMode,
           dec'.mOutputBlockPool = dec.mOutputBlockPool
    PROVE  FitInv'
<1>1. /\ blocks' \subseteq {Geometry(m)}
      /\ m.mBufferMode => blocks' = table
      /\ mOutBlock' \in {held, Geometry(m), NoBlock}
      /\ m.mBufferMode /\ mOutBlock' # NoBlock =>
            SizeOf(mOutBlock') = SizeOf(Geometry(m))
  BY EnsureIs
<1>2. /\ Geometry(m) = Geometry(dec') /\ Adopts(dec', dmpp')
      /\ \A b : Held(b, m, dmpp') => Held(b, dec', dmpp')
  BY GeometryOf
<1>3. Geometry(dec)' = Geometry(dec')
  BY DEF Geometry, ByUsage, BlockWidth, BlockHeight
<1>4. dec.mStarted /\ (dec.mBufferMode <=> dec.mOutputBlockPool # BUFFERQUEUE)
  BY DEF FitInv, BlocksInv
<1>5. InfoAdopted'
  <2>1. InfoAdopted' <=> (dec'.mStarted => Adopts(dec', dmpp'))
    BY DEF InfoAdopted, Adopts, RowKnown, PixelBits
  <2>2. QED
    BY <1>2, <2>1
<1>6. BlocksInv'
  <2>1. dec.mBufferMode => table = {}
    BY DEF FitInv, BlocksInv
  <2>2. QED
    BY <1>1, <1>2, <1>3, <1>4, <2>1 DEF BlocksInv
<1>7. HeldInv'
  <2>1. Measured(m)
    <3>1. Measured(dec')
      BY DEF FitPlaces, Measured
    <3>2. SameGeometry(dec', m)
      BY DEF SameGeometry
    <3>3. QED
      BY <3>1, <3>2, GeometryOf
  <2>2. dmpp'.align \in Alignments
    BY DecConfigAssumption DEF FitInv, FitPlaces, Alignments
  <2>3. Held(Geometry(m), m, dmpp')
    BY <2>1, <2>2, GeometryHeld
  <2>4. \A b : Held(b, dec, dmpp) => Held(b, m, dmpp')
    BY DEF Held
  <2>5. mOutBlock' # NoBlock => Held(mOutBlock', dec', dmpp')
    BY <1>1, <1>2, <2>3, <2>4 DEF FitInv, HeldInv
  <2>6. Held(mOutBlock, dec, dmpp)' <=> Held(mOutBlock', dec', dmpp')
    BY DEF Held
  <2>7. SizeOf(Geometry(dec))' = SizeOf(Geometry(dec'))
    BY <1>3 DEF SizeOf
  <2>8. QED
    BY <1>1, <1>2, <1>4, <2>5, <2>6, <2>7 DEF HeldInv, SizeOf
<1>8. QED
  BY <1>5, <1>6, <1>7 DEF FitInv

\* The blocks of each work.
LEMMA FitEnsure == ASSUME FitInv, EnsureDecoderState PROVE FitInv'
<1>1. PICK ok \in DecMay("fetch") : Ensure(dec, mOutBlock, blocks, ok)
  BY DEF EnsureDecoderState
<1>2. /\ UNCHANGED <<dparams, dmpp, stream>> /\ dpc = "ensure"
      /\ \E error : dec' = [dec EXCEPT !.mSignalledError = error]
  BY DEF EnsureDecoderState
<1>3. /\ DOMAIN dec' = DOMAIN dec
      /\ dec'.mColorFormat = dec.mColorFormat /\ dec'.fbcMode = dec.fbcMode
      /\ dec'.mCodingType = dec.mCodingType /\ dec'.mGrallocVersion = dec.mGrallocVersion
      /\ dec'.mWidth = dec.mWidth /\ dec'.mHorStride = dec.mHorStride
      /\ dec'.mVerStride = dec.mVerStride /\ dec'.paddingY = dec.paddingY
      /\ dec'.mStarted = dec.mStarted /\ dec'.mBufferMode = dec.mBufferMode
      /\ dec'.mOutputBlockPool = dec.mOutputBlockPool
  BY <1>2
<1>4. SameGeometry(dec, dec')
  BY <1>3 DEF SameGeometry
<1>5. FitPlaces'
  BY <1>2, <1>3, <1>4, FitPlacesKept DEF FitInv
<1>6. blocks \subseteq {Geometry(dec)} /\ Adopts(dec, dmpp)
  BY <1>2 DEF FitInv, BlocksInv, InfoAdopted
<1>7. QED
  BY <1>1, <1>2, <1>3, <1>4, <1>5, <1>6, FitEnsured

\* The blocks after a frame.
LEMMA FitFinish == ASSUME FitInv, FinishWork PROVE FitInv'
<1>1. PICK ok \in DecMay("fetch") : Ensure(dec, NoBlock, blocks, ok)
  BY DEF FinishWork
<1>2. UNCHANGED <<dparams, dec, dmpp, stream>> /\ dpc = "finish"
  BY DEF FinishWork
<1>3. SameGeometry(dec, dec')
  BY <1>2 DEF SameGeometry
<1>4. FitPlaces'
  BY <1>2, <1>3, FitPlacesKept DEF FitInv
<1>5. blocks \subseteq {Geometry(dec)} /\ Adopts(dec, dmpp)
  BY <1>2 DEF FitInv, BlocksInv, InfoAdopted
<1>6. QED
  BY <1>1, <1>2, <1>3, <1>4, <1>5, FitEnsured

\* MPP could not be told to go on: the table is cleared, the members are kept.
LEMMA FitNotReady ==
    ASSUME FitInv, InfoChange, dec' = [dec EXCEPT !.mSignalledError = TRUE],
           blocks' = TableAfter(dec), dpc' = "idle", UNCHANGED <<dparams, dmpp, mOutBlock>>
    PROVE  FitInv'
<1>1. UNCHANGED stream /\ blocks' \subseteq blocks
  BY DEF InfoChange, TableAfter
<1>2. /\ DOMAIN dec' = DOMAIN dec
      /\ dec'.mColorFormat = dec.mColorFormat /\ dec'.fbcMode = dec.fbcMode
      /\ dec'.mCodingType = dec.mCodingType /\ dec'.mGrallocVersion = dec.mGrallocVersion
      /\ dec'.mWidth = dec.mWidth /\ dec'.mHorStride = dec.mHorStride
      /\ dec'.mVerStride = dec.mVerStride /\ dec'.paddingY = dec.paddingY
      /\ dec'.mStarted = dec.mStarted /\ dec'.mBufferMode = dec.mBufferMode
      /\ dec'.mOutputBlockPool = dec.mOutputBlockPool
  OBVIOUS
<1>3. SameGeometry(dec, dec')
  BY <1>2 DEF SameGeometry
<1>4. FitPlaces'
  BY <1>1, <1>2, <1>3, FitPlacesKept DEF FitInv
<1>5. QED
  BY <1>1, <1>2, <1>3, <1>4, FitKept

\* The members are MPP's again.
LEMMA FitChanged ==
    ASSUME FitInv, InfoChange, NEW ok,
           Ensure(Changed(dec, InfoNow), mOutBlock, TableAfter(dec), ok),
           dec' = [Changed(dec, InfoNow) EXCEPT !.mSignalledError = ~SizeAccepted(stream)],
           dmpp' = [dmpp EXCEPT !.info = InfoNow],
           dparams' = DecConfigured(dec.mCodingType, dparams, "size",
                                    [width |-> stream.width, height |-> stream.height])
    PROVE  FitInv'
<1> DEFINE info == InfoNow
           m == Changed(dec, info)
<1>1. UNCHANGED stream /\ dpc = "outframe"
  BY DEF InfoChange
<1>2. /\ info.width = stream.width /\ info.format.pixels = Pixels(stream.bits)
      /\ info.format.fbc = dmpp.fbc
      /\ info.hor = RowOf(dec.mCodingType, dmpp.align, stream.width, stream.bits)
  BY RowIs DEF InfoNow, InfoOf, Format
<1> HIDE DEF info
<1>3. /\ DOMAIN m = DOMAIN dec
      /\ m.mColorFormat = info.format
      /\ m.fbcMode = IF info.format.fbc THEN AFBC_16x16 ELSE 0
      /\ m.mCodingType = dec.mCodingType /\ m.mGrallocVersion = dec.mGrallocVersion
      /\ m.mWidth = info.width /\ m.mHorStride = info.hor
      /\ m.mVerStride = info.ver /\ m.paddingY = dec.paddingY
      /\ m.mStarted = dec.mStarted /\ m.mBufferMode = dec.mBufferMode
      /\ m.mOutputBlockPool = dec.mOutputBlockPool
  BY DEF Changed, FitInv, FitPlaces, DecMember
<1> HIDE DEF m
<1>4. /\ DOMAIN dec' = DOMAIN m
      /\ dec'.mColorFormat = m.mColorFormat /\ dec'.fbcMode = m.fbcMode
      /\ dec'.mCodingType = m.mCodingType /\ dec'.mGrallocVersion = m.mGrallocVersion
      /\ dec'.mWidth = m.mWidth /\ dec'.mHorStride = m.mHorStride
      /\ dec'.mVerStride = m.mVerStride /\ dec'.paddingY = m.paddingY
      /\ dec'.mStarted = m.mStarted /\ dec'.mBufferMode = m.mBufferMode
      /\ dec'.mOutputBlockPool = m.mOutputBlockPool
  <2>1. dec' = [m EXCEPT !.mSignalledError = ~SizeAccepted(stream)]
    BY DEF m, info
  <2>2. DecMember \subseteq DOMAIN m
    BY <1>3 DEF FitInv, FitPlaces
  <2>3. QED
    BY <2>1, <2>2 DEF DecMember
<1>5. SameGeometry(m, dec')
  BY <1>4 DEF SameGeometry
<1>6. /\ stream.width \in Int /\ stream.bits \in {8, 10}
      /\ dec.mCodingType = "VP9" => stream.bits = 8
  BY DecConfigAssumption DEF FitInv, FitPlaces
<1>7. PixelBits(m) = stream.bits
  BY <1>2, <1>3, <1>6 DEF PixelBits, Pixels
<1>8. Measured(m)
  BY <1>2, <1>3, <1>6 DEF Measured, FitInv, FitPlaces
<1>9. Adopts(dec, dmpp)
  BY <1>1 DEF FitInv, BlocksInv, InfoAdopted
<1>10. /\ DOMAIN dmpp' = DOMAIN dmpp /\ dmpp'.info = info
       /\ dmpp'.fbc = dmpp.fbc /\ dmpp'.givesStrides = dmpp.givesStrides
       /\ dmpp'.align = dmpp.align /\ dmpp'.fbcOf = dmpp.fbcOf
  BY DEF info, FitInv, FitPlaces
<1>11. Adopts(m, dmpp')
  BY <1>2, <1>3, <1>7, <1>9, <1>10 DEF Adopts, RowKnown, AFBC_16x16
<1>12. FitPlaces'
  <2>1. /\ "size" \in DOMAIN dparams'
        /\ dparams'.size.width \in Int /\ dparams'.size.height \in Int
    BY SizeKept DEF FitInv, FitPlaces
  <2>2. Measured(dec)' <=> Measured(dec')
    BY DEF Measured
  <2>3. Measured(dec')
    BY <1>5, <1>8, GeometryOf
  <2>4. QED
    BY <1>1, <1>3, <1>4, <1>10, <2>1, <2>2, <2>3 DEF FitInv, FitPlaces
<1>13. TableAfter(dec) \subseteq {Geometry(m)} /\ TableAfter(dec) \subseteq blocks
  BY DEF TableAfter, FitInv, BlocksInv
<1>14. Ensure(m, mOutBlock, TableAfter(dec), ok)
  BY DEF m, info
<1>15. QED
  BY <1>1, <1>3, <1>4, <1>5, <1>10, <1>11, <1>12, <1>13, <1>14, FitEnsured

\* Which of the two it was.
LEMMA FitInfoChange == ASSUME FitInv, InfoChange PROVE FitInv'
<1>1. \/ /\ \E ok : Ensure(Changed(dec, InfoNow), mOutBlock, TableAfter(dec), ok)
         /\ dec' = [Changed(dec, InfoNow) EXCEPT !.mSignalledError = ~SizeAccepted(stream)]
         /\ dmpp' = [dmpp EXCEPT !.info = InfoNow]
         /\ dparams' = DecConfigured(dec.mCodingType, dparams, "size",
                            [width |-> stream.width, height |-> stream.height])
      \/ /\ dec' = [dec EXCEPT !.mSignalledError = TRUE]
         /\ blocks' = TableAfter(dec) /\ dpc' = "idle"
         /\ UNCHANGED <<dparams, dmpp, mOutBlock>>
  BY DEF InfoChange
<1>2. QED
  BY <1>1, FitChanged, FitNotReady

\* Every step of the decoder keeps the invariant.
LEMMA FitStep == ASSUME FitInv, DecNext \/ UNCHANGED decVars PROVE FitInv'
<1>1. CASE \E k \in DOMAIN DecOffers : \E v \in DecOffers[k] : DecConfigure(k, v)
  BY <1>1, FitConfigure
<1>2. CASE DecBegin
  BY <1>2, FitSetUp, FitAgain
<1>3. CASE UNCHANGED decVars
  <2>1. UNCHANGED <<dparams, dec, dmpp, stream, blocks, mOutBlock, dpc>>
    BY <1>3 DEF decVars
  <2>2. SameGeometry(dec, dec')
    BY <2>1 DEF SameGeometry
  <2>3. FitPlaces'
    BY <2>1, <2>2, FitPlacesKept DEF FitInv
  <2>4. QED
    BY <2>1, <2>2, <2>3, FitKept
<1>4. CASE StreamChanges \/ NoFrame \/ GetFrame
  BY <1>4, FitStream, FitFrame
<1>5. CASE EnsureDecoderState \/ InfoChange \/ FinishWork
  BY <1>5, FitEnsure, FitInfoChange, FitFinish
<1>6. CASE DecFlush \/ DecStop \/ DecRelease
  BY <1>6, FitFlush, FitRelease
<1>7. QED
  BY <1>1, <1>2, <1>3, <1>4, <1>5, <1>6 DEF DecNext

\* The geometry of the members fits MPP's info, and so does the block that has
\* MPP's rows for its width and that width.
LEMMA FitEnough == ASSUME FitInv PROVE BlockFits
<1> DEFINE info == InfoNow
           ten == dmpp.fbc /\ info.format.pixels = Pixels(10)
           own == IF dec.mBufferMode THEN {mOutBlock} \ {NoBlock} ELSE blocks
<1> SUFFICES ASSUME dpc = "outframe", dmpp.info = info,
                    dec.mBufferMode => dmpp.givesStrides,
                    NEW b \in own
             PROVE  /\ IF ten THEN StrideOfBlock(b) >= info.width
                       ELSE StrideOfBlock(b) = info.hor
                    /\ b.height >= info.ver + (IF dmpp.fbc THEN dmpp.fbcOf.offset[2] ELSE 0)
  BY DEF BlockFits, InfoCurrent
<1>1. /\ info.width = stream.width /\ info.format.pixels = Pixels(stream.bits)
      /\ info.hor = RowOf(dec.mCodingType, dmpp.align, stream.width, stream.bits)
      /\ info.ver = C2_ALIGN(stream.height, 16)
  BY RowIs DEF InfoNow, InfoOf, Format
<1>2. /\ stream.width \in Int /\ stream.height \in Int /\ stream.bits \in {8, 10}
      /\ dmpp.align \in Alignments
  <2>1. stream \in Streams /\ dmpp.align \in Strides
    BY DEF FitInv, FitPlaces
  <2>2. stream.width \in Nat /\ stream.height \in Nat /\ stream.bits \in {8, 10}
    BY <2>1, DecConfigAssumption
  <2>3. dmpp.align \in Alignments
    BY <2>1, DecConfigAssumption DEF Alignments
  <2>4. QED
    BY <2>2, <2>3
<1> HIDE DEF info
<1>3. Adopts(dec, dmpp) /\ Measured(dec)
  BY DEF FitInv, BlocksInv, InfoAdopted, FitPlaces
<1>4. /\ info.width = dec.mWidth /\ info.hor = dec.mHorStride /\ info.ver = dec.mVerStride
      /\ PixelBits(dec) = stream.bits
      /\ dmpp.fbc <=> dec.fbcMode # 0
      /\ ten <=> dmpp.fbc /\ PixelBits(dec) = 10
  BY <1>1, <1>2, <1>3 DEF Adopts, PixelBits, Pixels
<1>5. RowKnown(dec, dmpp.align)
  BY <1>1, <1>4 DEF RowKnown
<1> DEFINE g == Geometry(dec)
<1>6. IF dec.fbcMode # 0
      THEN /\ g.usage = "SPECIFY_STRIDE"
           /\ IF PixelBits(dec) = 10 THEN g.width >= dec.mWidth ELSE g.width = dec.mHorStride
      ELSE /\ StrideOfBlock(g) = dec.mHorStride
           /\ dec.mHorStride = RowOf(dec.mCodingType, dmpp.align, g.width, 8)
  BY <1>2, <1>3, <1>5, GeometryFits
<1>7. g.height >= info.ver + (IF dmpp.fbc THEN dmpp.fbcOf.offset[2] ELSE 0)
  <2>1. g.height = BlockHeight(dec)
    BY DEF Geometry
  <2>2. info.ver \in Int /\ dmpp.fbcOf.offset[2] \in Int
    <3>1. \A x \in Int : C2_ALIGN(x, 16) \in Int
      BY DEF C2_ALIGN
    <3>2. QED
      BY <1>1, <1>2, <3>1 DEF FitInv, FitPlaces
  <2>3. C2_ALIGN(info.ver + dmpp.fbcOf.offset[2], 16) >= info.ver + dmpp.fbcOf.offset[2]
    <3>1. \A x \in Int : C2_ALIGN(x, 16) >= x
      BY DEF C2_ALIGN
    <3>2. QED
      BY <2>2, <3>1
  <2>4. dmpp.fbc => dec.paddingY = dmpp.fbcOf.offset[2]
    BY <1>3 DEF Adopts
  <2>5. QED
    BY <1>4, <2>1, <2>2, <2>3, <2>4 DEF BlockHeight
<1> HIDE DEF g, ten
<1>8. \A x : x.usage = "SPECIFY_STRIDE" => StrideOfBlock(x) = x.width
  BY DEF StrideOfBlock
<1>9. IF ten THEN StrideOfBlock(g) >= info.width ELSE StrideOfBlock(g) = info.hor
  BY <1>4, <1>6, <1>8
<1>10. CASE ~dec.mBufferMode
  <2>1. b = g
    BY <1>10 DEF FitInv, BlocksInv, g
  <2>2. QED
    BY <1>7, <1>9, <2>1
<1>11. CASE dec.mBufferMode
  <2>1. /\ b = mOutBlock /\ b # NoBlock /\ Held(b, dec, dmpp)
        /\ b.width = g.width /\ b.height = g.height
    BY <1>11 DEF FitInv, HeldInv, SizeOf, g
  <2>2. IF dmpp.fbc THEN b.usage = "SPECIFY_STRIDE"
        ELSE StrideOfBlock(b) = RowOf(dec.mCodingType, dmpp.align, b.width, 8)
    BY <1>11, <2>1 DEF Held
  <2>3. StrideOfBlock(b) = StrideOfBlock(g)
    BY <1>4, <1>6, <1>8, <2>1, <2>2
  <2>4. QED
    BY <1>7, <1>9, <2>1, <2>3
<1>12. QED
  BY <1>10, <1>11

-----------------------------------------------------------------------------
(***************************************************************************)
(* The encoder: the invariant behind RateFollows.                          *)
(***************************************************************************)

\* The members, the parameters and the keys the bitrate is kept in.
RatePlaces ==
    /\ "bitrate" \in DOMAIN params
    /\ {"mStarted", "mBitrate"} \subseteq DOMAIN enc
    /\ "target" \in DOMAIN mEncCfg /\ "cfg" \in DOMAIN told

\* Stamps count up, and none that was read is of the future.
Stamps ==
    /\ stamp \in Nat /\ enc.mBitrate \in Nat /\ bitrate \in Nat
    /\ enc.mBitrate <= stamp /\ bitrate <= stamp
    /\ epc \in {"rebitrate", "retarget"} => enc.mBitrate < bitrate

Setup == {"init", "frameRate", "bitRate", "rest"}
Settled == {"idle", "bitrate", "rebitrate", "input"}
Places == Setup \cup Settled \cup {"retarget"}

\* The bitrate of now is one the client had since process() began.
NowSeen == epc # "idle" => params.bitrate \in seen

\* MPP is not set up while it is being set up.  (It may not be afterwards either:
\* the temporary buffer could not be allocated.)
NotYetStarted == epc \in Setup => ~enc.mStarted

\* Where all that was written has been told, the two agree, and with the object
\* that was handled MPP has its value.
ToldIsWritten ==
    epc \in Settled /\ enc.mStarted /\ ~failed =>
        /\ mEncCfg.target = told.cfg.target
        /\ enc.mBitrate = stamp => told.cfg.target = params.bitrate

\* A target that is written but not told is that of the object read last, or newer.
Written(object) ==
    /\ mEncCfg.target \in seen
    /\ object = stamp => mEncCfg.target = params.bitrate

RateInv ==
    /\ RatePlaces /\ Stamps /\ NowSeen /\ NotYetStarted /\ ToldIsWritten
    /\ epc \in Places
    /\ epc = "rest" => Written(enc.mBitrate)
    /\ epc = "retarget" /\ enc.mStarted => Written(bitrate)
    /\ RateFollows

-----------------------------------------------------------------------------
(***************************************************************************)
(* The steps.                                                              *)
(***************************************************************************)

\* The bitrate is a parameter.
LEMMA DefaultBitrate == ASSUME NEW codec PROVE "bitrate" \in DOMAIN DefaultParams(codec)
  BY DEF DefaultParams

\* A new encoder is not started and has told MPP nothing.
LEMMA RateInit == ASSUME NEW codec, NEW device, EncInit(codec, device) PROVE RateInv
<1>1. /\ params = DefaultParams(codec) /\ stamp = 0 /\ bitrate = 0 /\ epc = "idle"
      /\ mEncCfg = NoCfg /\ told = NotTold
      /\ enc = EncMembers(codec, getChipName(device).type)
  BY DEF EncInit
<1>2. RatePlaces
  <2>1. "bitrate" \in DOMAIN params
    BY <1>1, DefaultBitrate
  <2>2. {"mStarted", "mBitrate"} \subseteq DOMAIN enc
    BY <1>1 DEF EncMembers
  <2>3. "target" \in DOMAIN mEncCfg
    BY <1>1 DEF NoCfg
  <2>4. "cfg" \in DOMAIN told
    BY <1>1 DEF NotTold
  <2>5. QED
    BY <2>1, <2>2, <2>3, <2>4 DEF RatePlaces
<1>3. enc.mBitrate = 0 /\ ~enc.mStarted
  BY <1>1 DEF EncMembers
<1>4. Stamps /\ NowSeen /\ NotYetStarted /\ ToldIsWritten /\ epc \in Places /\ RateFollows
  BY <1>1, <1>3 DEF Stamps, NowSeen, NotYetStarted, ToldIsWritten, Setup,
                        Settled, Places, RateFollows
<1>5. QED
  BY <1>1, <1>2, <1>4 DEF RateInv

\* Only the client's setting of the bitrate changes it, and that is a new object.
LEMMA BitrateOf ==
    ASSUME NEW codec, NEW p, NEW k, NEW v, "bitrate" \in DOMAIN p
    PROVE  LET q == Configured(codec, p, k, v)
           IN  "bitrate" \in DOMAIN q /\ (k # "bitrate" => q.bitrate = p.bitrate)
<1> DEFINE r == [p EXCEPT ![k] = SetterOf(k, v, p)]
           q == Dependents(codec, r, k)
<1>1. "bitrate" \in DOMAIN r /\ (k # "bitrate" => r.bitrate = p.bitrate)
  OBVIOUS
<1>2. DOMAIN q = DOMAIN r /\ q.bitrate = r.bitrate
  BY DEF Dependents
<1>3. QED
  BY <1>1, <1>2 DEF Configured

\* The client may set any of its parameters at any place of process().
LEMMA EncConfigureKeeps ==
    ASSUME RateInv, NEW k, NEW v, EncConfigure(k, v)
    PROVE  RateInv'
<1>1. UNCHANGED <<enc, mEncCfg, told, epc, bitrate, failed>>
  BY DEF EncConfigure
<1>2. /\ "bitrate" \in DOMAIN params'
      /\ \/ stamp' = stamp /\ params'.bitrate = params.bitrate
         \/ stamp' = stamp + 1
  BY BitrateOf DEF EncConfigure, RateInv, RatePlaces
<1>3. /\ epc # "idle" => params'.bitrate \in seen'
      /\ seen \subseteq seen'
  BY DEF EncConfigure
<1>4. RatePlaces' /\ Stamps' /\ NowSeen'
  BY <1>1, <1>2, <1>3 DEF RateInv, RatePlaces, Stamps, NowSeen
<1>5. \/ stamp' = stamp /\ params'.bitrate = params.bitrate
      \/ enc.mBitrate # stamp' /\ bitrate # stamp'
  BY <1>2 DEF RateInv, Stamps
<1>6. NotYetStarted' /\ ToldIsWritten'
  BY <1>1, <1>5 DEF RateInv, NotYetStarted, ToldIsWritten
<1>7. /\ epc' \in Places
      /\ epc' = "rest" => Written(enc.mBitrate)'
      /\ epc' = "retarget" /\ enc'.mStarted => Written(bitrate)'
  BY <1>1, <1>3, <1>5 DEF RateInv, Written
<1>8. RateFollows'
  BY <1>1, <1>3 DEF RateInv, RateFollows
<1>9. QED
  BY <1>4, <1>6, <1>7, <1>8 DEF RateInv

\* process() begins with the bitrate of now, of which MPP may know nothing yet.
LEMMA EncBeginKeeps == ASSUME RateInv, NEW f, EncBegin(f) PROVE RateInv'
<1>1. /\ UNCHANGED <<params, stamp, enc, mEncCfg, told, bitrate, failed>>
      /\ epc = "idle" /\ seen' = {params.bitrate}
      /\ epc' = IF enc.mStarted THEN "bitrate" ELSE "init"
  BY DEF EncBegin
<1>2. RatePlaces' /\ Stamps' /\ NowSeen'
  BY <1>1 DEF RateInv, RatePlaces, Stamps, NowSeen
<1>3. NotYetStarted' /\ ToldIsWritten'
  BY <1>1 DEF RateInv, NotYetStarted, ToldIsWritten, Setup, Settled
<1>4. epc' \in Places /\ epc' \notin {"rest", "retarget", "input"}
  BY <1>1 DEF Places, Setup, Settled
<1>5. QED
  BY <1>2, <1>3, <1>4 DEF RateInv, RateFollows

\* initEncoder up to MPP's context, with one or without.
LEMMA AdoptIs ==
    ASSUME CreateMpp \/ AllocFails
    PROVE  /\ epc = "init" /\ epc' \in {"frameRate", "idle", "bitrate"}
           /\ DOMAIN enc' = DOMAIN enc
           /\ \A k \in {"mCodingType", "mStarted"} \cap DOMAIN enc : enc'[k] = enc[k]
           /\ "mBitrate" \in DOMAIN enc => enc'.mBitrate = stamp
           /\ "mSize" \in DOMAIN enc => enc'.mSize = params.size
           /\ told' = NotTold /\ refs' = NoRefs
           /\ UNCHANGED <<params, stamp, mEncCfg, picture, bitrate, sent, seen>>
<1>1. \E mMppMpi : AdoptParams(mMppMpi)
  BY DEF CreateMpp, AllocFails
<1>2. epc' \in {"frameRate", "idle", "bitrate"}
  BY DEF CreateMpp, AllocFails
<1>3. QED
  BY <1>1, <1>2 DEF AdoptParams

\* initEncoder marks the object of now as handled before any setup reads its value.
LEMMA AdoptKeeps == ASSUME RateInv, CreateMpp \/ AllocFails PROVE RateInv'
<1>1. /\ UNCHANGED <<params, stamp, mEncCfg, bitrate, seen>>
      /\ epc = "init" /\ epc' \in {"frameRate", "idle", "bitrate"} /\ told' = NotTold
  BY AdoptIs
<1>2. /\ DOMAIN enc' = DOMAIN enc /\ enc'.mBitrate = stamp /\ enc'.mStarted = enc.mStarted
  BY AdoptIs DEF RateInv, RatePlaces
<1>3. ~enc.mStarted
  BY <1>1 DEF RateInv, NotYetStarted, Setup
<1>4. RatePlaces'
  BY <1>1, <1>2 DEF RateInv, RatePlaces, NotTold
<1>5. Stamps' /\ NowSeen'
  BY <1>1, <1>2 DEF RateInv, Stamps, NowSeen
<1>6. NotYetStarted' /\ ToldIsWritten' /\ epc' \in Places
  BY <1>1, <1>2, <1>3 DEF NotYetStarted, ToldIsWritten, Places, Setup, Settled
<1>7. QED
  BY <1>1, <1>4, <1>5, <1>6 DEF RateInv, RateFollows

\* The first half of setupEncCfg writes no bitrate.
LEMMA PictureKeeps == ASSUME RateInv, SetupPicture PROVE RateInv'
<1>1. /\ UNCHANGED <<params, stamp, enc, told, bitrate, seen, failed>>
      /\ epc = "frameRate" /\ epc' = "bitRate"
      /\ mEncCfg' = setupFrameRate(setupSceneMode(setupBaseCodec(NoCfg, enc), params), params)
  BY DEF SetupPicture
<1>2. "target" \in DOMAIN mEncCfg'
  BY <1>1 DEF setupFrameRate, setupSceneMode, setupBaseCodec, NoCfg
<1>3. RatePlaces' /\ Stamps' /\ NowSeen'
  BY <1>1, <1>2 DEF RateInv, RatePlaces, Stamps, NowSeen
<1>4. NotYetStarted' /\ ToldIsWritten' /\ epc' \in Places
  BY <1>1 DEF RateInv, NotYetStarted, ToldIsWritten, Places, Setup, Settled
<1>5. QED
  BY <1>1, <1>3, <1>4 DEF RateInv, RateFollows

\* setupBitRate writes the client's bitrate of now.
LEMMA TargetOf ==
    ASSUME NEW cfg, NEW p, "target" \in DOMAIN cfg
    PROVE  /\ "target" \in DOMAIN setupBitRate(cfg, p)
           /\ setupBitRate(cfg, p).target = p.bitrate
  BY DEF setupBitRate

\* initEncoder's target is the client's of now.
LEMMA BitRateKeeps == ASSUME RateInv, SetupBitRate PROVE RateInv'
<1>1. /\ UNCHANGED <<params, stamp, enc, told, bitrate, seen, failed>>
      /\ epc = "bitRate" /\ epc' = "rest" /\ mEncCfg' = setupBitRate(mEncCfg, params)
  BY DEF SetupBitRate
<1>2. "target" \in DOMAIN mEncCfg' /\ mEncCfg'.target = params.bitrate
  BY <1>1, TargetOf DEF RateInv, RatePlaces
<1>3. RatePlaces' /\ Stamps' /\ NowSeen'
  BY <1>1, <1>2 DEF RateInv, RatePlaces, Stamps, NowSeen
<1>4. NotYetStarted' /\ ToldIsWritten' /\ epc' \in Places
  BY <1>1 DEF RateInv, NotYetStarted, ToldIsWritten, Places, Setup, Settled
<1>5. Written(enc.mBitrate)'
  BY <1>1, <1>2 DEF RateInv, NowSeen, Written
<1>6. QED
  BY <1>1, <1>3, <1>4, <1>5 DEF RateInv, RateFollows

\* The other half of setupEncCfg leaves the bitrate, and MPP is told all of it.
LEMMA RestKeeps == ASSUME RateInv, SetupRest PROVE RateInv'
<1> DEFINE codec == enc.mCodingType
           a == setupProfileParams(mEncCfg, params, codec)
           b == setupQp(a, params, codec)
           cfg == setupVuiParams(b, params)
<1>1. "target" \in DOMAIN cfg /\ cfg.target = mEncCfg.target
  <2>1. "target" \in DOMAIN a /\ a.target = mEncCfg.target
    BY DEF setupProfileParams, RateInv, RatePlaces
  <2>2. "target" \in DOMAIN b /\ b.target = a.target
    <3> HIDE DEF a
    <3>1. QED
      BY <2>1 DEF setupQp
  <2>3. "target" \in DOMAIN cfg /\ cfg.target = b.target
    <3> HIDE DEF b
    <3>1. QED
      BY <2>2 DEF setupVuiParams
  <2>4. QED
    BY <2>1, <2>2, <2>3
<1> HIDE DEF cfg
<1>2. UNCHANGED <<params, stamp, bitrate, seen, failed>> /\ epc = "rest"
  BY DEF SetupRest
<1>3. PICK layers, eachIdr :
        \/ /\ mEncCfg' = cfg
           /\ told' = [cfg |-> cfg, ref |-> layers.ref, eachIdr |-> eachIdr]
           /\ enc' = [[enc EXCEPT !.mCurLayerCount = layers.count] EXCEPT !.mStarted = TRUE]
           /\ epc' = "bitrate"
        \/ /\ mEncCfg' = NoCfg /\ told' = NotTold
           /\ enc' = Released([enc EXCEPT !.mCurLayerCount = layers.count])
           /\ epc' = "idle"
  <2>1. PICK layersOk, headerOk, ok :
          LET layers == setupTemporalLayers(layersOk)
              x      == [enc EXCEPT !.mCurLayerCount = layers.count]
          IN  \/ /\ ok
                 /\ mEncCfg' = cfg
                 /\ told' = [cfg |-> cfg, ref |-> layers.ref,
                             eachIdr |-> setupPrependHeaderSetting(headerOk)]
                 /\ enc' = [x EXCEPT !.mStarted = TRUE]
                 /\ epc' = "bitrate"
              \/ /\ ~ok
                 /\ mEncCfg' = NoCfg /\ told' = NotTold
                 /\ enc' = Released(x)
                 /\ epc' = "idle"
    BY Zenon DEF SetupRest, cfg
  <2> DEFINE layers == setupTemporalLayers(layersOk)
             eachIdr == setupPrependHeaderSetting(headerOk)
  <2>2. WITNESS layers, eachIdr
  <2>3. QED
    BY <2>1
<1> DEFINE m == [enc EXCEPT !.mCurLayerCount = layers.count]
<1>4. DOMAIN m = DOMAIN enc /\ m.mBitrate = enc.mBitrate
  OBVIOUS
<1> HIDE DEF m
<1>5. CASE /\ mEncCfg' = cfg
           /\ told' = [cfg |-> cfg, ref |-> layers.ref, eachIdr |-> eachIdr]
           /\ enc' = [m EXCEPT !.mStarted = TRUE] /\ epc' = "bitrate"
  <2>0. "cfg" \in DOMAIN told' /\ told'.cfg = cfg
    BY <1>5
  <2>1. DOMAIN enc' = DOMAIN enc /\ enc'.mBitrate = enc.mBitrate /\ enc'.mStarted
    BY <1>4, <1>5 DEF RateInv, RatePlaces
  <2>2. RatePlaces' /\ Stamps' /\ NowSeen'
    BY <1>1, <1>2, <1>5, <2>0, <2>1 DEF RateInv, RatePlaces, Stamps, NowSeen
  <2>3. enc.mBitrate = stamp => cfg.target = params.bitrate
    BY <1>1, <1>2 DEF RateInv, Written
  <2>4. NotYetStarted' /\ ToldIsWritten' /\ epc' \in Places
    BY <1>2, <1>5, <2>0, <2>1, <2>3 DEF NotYetStarted, ToldIsWritten, Places, Setup, Settled
  <2>5. QED
    BY <1>5, <2>2, <2>4 DEF RateInv, RateFollows
<1>6. CASE /\ mEncCfg' = NoCfg /\ told' = NotTold
           /\ enc' = Released(m) /\ epc' = "idle"
  <2>1. DOMAIN enc' = DOMAIN enc /\ enc'.mBitrate = enc.mBitrate /\ ~enc'.mStarted
    BY <1>4, <1>6 DEF Released, RateInv, RatePlaces
  <2>2. RatePlaces' /\ Stamps' /\ NowSeen'
    BY <1>2, <1>6, <2>1 DEF RateInv, RatePlaces, Stamps, NowSeen, NoCfg, NotTold
  <2>3. NotYetStarted' /\ ToldIsWritten' /\ epc' \in Places
    BY <1>6, <2>1 DEF NotYetStarted, ToldIsWritten, Places, Setup, Settled
  <2>4. QED
    BY <1>6, <2>2, <2>3 DEF RateInv, RateFollows
<1>7. QED
  BY <1>3, <1>5, <1>6 DEF m

\* An object that is the handled one has its value with MPP already.
LEMMA ReadKeeps == ASSUME RateInv, ReadBitrate PROVE RateInv'
<1>1. /\ UNCHANGED <<params, stamp, enc, mEncCfg, told, seen, failed>>
      /\ epc = "bitrate" /\ bitrate' = stamp
      /\ epc' = IF stamp = enc.mBitrate THEN "input" ELSE "rebitrate"
  BY DEF ReadBitrate
<1>2. RatePlaces' /\ Stamps' /\ NowSeen'
  BY <1>1 DEF RateInv, RatePlaces, Stamps, NowSeen
<1>3. NotYetStarted' /\ ToldIsWritten' /\ epc' \in Places
  BY <1>1 DEF RateInv, NotYetStarted, ToldIsWritten, Places, Setup, Settled
<1>4. RateFollows'
  <2>1. SUFFICES ASSUME epc' = "input", enc'.mStarted, ~failed'
                 PROVE  told'.cfg.target \in seen'
    BY DEF RateFollows
  <2>2. stamp = enc.mBitrate
    BY <1>1, <2>1
  <2>3. enc.mStarted => told.cfg.target = params.bitrate
    BY <1>1, <2>1, <2>2 DEF RateInv, ToldIsWritten, Settled
  <2>4. params.bitrate \in seen
    BY <1>1 DEF RateInv, NowSeen
  <2>5. QED
    BY <1>1, <2>1, <2>3, <2>4
<1>5. QED
  BY <1>1, <1>2, <1>3, <1>4 DEF RateInv

\* Between the locks the value may have become newer than the object.
LEMMA RebitrateKeeps == ASSUME RateInv, Rebitrate PROVE RateInv'
<1>1. /\ UNCHANGED <<params, stamp, enc, told, bitrate, seen, failed>>
      /\ epc = "rebitrate" /\ epc' = "retarget"
      /\ mEncCfg' = IF enc.mStarted THEN setupBitRate(mEncCfg, params) ELSE mEncCfg
  BY DEF Rebitrate, Keyed
<1>2. "target" \in DOMAIN mEncCfg' /\ (enc.mStarted => mEncCfg'.target = params.bitrate)
  BY <1>1, TargetOf DEF RateInv, RatePlaces
<1>3. RatePlaces' /\ Stamps' /\ NowSeen'
  BY <1>1, <1>2 DEF RateInv, RatePlaces, Stamps, NowSeen
<1>4. NotYetStarted' /\ ToldIsWritten' /\ epc' \in Places
  BY <1>1 DEF RateInv, NotYetStarted, ToldIsWritten, Places, Setup, Settled
<1>5. enc'.mStarted => Written(bitrate)'
  BY <1>1, <1>2 DEF RateInv, NowSeen, Written
<1>6. QED
  BY <1>1, <1>3, <1>4, <1>5 DEF RateInv, RateFollows

\* The object that was read is marked as handled, not one that came since.
LEMMA RetargetKeeps == ASSUME RateInv, Retarget PROVE RateInv'
<1>1. /\ UNCHANGED <<params, stamp, mEncCfg, bitrate, seen>>
      /\ epc = "retarget" /\ epc' = "input"
  BY DEF Retarget
<1>2. PICK ok \in BOOLEAN :
        /\ told' = [told EXCEPT !.cfg = IF ok THEN mEncCfg ELSE @]
        /\ enc' = [enc EXCEPT !.mBitrate = Handled(ok)]
        /\ failed' = (failed \/ ~ok)
  BY DEF Retarget, TakesCfg, EncMay
<1>3. /\ DOMAIN enc' = DOMAIN enc /\ DOMAIN told' = DOMAIN told
      /\ enc'.mBitrate = IF ok THEN bitrate ELSE enc.mBitrate
      /\ enc'.mStarted = enc.mStarted
      /\ ok => told'.cfg = mEncCfg
  BY <1>2 DEF Handled, RateInv, RatePlaces
<1>4. RatePlaces' /\ Stamps' /\ NowSeen'
  BY <1>1, <1>3 DEF RateInv, RatePlaces, Stamps, NowSeen
<1>5. NotYetStarted' /\ epc' \in Places
  BY <1>1, <1>3 DEF RateInv, NotYetStarted, Places, Setup, Settled
<1>6. ToldIsWritten'
  <2>1. SUFFICES ASSUME ~failed', enc'.mStarted
                 PROVE  /\ mEncCfg'.target = told'.cfg.target
                        /\ enc'.mBitrate = stamp => told'.cfg.target = params.bitrate
    BY <1>1 DEF ToldIsWritten
  <2>2. told'.cfg = mEncCfg /\ enc'.mBitrate = bitrate
    BY <1>2, <1>3, <2>1
  <2>3. QED
    BY <1>1, <1>3, <2>1, <2>2 DEF RateInv, Written
<1>7. RateFollows'
  <2>1. SUFFICES ASSUME ~failed', enc'.mStarted PROVE told'.cfg.target \in seen'
    BY DEF RateFollows
  <2>2. told'.cfg = mEncCfg
    BY <1>2, <1>3, <2>1
  <2>3. QED
    BY <1>1, <1>3, <2>1, <2>2 DEF RateInv, Written
<1>8. QED
  BY <1>1, <1>4, <1>5, <1>6, <1>7 DEF RateInv

\* A new description of the input takes along the target MPP has.
LEMMA RedescribeKeeps ==
    ASSUME RateInv, NEW prep, NEW hor, NEW ver, NEW fmt, Redescribe(prep, hor, ver, fmt)
    PROVE  /\ DOMAIN enc' = DOMAIN enc /\ DOMAIN told' = DOMAIN told
           /\ DOMAIN mEncCfg' = DOMAIN mEncCfg
           /\ enc'.mBitrate = enc.mBitrate /\ enc'.mStarted = enc.mStarted
           /\ mEncCfg'.target = mEncCfg.target
           /\ told'.cfg \in {told.cfg, mEncCfg'}
           /\ ~failed' => ~failed
<1>1. PICK ok \in BOOLEAN :
        /\ mEncCfg' = Keyed([mEncCfg EXCEPT !.prep = prep])
        /\ told' = [told EXCEPT !.cfg = IF ok THEN mEncCfg' ELSE @]
        /\ enc' = IF ok THEN [enc EXCEPT !.mHorStride = hor, !.mVerStride = ver,
                                         !.mInputMppFmt = fmt]
                  ELSE enc
        /\ failed' = (failed \/ ~ok)
  BY DEF Redescribe, TakesCfg, EncMay
<1>2. DOMAIN mEncCfg' = DOMAIN mEncCfg /\ mEncCfg'.target = mEncCfg.target
  BY <1>1 DEF Keyed, RateInv, RatePlaces
<1>3. DOMAIN told' = DOMAIN told /\ told'.cfg \in {told.cfg, mEncCfg'}
  BY <1>1 DEF RateInv, RatePlaces
<1>4. /\ DOMAIN enc' = DOMAIN enc
      /\ enc'.mBitrate = enc.mBitrate /\ enc'.mStarted = enc.mStarted
  BY <1>1 DEF RateInv, RatePlaces
<1>5. QED
  BY <1>1, <1>2, <1>3, <1>4

\* However the frame is sent, MPP keeps its target.
LEMMA SendKeeps == ASSUME RateInv, SendPicture PROVE RateInv'
<1>1. UNCHANGED <<params, stamp, bitrate, seen>> /\ epc = "input" /\ epc' = "idle"
  BY DEF SendPicture
<1>2. \/ AsBefore
      \/ \E prep, hor, ver, fmt : Redescribe(prep, hor, ver, fmt)
  BY DEF SendPicture, InRgba, InYuv
<1>3. /\ DOMAIN enc' = DOMAIN enc /\ DOMAIN told' = DOMAIN told
      /\ DOMAIN mEncCfg' = DOMAIN mEncCfg
      /\ enc'.mBitrate = enc.mBitrate /\ enc'.mStarted = enc.mStarted
      /\ mEncCfg'.target = mEncCfg.target
      /\ told'.cfg \in {told.cfg, mEncCfg'}
      /\ ~failed' => ~failed
  BY <1>2, RedescribeKeeps DEF AsBefore
<1>4. RatePlaces' /\ Stamps' /\ NowSeen'
  BY <1>1, <1>3 DEF RateInv, RatePlaces, Stamps, NowSeen
<1>5. NotYetStarted' /\ ToldIsWritten' /\ epc' \in Places
  BY <1>1, <1>3 DEF RateInv, NotYetStarted, ToldIsWritten, Places, Setup, Settled
<1>6. QED
  BY <1>1, <1>4, <1>5 DEF RateInv, RateFollows

\* A released encoder has told MPP nothing.
LEMMA EncReleaseKeeps == ASSUME RateInv, EncRelease PROVE RateInv'
<1>1. /\ UNCHANGED <<params, stamp, bitrate, seen, epc>> /\ epc = "idle"
      /\ mEncCfg' = NoCfg /\ told' = NotTold /\ enc' = [enc EXCEPT !.mStarted = FALSE]
  BY DEF EncRelease, Released
<1>2. DOMAIN enc' = DOMAIN enc /\ enc'.mBitrate = enc.mBitrate /\ ~enc'.mStarted
  BY <1>1 DEF RateInv, RatePlaces
<1>3. RatePlaces' /\ Stamps' /\ NowSeen'
  BY <1>1, <1>2 DEF RateInv, RatePlaces, Stamps, NowSeen, NoCfg, NotTold
<1>4. NotYetStarted' /\ ToldIsWritten' /\ epc' \in Places
  BY <1>1, <1>2 DEF NotYetStarted, ToldIsWritten, Places, Setup, Settled
<1>5. QED
  BY <1>1, <1>3, <1>4 DEF RateInv, RateFollows

\* Every step of the encoder keeps the invariant.
LEMMA RateStep ==
    ASSUME RateInv, EncNext \/ UNCHANGED encVars
    PROVE  RateInv'
<1>1. CASE UNCHANGED encVars
  BY <1>1 DEF encVars, RateInv, RatePlaces, Stamps, NowSeen, ToldIsWritten, NotYetStarted,
              Written, RateFollows
<1>2. QED
  BY <1>1, EncConfigureKeeps, EncBeginKeeps, AdoptKeeps, PictureKeeps, BitRateKeeps,
     RestKeeps, ReadKeeps, RebitrateKeeps, RetargetKeeps, SendKeeps, EncReleaseKeeps
     DEF EncNext

-----------------------------------------------------------------------------
(***************************************************************************)
(* The encoder: what the members and the keys hold.                        *)
(***************************************************************************)

Members == {"mCodingType", "mStarted", "mSize", "mBitrate", "mHorStride", "mVerStride",
            "mInputMppFmt", "mCurLayerCount"}
Keys == {"width", "height", "prep", "fps", "target", "level"}
LevelParams == {"size", "frameRate", "bitrate", "profileLevel"}

EncPlaces ==
    /\ LevelParams \subseteq DOMAIN params
    /\ Members \subseteq DOMAIN enc
    /\ Keys \subseteq DOMAIN mEncCfg /\ Keys \subseteq DOMAIN told.cfg
    /\ {"cfg", "ref"} \subseteq DOMAIN told

\* What MPP starts from has the keys.
LEMMA NoCfgKeys == Keys \subseteq DOMAIN NoCfg
  BY DEF NoCfg, Keys

\* The first setups write the size, the strides and the frame rate.
LEMMA PictureWritten ==
    ASSUME NEW m, NEW p
    PROVE  LET c == setupFrameRate(setupSceneMode(setupBaseCodec(NoCfg, m), p), p)
           IN  /\ Keys \subseteq DOMAIN c
               /\ c.width = m.mSize.width /\ c.height = m.mSize.height
               /\ c.prep = Described("YUV420SP", m.mHorStride, m.mVerStride)
               /\ c.fps = IF p.frameRate = 1 THEN 30 ELSE p.frameRate
<1> DEFINE a == setupBaseCodec(NoCfg, m)
           b == setupSceneMode(a, p)
           c == setupFrameRate(b, p)
<1>1. /\ Keys \subseteq DOMAIN a
      /\ a.width = m.mSize.width /\ a.height = m.mSize.height
      /\ a.prep = Described("YUV420SP", m.mHorStride, m.mVerStride)
  BY NoCfgKeys DEF setupBaseCodec, Keys
<1> HIDE DEF a
<1>2. /\ Keys \subseteq DOMAIN b
      /\ b.width = a.width /\ b.height = a.height /\ b.prep = a.prep
  BY <1>1 DEF setupSceneMode, Keys
<1> HIDE DEF b
<1>3. /\ Keys \subseteq DOMAIN c
      /\ c.width = b.width /\ c.height = b.height /\ c.prep = b.prep
      /\ c.fps = IF p.frameRate = 1 THEN 30 ELSE p.frameRate
  BY <1>2 DEF setupFrameRate, Keys
<1>4. QED
  BY <1>1, <1>2, <1>3 DEF a, b

\* setupBitRate writes the bitrate only.
LEMMA BitRateWritten ==
    ASSUME NEW cfg, NEW p, Keys \subseteq DOMAIN cfg
    PROVE  LET c == setupBitRate(cfg, p)
           IN  /\ Keys \subseteq DOMAIN c
               /\ c.width = cfg.width /\ c.height = cfg.height /\ c.prep = cfg.prep
               /\ c.fps = cfg.fps /\ c.level = cfg.level
               /\ c.target = p.bitrate
  BY DEF setupBitRate, Keys

\* The last setups write the level.
LEMMA RestWritten ==
    ASSUME NEW cfg, NEW p, NEW codec, Keys \subseteq DOMAIN cfg
    PROVE  LET c == setupVuiParams(setupQp(setupProfileParams(cfg, p, codec), p, codec), p)
           IN  /\ Keys \subseteq DOMAIN c
               /\ c.width = cfg.width /\ c.height = cfg.height /\ c.prep = cfg.prep
               /\ c.fps = cfg.fps /\ c.target = cfg.target
               /\ codec \in {"AVC", "HEVC"} => c.level = getLevel_l(codec, p)
<1> DEFINE a == setupProfileParams(cfg, p, codec)
           b == setupQp(a, p, codec)
           c == setupVuiParams(b, p)
           Same(x, y) == /\ Keys \subseteq DOMAIN x
                         /\ x.width = y.width /\ x.height = y.height /\ x.prep = y.prep
                         /\ x.fps = y.fps /\ x.target = y.target
<1>1. Same(a, cfg) /\ (codec \in {"AVC", "HEVC"} => a.level = getLevel_l(codec, p))
  BY DEF setupProfileParams, Keys
<1> HIDE DEF a
<1>2. Same(b, a) /\ b.level = a.level
  BY <1>1 DEF setupQp, Keys
<1> HIDE DEF b
<1>3. Same(c, b) /\ c.level = b.level
  BY <1>2 DEF setupVuiParams, Keys
<1>4. QED
  BY <1>1, <1>2, <1>3 DEF a, b

HasLevels(codec) == codec \in {"AVC", "HEVC"}
Structures == {Plain, tsvc4, tsvc3, tsvc2}

\* A new encoder has the members, the parameters and the keys.
LEMMA EncPlacesInit == ASSUME NEW codec, NEW device, EncInit(codec, device) PROVE EncPlaces
<1>1. LevelParams \subseteq DOMAIN DefaultParams(codec)
  BY DEF DefaultParams, LevelParams
<1>2. Members \subseteq DOMAIN EncMembers(codec, getChipName(device).type)
  BY DEF EncMembers, Members
<1>3. {"cfg", "ref"} \subseteq DOMAIN NotTold /\ NotTold.cfg = NoCfg
  BY DEF NotTold
<1>4. QED
  BY <1>1, <1>2, <1>3, NoCfgKeys DEF EncInit, EncPlaces

\* A setter writes its parameter and those that depend on it.
LEMMA ParamsOf ==
    ASSUME NEW codec, NEW p, NEW k, NEW v, LevelParams \subseteq DOMAIN p
    PROVE  LET q == Configured(codec, p, k, v)
           IN  /\ LevelParams \subseteq DOMAIN q
               /\ q.size = IF k = "size" THEN SizeSetter(p.size, v) ELSE p.size
               /\ q.frameRate = IF k = "frameRate" THEN v ELSE p.frameRate
               /\ q.bitrate = IF k = "bitrate" THEN BitrateSetter(v) ELSE p.bitrate
               /\ q.profileLevel =
                     IF k \in LevelParams
                     THEN ProfileLevelSetter(codec, IF k = "profileLevel" THEN v
                                                    ELSE p.profileLevel,
                                             q.size, q.frameRate, q.bitrate)
                     ELSE p.profileLevel
<1> DEFINE s == SetterOf(k, v, p)
           r == [p EXCEPT ![k] = s]
           q == Dependents(codec, r, k)
<1>1. /\ k = "size" => s = SizeSetter(p.size, v)
      /\ k = "bitrate" => s = BitrateSetter(v)
      /\ k \in {"frameRate", "profileLevel"} => s = v
  BY DEF SetterOf
<1> HIDE DEF s
<1>2. /\ LevelParams \subseteq DOMAIN r
      /\ r.size = IF k = "size" THEN s ELSE p.size
      /\ r.frameRate = IF k = "frameRate" THEN s ELSE p.frameRate
      /\ r.bitrate = IF k = "bitrate" THEN s ELSE p.bitrate
      /\ r.profileLevel = IF k = "profileLevel" THEN s ELSE p.profileLevel
  BY DEF LevelParams
<1> HIDE DEF r
<1>3. /\ LevelParams \subseteq DOMAIN q
      /\ q.size = r.size /\ q.frameRate = r.frameRate /\ q.bitrate = r.bitrate
      /\ q.profileLevel = IF k \in LevelParams
                          THEN ProfileLevelSetter(codec, r.profileLevel, r.size, r.frameRate,
                                                  r.bitrate)
                          ELSE r.profileLevel
  BY <1>2 DEF Dependents, LevelParams
<1>4. Configured(codec, p, k, v) = q
  BY DEF Configured, r, s
<1> HIDE DEF q
<1>5. QED
  BY <1>1, <1>2, <1>3, <1>4 DEF LevelParams

\* What the end of initEncoder does.
LEMMA RestIs ==
    ASSUME EncPlaces, SetupRest
    PROVE  /\ epc = "rest" /\ Keys \subseteq DOMAIN mEncCfg' /\ Keys \subseteq DOMAIN told'.cfg
           /\ {"cfg", "ref"} \subseteq DOMAIN told' /\ DOMAIN enc' = DOMAIN enc
           /\ \A k \in Members \ {"mStarted", "mCurLayerCount"} : enc'[k] = enc[k]
           /\ \/ /\ epc' = "bitrate" /\ enc'.mStarted /\ told'.cfg = mEncCfg'
                 /\ mEncCfg'.width = mEncCfg.width /\ mEncCfg'.height = mEncCfg.height
                 /\ mEncCfg'.prep = mEncCfg.prep /\ mEncCfg'.fps = mEncCfg.fps
                 /\ mEncCfg'.target = mEncCfg.target
                 /\ HasLevels(enc.mCodingType)
                       => mEncCfg'.level = getLevel_l(enc.mCodingType, params)
                 /\ told'.ref \in Structures
              \/ epc' = "idle" /\ ~enc'.mStarted /\ told' = NotTold
<1> DEFINE codec == enc.mCodingType
           cfg == setupVuiParams(setupQp(setupProfileParams(mEncCfg, params, codec),
                                         params, codec), params)
<1>1. /\ Keys \subseteq DOMAIN cfg
      /\ cfg.width = mEncCfg.width /\ cfg.height = mEncCfg.height
      /\ cfg.prep = mEncCfg.prep /\ cfg.fps = mEncCfg.fps /\ cfg.target = mEncCfg.target
      /\ HasLevels(codec) => cfg.level = getLevel_l(codec, params)
  BY RestWritten DEF EncPlaces, HasLevels
<1> HIDE DEF cfg
<1>2. PICK layersOk \in EncMay("ref"), headerOk \in EncMay("header"), ok \in EncMay("cfg") :
        LET layers == setupTemporalLayers(layersOk)
            m      == [enc EXCEPT !.mCurLayerCount = layers.count]
        IN  \/ /\ ok
               /\ mEncCfg' = cfg
               /\ told' = [cfg |-> cfg, ref |-> layers.ref,
                           eachIdr |-> setupPrependHeaderSetting(headerOk)]
               /\ enc' = [m EXCEPT !.mStarted = TRUE]
               /\ epc' = "bitrate"
            \/ /\ ~ok
               /\ mEncCfg' = NoCfg /\ told' = NotTold
               /\ enc' = Released(m)
               /\ epc' = "idle"
  BY Zenon DEF SetupRest, cfg
<1> DEFINE layers == setupTemporalLayers(layersOk)
           m == [enc EXCEPT !.mCurLayerCount = layers.count]
<1>3. layers.ref \in Structures
  BY DEF setupTemporalLayers, RefCfg, Structures, Layered
<1>4. DOMAIN m = DOMAIN enc /\ \A k \in Members \ {"mCurLayerCount"} : m[k] = enc[k]
  BY DEF EncPlaces, Members
<1>5. epc = "rest"
  BY DEF SetupRest
<1> HIDE DEF layers, m
<1>6. CASE /\ mEncCfg' = cfg
           /\ told' = [cfg |-> cfg, ref |-> layers.ref,
                       eachIdr |-> setupPrependHeaderSetting(headerOk)]
           /\ enc' = [m EXCEPT !.mStarted = TRUE]
           /\ epc' = "bitrate"
  <2>1. /\ DOMAIN enc' = DOMAIN enc /\ enc'.mStarted
        /\ \A k \in Members \ {"mStarted", "mCurLayerCount"} : enc'[k] = enc[k]
    BY <1>4, <1>6 DEF EncPlaces, Members
  <2>2. told'.cfg = cfg /\ told'.ref = layers.ref /\ {"cfg", "ref"} \subseteq DOMAIN told'
    BY <1>6
  <2>3. QED
    BY <1>1, <1>3, <1>5, <1>6, <2>1, <2>2
<1>7. CASE /\ mEncCfg' = NoCfg /\ told' = NotTold /\ enc' = Released(m) /\ epc' = "idle"
  <2>1. /\ DOMAIN enc' = DOMAIN enc /\ ~enc'.mStarted
        /\ \A k \in Members \ {"mStarted", "mCurLayerCount"} : enc'[k] = enc[k]
    BY <1>4, <1>7 DEF EncPlaces, Members, Released
  <2>2. told'.cfg = NoCfg /\ {"cfg", "ref"} \subseteq DOMAIN told'
    BY <1>7 DEF NotTold
  <2>3. QED
    BY <1>5, <1>7, <2>1, <2>2, NoCfgKeys
<1>8. QED
  BY <1>2, <1>6, <1>7 DEF layers, m

\* A new description of the input, if MPP takes it.
LEMMA RedescribeIs ==
    ASSUME EncPlaces, NEW prep, NEW hor, NEW ver, NEW fmt, Redescribe(prep, hor, ver, fmt)
    PROVE  /\ Keys \subseteq DOMAIN mEncCfg' /\ Keys \subseteq DOMAIN told'.cfg
           /\ {"cfg", "ref"} \subseteq DOMAIN told' /\ told'.ref = told.ref
           /\ DOMAIN enc' = DOMAIN enc
           /\ \A k \in Members \ {"mHorStride", "mVerStride", "mInputMppFmt"} : enc'[k] = enc[k]
           /\ \A k \in Keys \ {"prep"} : mEncCfg'[k] = mEncCfg[k]
           /\ enc.mStarted => mEncCfg'.prep = prep
           /\ \/ /\ told'.cfg = mEncCfg' /\ enc'.mHorStride = hor /\ enc'.mVerStride = ver
                 /\ enc'.mInputMppFmt = fmt /\ (failed' <=> failed)
              \/ told'.cfg = told.cfg /\ enc' = enc /\ failed'
<1>1. PICK ok \in BOOLEAN :
        /\ mEncCfg' = Keyed([mEncCfg EXCEPT !.prep = prep])
        /\ told' = [told EXCEPT !.cfg = IF ok THEN mEncCfg' ELSE @]
        /\ enc' = IF ok THEN [enc EXCEPT !.mHorStride = hor, !.mVerStride = ver,
                                         !.mInputMppFmt = fmt]
                  ELSE enc
        /\ failed' = (failed \/ ~ok)
  BY DEF Redescribe, TakesCfg, EncMay
<1>2. /\ Keys \subseteq DOMAIN mEncCfg' /\ (enc.mStarted => mEncCfg'.prep = prep)
      /\ \A k \in Keys \ {"prep"} : mEncCfg'[k] = mEncCfg[k]
  BY <1>1 DEF Keyed, EncPlaces, Keys
<1>3. /\ {"cfg", "ref"} \subseteq DOMAIN told' /\ told'.ref = told.ref
      /\ told'.cfg = IF ok THEN mEncCfg' ELSE told.cfg
  BY <1>1 DEF EncPlaces
<1>4. CASE ok
  <2>1. /\ DOMAIN enc' = DOMAIN enc
        /\ \A k \in Members \ {"mHorStride", "mVerStride", "mInputMppFmt"} : enc'[k] = enc[k]
        /\ enc'.mHorStride = hor /\ enc'.mVerStride = ver /\ enc'.mInputMppFmt = fmt
    BY <1>1, <1>4 DEF EncPlaces, Members
  <2>2. failed' <=> failed
    BY <1>1, <1>4 DEF EncPlaces
  <2>3. QED
    BY <1>2, <1>3, <1>4, <2>1, <2>2
<1>5. CASE ~ok
  BY <1>1, <1>2, <1>3, <1>5 DEF EncPlaces
<1>6. QED
  BY <1>4, <1>5

\* However a frame is sent.
LEMMA SendIs ==
    ASSUME EncPlaces, SendPicture
    PROVE  /\ Keys \subseteq DOMAIN mEncCfg' /\ Keys \subseteq DOMAIN told'.cfg
           /\ {"cfg", "ref"} \subseteq DOMAIN told' /\ told'.ref = told.ref
           /\ DOMAIN enc' = DOMAIN enc
           /\ \A k \in Members \ {"mHorStride", "mVerStride", "mInputMppFmt"} : enc'[k] = enc[k]
           /\ \A k \in Keys \ {"prep"} : mEncCfg'[k] = mEncCfg[k]
           /\ \/ \A k \in Keys \ {"prep"} : told'.cfg[k] = told.cfg[k]
              \/ \A k \in Keys \ {"prep"} : told'.cfg[k] = mEncCfg[k]
<1>1. CASE AsBefore
  BY <1>1 DEF AsBefore, EncPlaces
<1>2. CASE \E prep, hor, ver, fmt : Redescribe(prep, hor, ver, fmt)
  <2>1. PICK prep, hor, ver, fmt : Redescribe(prep, hor, ver, fmt)
    BY <1>2
  <2>2. /\ Keys \subseteq DOMAIN mEncCfg' /\ Keys \subseteq DOMAIN told'.cfg
        /\ {"cfg", "ref"} \subseteq DOMAIN told' /\ told'.ref = told.ref
        /\ DOMAIN enc' = DOMAIN enc
        /\ \A k \in Members \ {"mHorStride", "mVerStride", "mInputMppFmt"} : enc'[k] = enc[k]
        /\ \A k \in Keys \ {"prep"} : mEncCfg'[k] = mEncCfg[k]
        /\ told'.cfg = mEncCfg' \/ told'.cfg = told.cfg
    BY <2>1, RedescribeIs DEF EncPlaces
  <2>3. QED
    BY <2>2
<1>3. QED
  BY <1>1, <1>2 DEF SendPicture, InRgba, InYuv

\* The members, the parameters and the keys stay.
LEMMA EncPlacesStep == ASSUME EncPlaces, EncNext \/ UNCHANGED encVars PROVE EncPlaces'
<1>1. ASSUME NEW k, NEW v, EncConfigure(k, v) PROVE EncPlaces'
  <2>1. LevelParams \subseteq DOMAIN params'
    BY <1>1, ParamsOf DEF EncConfigure, EncPlaces
  <2>2. QED
    BY <1>1, <2>1 DEF EncConfigure, EncPlaces
<1>2. ASSUME NEW f, EncBegin(f) PROVE EncPlaces'
  BY <1>2 DEF EncBegin, EncPlaces
<1>3. CASE CreateMpp \/ AllocFails
  <2>1. DOMAIN enc' = DOMAIN enc /\ told' = NotTold /\ UNCHANGED <<params, mEncCfg>>
    BY <1>3, AdoptIs
  <2>2. QED
    BY <2>1, NoCfgKeys DEF EncPlaces, NotTold
<1>4. CASE SetupPicture
  <2>1. Keys \subseteq DOMAIN mEncCfg' /\ UNCHANGED <<params, enc, told>>
    BY <1>4, PictureWritten DEF SetupPicture
  <2>2. QED
    BY <2>1 DEF EncPlaces
<1>5. CASE SetupBitRate \/ Rebitrate
  <2>1. Keys \subseteq DOMAIN mEncCfg' /\ UNCHANGED <<params, enc, told>>
    BY <1>5, BitRateWritten DEF SetupBitRate, Rebitrate, Keyed, EncPlaces
  <2>2. QED
    BY <2>1 DEF EncPlaces
<1>6. CASE SetupRest
  <2>1. UNCHANGED params
    BY <1>6 DEF SetupRest
  <2>2. QED
    BY <1>6, <2>1, RestIs DEF EncPlaces
<1>7. CASE ReadBitrate
  BY <1>7 DEF ReadBitrate, EncPlaces
<1>8. CASE Retarget
  <2>1. PICK ok \in BOOLEAN : /\ told' = [told EXCEPT !.cfg = IF ok THEN mEncCfg ELSE @]
                              /\ enc' = [enc EXCEPT !.mBitrate = Handled(ok)]
    BY <1>8 DEF Retarget, TakesCfg, EncMay
  <2>2. /\ DOMAIN told' = DOMAIN told /\ told'.cfg \in {mEncCfg, told.cfg}
        /\ DOMAIN enc' = DOMAIN enc
    BY <2>1 DEF EncPlaces
  <2>3. UNCHANGED <<params, mEncCfg>>
    BY <1>8 DEF Retarget
  <2>4. QED
    BY <2>2, <2>3 DEF EncPlaces
<1>9. CASE SendPicture
  <2>1. UNCHANGED params
    BY <1>9 DEF SendPicture
  <2>2. QED
    BY <1>9, <2>1, SendIs DEF EncPlaces
<1>10. CASE EncRelease
  <2>1. /\ DOMAIN enc' = DOMAIN enc /\ told' = NotTold /\ mEncCfg' = NoCfg
        /\ UNCHANGED params
    BY <1>10 DEF EncRelease, Released
  <2>2. QED
    BY <2>1, NoCfgKeys DEF EncPlaces, NotTold
<1>11. CASE UNCHANGED encVars
  BY <1>11 DEF encVars, EncPlaces
<1>12. QED
  BY <1>1, <1>2, <1>3, <1>4, <1>5, <1>6, <1>7, <1>8, <1>9, <1>10, <1>11 DEF EncNext

-----------------------------------------------------------------------------
(***************************************************************************)
(* The encoder: the invariant behind InputDescribed.                       *)
(***************************************************************************)

\* MPP has been set up and not been released.
Running ==
    /\ epc \in {"idle", "bitrate", "rebitrate", "retarget", "input"}
    /\ enc.mStarted

\* The strides of the members, the description that is written and the one MPP
\* has are one: while no control failed and no RGBA picture was taken as it is.
PrepWritten ==
    ~failed /\ enc.mInputMppFmt = "YUV420SP" =>
        /\ epc \in {"bitRate", "rest"} \/ Running =>
              mEncCfg.prep = Described("YUV420SP", enc.mHorStride, enc.mVerStride)
        /\ Running => told.cfg.prep = mEncCfg.prep

InputInv ==
    /\ PrepWritten
    /\ epc # "idle" => sent = NotSent /\ picture \in Pictures
    /\ InputDescribed

\* A frame in the memory of its picture, described by it.
LEMMA NativeDescribed ==
    ASSUME NEW f \in Pictures, f.layout = "YUV420SP", f.pitch # 0
    PROVE  Described(f.layout, IF f.layout = "RGBA8888" THEN f.pitch * 4 ELSE f.pitch, f.height)
           = Described("YUV420SP", StrideOf(f), f.height)
<1>1. StrideOf(f) = f.pitch
  BY EncConfigAssumption DEF StrideOf
<1>2. QED
  BY <1>1

\* A picture that is taken as it is: MPP and the members adopt its strides.
LEMMA YuvKeeps ==
    ASSUME EncPlaces, PrepWritten, enc.mStarted,
           epc = "input", epc' = "idle", picture \in Pictures,
           picture' = picture, picture.layout = "YUV420SP",
           InYuv(picture),
           PutFrame(Described(picture.layout, IF picture.layout = "RGBA8888"
                                              THEN picture.pitch * 4 ELSE picture.pitch,
                              picture.height))
    PROVE  PrepWritten' /\ InputDescribed'
<1> DEFINE f == picture
           mine == Described("YUV420SP", enc.mHorStride, enc.mVerStride)
           its == Described("YUV420SP", StrideOf(f), f.height)
           native == Described(f.layout, IF f.layout = "RGBA8888" THEN f.pitch * 4 ELSE f.pitch,
                               f.height)
           now == Described("YUV420SP", enc'.mHorStride, enc'.mVerStride)
<1>1. ~failed /\ enc.mInputMppFmt = "YUV420SP"
      => mEncCfg.prep = mine /\ told.cfg.prep = mine
  BY DEF PrepWritten, Running
<1>2. ASSUME ~failed', enc'.mInputMppFmt = "YUV420SP"
      PROVE  /\ mEncCfg'.prep = now /\ told'.cfg.prep = now
             /\ enc'.mHorStride = StrideOf(f) /\ enc'.mVerStride = f.height
  <2>1. CASE enc.mHorStride # StrideOf(f) \/ enc.mVerStride # f.height
    <3> DEFINE prep == [mEncCfg.prep EXCEPT !.hor = StrideOf(f), !.ver = f.height]
    <3>1. Redescribe(prep, StrideOf(f), f.height, enc.mInputMppFmt)
      BY <2>1 DEF InYuv
    <3> HIDE DEF prep
    <3>2. /\ mEncCfg'.prep = prep /\ told'.cfg = mEncCfg'
          /\ enc'.mHorStride = StrideOf(f) /\ enc'.mVerStride = f.height
          /\ enc'.mInputMppFmt = enc.mInputMppFmt /\ ~failed
      BY <1>2, <3>1, RedescribeIs
    <3>3. prep = its
      <4> DEFINE r == mEncCfg.prep
      <4>1. DOMAIN r = {"fmt", "hor", "ver"} /\ r.fmt = "YUV420SP"
        BY <1>1, <1>2, <3>2 DEF Described
      <4> HIDE DEF r
      <4>2. /\ prep = [k \in DOMAIN r |-> prep[k]]
            /\ prep.fmt = r.fmt /\ prep.hor = StrideOf(f) /\ prep.ver = f.height
        BY <4>1 DEF prep, r
      <4>3. prep = [fmt |-> "YUV420SP", hor |-> StrideOf(f), ver |-> f.height]
        BY <4>1, <4>2
      <4>4. QED
        BY <4>3 DEF Described
    <3>4. QED
      BY <3>2, <3>3
  <2>2. CASE ~(enc.mHorStride # StrideOf(f) \/ enc.mVerStride # f.height)
    <3>1. UNCHANGED <<mEncCfg, told, enc, failed>>
      BY <2>2 DEF InYuv, AsBefore
    <3>2. QED
      BY <1>1, <1>2, <2>2, <3>1
  <2>3. QED
    BY <2>1, <2>2
<1>3. PrepWritten'
  BY <1>2 DEF PrepWritten
<1>4. sent' = [memory |-> native, attr |-> FrameAttr(enc'), prep |-> told'.cfg.prep]
  BY DEF PutFrame
<1>5. ASSUME ~failed', enc'.mInputMppFmt = "YUV420SP", f.pitch # 0
      PROVE  sent'.attr = sent'.memory /\ sent'.prep = sent'.memory
  <2>1. native = its
    BY <1>5, NativeDescribed
  <2>2. FrameAttr(enc') = now
    BY <1>5 DEF FrameAttr
  <2> HIDE DEF native
  <2>3. QED
    BY <1>2, <1>4, <1>5, <2>1, <2>2
<1>6. InputDescribed'
  BY <1>5 DEF InputDescribed
<1>7. QED
  BY <1>3, <1>6

\* A picture that is converted: it has the strides of now.
LEMMA ConvertedKeeps ==
    ASSUME PrepWritten, enc.mStarted, epc = "input", epc' = "idle",
           UNCHANGED <<picture, mEncCfg, told, enc, failed>>,
           sent' = NotSent \/ PutFrame(Temporary)
    PROVE  PrepWritten' /\ InputDescribed'
<1>1. PrepWritten'
  BY DEF PrepWritten, Running
<1>2. CASE sent' = NotSent
  BY <1>1, <1>2 DEF InputDescribed
<1>3. CASE PutFrame(Temporary)
  <2>1. sent' = [memory |-> Temporary, attr |-> FrameAttr(enc'), prep |-> told'.cfg.prep]
    BY <1>3 DEF PutFrame
  <2>2. ASSUME ~failed', enc'.mInputMppFmt = "YUV420SP"
        PROVE  FrameAttr(enc') = Temporary /\ told'.cfg.prep = Temporary
    <3>1. told.cfg.prep = Described("YUV420SP", enc.mHorStride, enc.mVerStride)
      BY <2>2 DEF PrepWritten, Running
    <3>2. FrameAttr(enc) = Described("YUV420SP", enc.mHorStride, enc.mVerStride)
      BY <2>2 DEF FrameAttr
    <3>3. QED
      BY <3>1, <3>2 DEF Temporary
  <2>3. InputDescribed'
    BY <2>1, <2>2 DEF InputDescribed
  <2>4. QED
    BY <1>1, <2>3
<1>4. QED
  BY <1>2, <1>3

\* A frame is sent as it is described, taken as it is or converted.
LEMMA InputSend == ASSUME EncPlaces, InputInv, SendPicture PROVE InputInv'
<1> DEFINE f == picture
           native == Described(f.layout, IF f.layout = "RGBA8888" THEN f.pitch * 4 ELSE f.pitch,
                               f.height)
<1>1. /\ epc = "input" /\ epc' = "idle" /\ picture' = picture /\ PrepWritten
      /\ picture \in Pictures
  BY DEF SendPicture, InputInv
<1>2. CASE ~enc.mStarted
  <2>1. sent' = NotSent
    BY <1>2 DEF SendPicture, Converted, PutFrame, PutNothing
  <2>2. ~enc'.mStarted
    BY <1>2, SendIs DEF Members
  <2>3. QED
    BY <1>1, <2>1, <2>2 DEF InputInv, PrepWritten, Running, InputDescribed
<1>3. SUFFICES ASSUME enc.mStarted PROVE InputInv'
  BY <1>2
<1>4. \/ f.layout = "RGBA8888" /\ InRgba(f) /\ PutFrame(native)
      \/ f.layout = "YUV420SP" /\ InYuv(f) /\ PutFrame(native)
      \/ AsBefore /\ Converted(f)
      \/ AsBefore /\ sent' = NotSent
  BY DEF SendPicture, PutNothing
<1>5. CASE f.layout = "RGBA8888" /\ InRgba(f) /\ PutFrame(native)
  <2>1. enc'.mInputMppFmt # "YUV420SP" \/ failed'
    <3>1. CASE enc.mInputMppFmt # "RGBA8888"
      <4>1. Redescribe(Described("RGBA8888", enc.mHorStride * 4, enc.mVerStride),
                       enc.mHorStride, enc.mVerStride, "RGBA8888")
        BY <1>5, <3>1 DEF InRgba
      <4>2. QED
        BY <4>1, RedescribeIs
    <3>2. CASE enc.mInputMppFmt = "RGBA8888"
      BY <1>5, <3>2 DEF InRgba, AsBefore
    <3>3. QED
      BY <3>1, <3>2
  <2>2. PrepWritten' /\ InputDescribed'
    BY <2>1 DEF PrepWritten, InputDescribed
  <2>3. QED
    BY <1>1, <2>2 DEF InputInv
<1>6. CASE f.layout = "YUV420SP" /\ InYuv(f) /\ PutFrame(native)
  BY <1>1, <1>3, <1>6, YuvKeeps DEF InputInv
<1>7. CASE AsBefore /\ Converted(f)
  <2>1. sent' = NotSent \/ PutFrame(Temporary)
    BY <1>7 DEF Converted, PutNothing
  <2>2. QED
    BY <1>1, <1>3, <1>7, <2>1, ConvertedKeeps DEF InputInv, AsBefore
<1>8. CASE AsBefore /\ sent' = NotSent
  BY <1>1, <1>3, <1>8, ConvertedKeeps DEF InputInv, AsBefore
<1>9. QED
  BY <1>4, <1>5, <1>6, <1>7, <1>8

\* A new encoder has sent nothing.
LEMMA InputInit == ASSUME NEW codec, NEW device, EncInit(codec, device) PROVE InputInv
<1>1. ~enc.mStarted /\ epc = "idle" /\ sent = NotSent
  BY DEF EncInit, EncMembers
<1>2. QED
  BY <1>1 DEF InputInv, PrepWritten, Running, InputDescribed

\* Every step of the encoder keeps the invariant.
LEMMA InputStep ==
    ASSUME RateInv, EncPlaces, InputInv, EncNext \/ UNCHANGED encVars
    PROVE  InputInv'
<1>1. ASSUME NEW k, NEW v, EncConfigure(k, v) PROVE InputInv'
  BY <1>1 DEF EncConfigure, InputInv, PrepWritten, Running, InputDescribed
<1>2. ASSUME NEW f \in Pictures, EncBegin(f) PROVE InputInv'
  BY <1>2 DEF EncBegin, InputInv, PrepWritten, Running, InputDescribed
<1>3. CASE CreateMpp \/ AllocFails
  <2>1. ~enc.mStarted
    BY <1>3, AdoptIs DEF RateInv, NotYetStarted, Setup
  <2>2. /\ ~enc'.mStarted /\ epc' \in {"frameRate", "idle", "bitrate"}
        /\ sent' = NotSent /\ picture' \in Pictures
    BY <1>3, <2>1, AdoptIs DEF EncPlaces, Members, InputInv
  <2>3. QED
    BY <2>2 DEF InputInv, PrepWritten, Running, InputDescribed
<1>4. CASE SetupPicture
  <2>1. mEncCfg'.prep = Described("YUV420SP", enc.mHorStride, enc.mVerStride)
    BY <1>4, PictureWritten DEF SetupPicture
  <2>2. QED
    BY <1>4, <2>1 DEF SetupPicture, InputInv, PrepWritten, Running, InputDescribed
<1>5. CASE SetupBitRate \/ Rebitrate
  <2>1. mEncCfg'.prep = mEncCfg.prep
    BY <1>5, BitRateWritten DEF SetupBitRate, Rebitrate, Keyed, EncPlaces
  <2>2. CASE SetupBitRate
    BY <2>1, <2>2 DEF SetupBitRate, InputInv, PrepWritten, Running, InputDescribed
  <2>3. CASE Rebitrate
    BY <2>1, <2>3 DEF Rebitrate, InputInv, PrepWritten, Running, InputDescribed
  <2>4. QED
    BY <1>5, <2>2, <2>3
<1>6. CASE SetupRest
  <2>1. /\ enc'.mHorStride = enc.mHorStride /\ enc'.mVerStride = enc.mVerStride
        /\ enc'.mInputMppFmt = enc.mInputMppFmt
    BY <1>6, RestIs DEF Members
  <2>2. UNCHANGED <<picture, sent, failed>> /\ epc = "rest"
    BY <1>6 DEF SetupRest
  <2>3. \/ epc' = "bitrate" /\ told'.cfg = mEncCfg' /\ mEncCfg'.prep = mEncCfg.prep
        \/ epc' = "idle" /\ ~enc'.mStarted
    BY <1>6, RestIs
  <2>4. sent' = NotSent /\ picture' \in Pictures
    BY <2>2 DEF InputInv
  <2>5. PrepWritten'
    BY <2>1, <2>2, <2>3 DEF InputInv, PrepWritten, Running
  <2>6. QED
    BY <2>4, <2>5 DEF InputInv, InputDescribed
<1>7. CASE ReadBitrate
  BY <1>7 DEF ReadBitrate, InputInv, PrepWritten, Running, InputDescribed
<1>8. CASE Retarget
  <2>1. PICK ok \in BOOLEAN : /\ told' = [told EXCEPT !.cfg = IF ok THEN mEncCfg ELSE @]
                              /\ enc' = [enc EXCEPT !.mBitrate = Handled(ok)]
                              /\ failed' = (failed \/ ~ok)
    BY <1>8 DEF Retarget, TakesCfg, EncMay
  <2>2. /\ enc'.mHorStride = enc.mHorStride /\ enc'.mVerStride = enc.mVerStride
        /\ enc'.mInputMppFmt = enc.mInputMppFmt /\ enc'.mStarted = enc.mStarted
    BY <2>1 DEF EncPlaces, Members
  <2>3. ~failed' => told'.cfg = mEncCfg /\ ~failed
    BY <2>1 DEF EncPlaces
  <2>4. UNCHANGED <<mEncCfg, picture, sent>> /\ epc = "retarget" /\ epc' = "input"
    BY <1>8 DEF Retarget
  <2>5. sent' = NotSent /\ picture' \in Pictures
    BY <2>4 DEF InputInv
  <2>6. PrepWritten'
    BY <2>2, <2>3, <2>4 DEF InputInv, PrepWritten, Running
  <2>7. QED
    BY <2>5, <2>6 DEF InputInv, InputDescribed
<1>9. CASE SendPicture
  BY <1>9, InputSend
<1>10. CASE EncRelease
  <2>1. ~enc'.mStarted /\ sent' = NotSent /\ epc' = "idle"
    BY <1>10 DEF EncRelease, Released, EncPlaces, Members
  <2>2. QED
    BY <2>1 DEF InputInv, PrepWritten, Running, InputDescribed
<1>11. CASE UNCHANGED encVars
  BY <1>11 DEF encVars, InputInv, PrepWritten, Running, InputDescribed
<1>12. QED
  BY <1>1, <1>2, <1>3, <1>4, <1>5, <1>6, <1>7, <1>8, <1>9, <1>10, <1>11 DEF EncNext

-----------------------------------------------------------------------------
(***************************************************************************)
(* The encoder: the invariant behind LayersDecodable.                      *)
(***************************************************************************)

RefsAt(i, prev, lt) == [pos |-> i, prevRef |-> prev, prevLt |-> lt, layer0 |-> 0]

\* Where MPP is in a structure, and what its references are there.
ReachedIn(cfg) ==
    CASE cfg = tsvc4 -> {RefsAt(i, 0, 0) : i \in {1, 2}} \cup {RefsAt(i, 2, 0) : i \in {3, 4}}
                        \cup {RefsAt(i, 1, 0) : i \in {5, 6}} \cup {RefsAt(i, 2, 0) : i \in {7, 8}}
      [] cfg = tsvc3 -> {RefsAt(i, 0, None) : i \in {1, 2}} \cup {RefsAt(i, 1, None) : i \in {3, 4}}
      [] cfg = tsvc2 -> {RefsAt(i, 0, None) : i \in {1, 2}}
      [] OTHER -> {RefsAt(1, 0, None)}

LayersInv ==
    /\ told.ref \in Structures
    /\ epc \in {"frameRate", "bitRate", "rest"} => refs = NoRefs
    /\ refs = NoRefs \/ refs \in ReachedIn(told.ref)

\* The structures are of different lengths.
LEMMA StructuresDiffer ==
    /\ Len(tsvc4.st) = 9 /\ Len(tsvc3.st) = 5 /\ Len(tsvc2.st) = 3 /\ Len(Plain.st) = 2
    /\ tsvc4 # tsvc3 /\ tsvc4 # tsvc2 /\ tsvc3 # tsvc2
    /\ Plain \notin {tsvc4, tsvc3, tsvc2}
<1>1. Len(tsvc4.st) = 9 /\ Len(tsvc3.st) = 5 /\ Len(tsvc2.st) = 3 /\ Len(Plain.st) = 2
  BY DEF tsvc4, tsvc3, tsvc2, Plain
<1>2. QED
  BY <1>1

\* Four layers, frame by frame.
LEMMA FourLayers ==
    ASSUME NEW r, r = NoRefs \/ r \in ReachedIn(tsvc4)
    PROVE  /\ Referred(tsvc4, r) \in ReachedIn(tsvc4)
           /\ r.pos > 0 => ReferredTid(tsvc4, r) \in 0 .. TidAt(tsvc4, r)
<1>0. ReachedIn(tsvc4) =
         {RefsAt(1, 0, 0), RefsAt(2, 0, 0), RefsAt(3, 2, 0), RefsAt(4, 2, 0),
          RefsAt(5, 1, 0), RefsAt(6, 1, 0), RefsAt(7, 2, 0), RefsAt(8, 2, 0)}
  BY StructuresDiffer DEF ReachedIn
<1> USE DEF Referred, ReferredTid, TidAt, EntryAt, IsLongTerm, tsvc4, St, RefsAt, None, NoRefs
<1>1. CASE r = NoRefs
  BY <1>0, <1>1
<1>2. CASE r = RefsAt(1, 0, 0)
  BY <1>0, <1>2
<1>3. CASE r = RefsAt(2, 0, 0)
  BY <1>0, <1>3
<1>4. CASE r = RefsAt(3, 2, 0)
  BY <1>0, <1>4
<1>5. CASE r = RefsAt(4, 2, 0)
  BY <1>0, <1>5
<1>6. CASE r = RefsAt(5, 1, 0)
  BY <1>0, <1>6
<1>7. CASE r = RefsAt(6, 1, 0)
  BY <1>0, <1>7
<1>8. CASE r = RefsAt(7, 2, 0)
  BY <1>0, <1>8
<1>9. CASE r = RefsAt(8, 2, 0)
  BY <1>0, <1>9
<1> HIDE DEF Referred, ReferredTid, TidAt, tsvc4, RefsAt, NoRefs
<1>10. QED
  BY <1>0, <1>1, <1>2, <1>3, <1>4, <1>5, <1>6, <1>7, <1>8, <1>9

\* Three layers.
LEMMA ThreeLayers ==
    ASSUME NEW r, r = NoRefs \/ r \in ReachedIn(tsvc3)
    PROVE  /\ Referred(tsvc3, r) \in ReachedIn(tsvc3)
           /\ r.pos > 0 => ReferredTid(tsvc3, r) \in 0 .. TidAt(tsvc3, r)
<1>0. ReachedIn(tsvc3) =
         {RefsAt(1, 0, None), RefsAt(2, 0, None), RefsAt(3, 1, None),
          RefsAt(4, 1, None)}
  BY StructuresDiffer DEF ReachedIn
<1> USE DEF Referred, ReferredTid, TidAt, EntryAt, IsLongTerm, tsvc3, St, RefsAt, None, NoRefs
<1>1. CASE r = NoRefs
  BY <1>0, <1>1
<1>2. CASE r = RefsAt(1, 0, None)
  BY <1>0, <1>2
<1>3. CASE r = RefsAt(2, 0, None)
  BY <1>0, <1>3
<1>4. CASE r = RefsAt(3, 1, None)
  BY <1>0, <1>4
<1>5. CASE r = RefsAt(4, 1, None)
  BY <1>0, <1>5
<1> HIDE DEF Referred, ReferredTid, TidAt, tsvc3, RefsAt, NoRefs
<1>6. QED
  BY <1>0, <1>1, <1>2, <1>3, <1>4, <1>5

\* Two layers.
LEMMA TwoLayers ==
    ASSUME NEW r, r = NoRefs \/ r \in ReachedIn(tsvc2)
    PROVE  /\ Referred(tsvc2, r) \in ReachedIn(tsvc2)
           /\ r.pos > 0 => ReferredTid(tsvc2, r) \in 0 .. TidAt(tsvc2, r)
<1>0. ReachedIn(tsvc2) =
         {RefsAt(1, 0, None), RefsAt(2, 0, None)}
  BY StructuresDiffer DEF ReachedIn
<1> USE DEF Referred, ReferredTid, TidAt, EntryAt, IsLongTerm, tsvc2, St, RefsAt, None, NoRefs
<1>1. CASE r = NoRefs
  BY <1>0, <1>1
<1>2. CASE r = RefsAt(1, 0, None)
  BY <1>0, <1>2
<1>3. CASE r = RefsAt(2, 0, None)
  BY <1>0, <1>3
<1> HIDE DEF Referred, ReferredTid, TidAt, tsvc2, RefsAt, NoRefs
<1>4. QED
  BY <1>0, <1>1, <1>2, <1>3

\* No structure.
LEMMA NoLayers ==
    ASSUME NEW r, r = NoRefs \/ r \in ReachedIn(Plain)
    PROVE  /\ Referred(Plain, r) \in ReachedIn(Plain)
           /\ r.pos > 0 => ReferredTid(Plain, r) \in 0 .. TidAt(Plain, r)
<1>0. ReachedIn(Plain) =
         {RefsAt(1, 0, None)}
  BY StructuresDiffer DEF ReachedIn
<1> USE DEF Referred, ReferredTid, TidAt, EntryAt, IsLongTerm, Plain, St, RefsAt, None, NoRefs
<1>1. CASE r = NoRefs
  BY <1>0, <1>1
<1>2. CASE r = RefsAt(1, 0, None)
  BY <1>0, <1>2
<1> HIDE DEF Referred, ReferredTid, TidAt, Plain, RefsAt, NoRefs
<1>3. QED
  BY <1>0, <1>1, <1>2

\* Wherever MPP is, the next frame is encoded from there or from an IDR.
LEMMA Encoded ==
    ASSUME NEW cfg \in Structures, NEW r, r = NoRefs \/ r \in ReachedIn(cfg)
    PROVE  /\ Referred(cfg, r) \in ReachedIn(cfg)
           /\ r.pos > 0 => ReferredTid(cfg, r) \in 0 .. TidAt(cfg, r)
  BY FourLayers, ThreeLayers, TwoLayers, NoLayers DEF Structures

\* The invariant is enough: at the IDR nothing is referred to.
LEMMA LayersEnough == ASSUME LayersInv PROVE LayersDecodable
  BY Encoded DEF LayersInv, LayersDecodable

\* A new encoder has no structure.
LEMMA LayersInit == ASSUME NEW codec, NEW device, EncInit(codec, device) PROVE LayersInv
  BY DEF EncInit, LayersInv, NotTold, Structures

\* Every step of the encoder keeps the invariant.
LEMMA LayersStep ==
    ASSUME EncPlaces, LayersInv, EncNext \/ UNCHANGED encVars
    PROVE  LayersInv'
<1>1. ASSUME NEW k, NEW v, EncConfigure(k, v) PROVE LayersInv'
  BY <1>1 DEF EncConfigure, LayersInv
<1>2. ASSUME NEW f \in Pictures, EncBegin(f) PROVE LayersInv'
  BY <1>2 DEF EncBegin, LayersInv
<1>3. CASE CreateMpp \/ AllocFails
  BY <1>3, AdoptIs DEF LayersInv, NotTold, Structures
<1>4. CASE SetupPicture
  BY <1>4 DEF SetupPicture, LayersInv
<1>5. CASE SetupBitRate \/ Rebitrate \/ ReadBitrate
  BY <1>5 DEF SetupBitRate, Rebitrate, ReadBitrate, LayersInv
<1>6. CASE SetupRest
  <2>1. UNCHANGED refs /\ refs = NoRefs
    BY <1>6 DEF SetupRest, LayersInv
  <2>2. told'.ref \in Structures /\ epc' \in {"bitrate", "idle"}
    BY <1>6, RestIs DEF NotTold, Structures
  <2>3. QED
    BY <2>1, <2>2 DEF LayersInv
<1>7. CASE Retarget
  <2>1. PICK cfg : told' = [told EXCEPT !.cfg = cfg]
    BY <1>7 DEF Retarget
  <2>2. told'.ref = told.ref
    BY <2>1 DEF EncPlaces
  <2>3. UNCHANGED refs /\ epc' = "input"
    BY <1>7 DEF Retarget
  <2>4. QED
    BY <2>2, <2>3 DEF LayersInv
<1>8. CASE SendPicture
  <2>1. told'.ref = told.ref /\ epc' = "idle"
    BY <1>8, SendIs DEF SendPicture
  <2>2. UNCHANGED refs \/ MppEncodes
    BY <1>8 DEF SendPicture, Converted, PutFrame, PutNothing
  <2>3. refs' = NoRefs \/ refs' \in ReachedIn(told.ref)
    BY <2>1, <2>2, Encoded DEF MppEncodes, LayersInv
  <2>4. QED
    BY <2>1, <2>3 DEF LayersInv
<1>9. CASE EncRelease
  BY <1>9 DEF EncRelease, LayersInv, NotTold, Structures
<1>10. CASE UNCHANGED encVars
  BY <1>10 DEF encVars, LayersInv
<1>11. QED
  BY <1>1, <1>2, <1>3, <1>4, <1>5, <1>6, <1>7, <1>8, <1>9, <1>10 DEF EncNext

-----------------------------------------------------------------------------
(***************************************************************************)
(* The encoder: the tables of levels.                                      *)
(***************************************************************************)

\* A table of at most 20 rows has a first one with any property.
LEMMA FirstRow ==
    ASSUME NEW rows \in SUBSET (1 .. 20), rows # {}
    PROVE  \E i \in rows : \A j \in rows : i <= j
<1> DEFINE Below(n) == \A j \in rows : n <= j
<1>1. SUFFICES ASSUME \A i \in rows : ~Below(i) PROVE FALSE
  OBVIOUS
<1>2. Below(1)
  OBVIOUS
<1>3. \A n \in 1 .. 20 : Below(n) => Below(n + 1)
  <2> SUFFICES ASSUME NEW n \in 1 .. 20, Below(n), NEW j \in rows PROVE n + 1 <= j
    OBVIOUS
  <2>1. n # j
    BY <1>1
  <2>2. QED
    BY <2>1
<1> HIDE DEF Below
<1>4. Below(6)
  BY <1>2, <1>3
<1>5. Below(11)
  BY <1>3, <1>4
<1>6. Below(16)
  BY <1>3, <1>5
<1>7. Below(21)
  BY <1>3, <1>6
<1>8. PICK j \in rows : TRUE
  OBVIOUS
<1>9. 21 <= j /\ j <= 20
  BY <1>7 DEF Below
<1>10. QED
  BY <1>9

\* The rows of AVC's table, and that their limits grow.
LEMMA AVCGrow ==
    /\ DOMAIN AVCLimits = 1 .. 14
    /\ \A i \in 1 .. 14 : /\ AVCLimits[i].rate \in Nat /\ AVCLimits[i].size \in Nat
                          /\ AVCLimits[i].bitrate \in Nat
    /\ \A i, j \in 1 .. 14 : i <= j => /\ AVCLimits[i].rate <= AVCLimits[j].rate
                                        /\ AVCLimits[i].size <= AVCLimits[j].size
                                        /\ AVCLimits[i].bitrate <= AVCLimits[j].bitrate
  BY DEF AVCLimits, Limit

\* The rows of HEVC's.
LEMMA HEVCGrow ==
    /\ DOMAIN HEVCLimits = 1 .. 13
    /\ \A i \in 1 .. 13 : /\ HEVCLimits[i].rate \in Nat /\ HEVCLimits[i].size \in Nat
                          /\ HEVCLimits[i].bitrate \in Nat
    /\ \A i, j \in 1 .. 13 : i <= j => /\ HEVCLimits[i].rate <= HEVCLimits[j].rate
                                        /\ HEVCLimits[i].size <= HEVCLimits[j].size
                                        /\ HEVCLimits[i].bitrate <= HEVCLimits[j].bitrate
  BY DEF HEVCLimits, Limit

\* Both tables.
LEMMA LimitsGrow ==
    ASSUME NEW codec
    PROVE  LET table == Limits(codec)
           IN  /\ DOMAIN table \subseteq 1 .. 20
               /\ \A i \in DOMAIN table : 1 .. i \subseteq DOMAIN table
               /\ \A i \in DOMAIN table :
                     table[i].rate \in Nat /\ table[i].size \in Nat /\ table[i].bitrate \in Nat
               /\ \A i, j \in DOMAIN table :
                     i <= j => /\ table[i].rate <= table[j].rate
                               /\ table[i].size <= table[j].size
                               /\ table[i].bitrate <= table[j].bitrate
<1>1. CASE codec = "AVC"
  BY <1>1, AVCGrow DEF Limits
<1>2. CASE codec # "AVC"
  BY <1>2, HEVCGrow DEF Limits
<1>3. QED
  BY <1>1, <1>2

Sized(size) == size.width \in Int /\ size.height \in Int

\* Loads are numbers.
LEMMA LoadsAreNumbers ==
    ASSUME NEW codec, NEW size, Sized(size), NEW fps \in Int
    PROVE  PictureLoad(codec, size) \in Int /\ SecondLoad(codec, size, fps) \in Int
<1>1. \A a \in Int : CeilDiv(a, 16) \in Int /\ CeilDiv(a, 1024) \in Int
  BY DEF CeilDiv
<1>2. \A a, b \in Int : a * b \in Int
  OBVIOUS
<1>3. PictureLoad(codec, size) \in Int
  BY <1>1, <1>2 DEF PictureLoad, Sized
<1>4. SecondLoad(codec, size, fps) \in Int
  <2> DEFINE samples == size.width * size.height
  <2>1. samples \in Int
    BY <1>2 DEF Sized
  <2> HIDE DEF samples
  <2>2. samples \div 1024 \in Int /\ samples % 1024 \in Int
    BY <2>1
  <2>3. (samples \div 1024) * fps \in Int /\ CeilDiv((samples % 1024) * fps, 1024) \in Int
    BY <1>1, <1>2, <2>2
  <2>4. PictureLoad(codec, size) * fps \in Int
    BY <1>2, <1>3
  <2>5. SecondLoad(codec, size, fps)
        = IF codec = "AVC" THEN PictureLoad(codec, size) * fps
          ELSE (samples \div 1024) * fps + CeilDiv((samples % 1024) * fps, 1024)
    BY DEF SecondLoad, samples
  <2>6. QED
    BY <2>3, <2>4, <2>5
<1>5. QED
  BY <1>3, <1>4

\* What a row meets the later ones meet.
LEMMA LaterRowsMeet ==
    ASSUME NEW codec, NEW size, Sized(size), NEW fps \in Int, NEW target \in Int,
           NEW i \in Feasible(codec, size, fps, target),
           NEW j \in DOMAIN Limits(codec), i <= j
    PROVE  j \in Feasible(codec, size, fps, target)
<1>1. i \in DOMAIN Limits(codec) /\ Meets(Limits(codec)[i], codec, size, fps, target)
  BY DEF Feasible
<1>2. /\ Limits(codec)[i].rate <= Limits(codec)[j].rate
      /\ Limits(codec)[i].size <= Limits(codec)[j].size
      /\ Limits(codec)[i].bitrate <= Limits(codec)[j].bitrate
      /\ \A k \in {i, j} : /\ Limits(codec)[k].rate \in Nat /\ Limits(codec)[k].size \in Nat
                           /\ Limits(codec)[k].bitrate \in Nat
  BY <1>1, LimitsGrow
<1>3. PictureLoad(codec, size) \in Int /\ SecondLoad(codec, size, fps) \in Int
  BY LoadsAreNumbers
<1>4. Meets(Limits(codec)[j], codec, size, fps, target)
  BY <1>1, <1>2, <1>3 DEF Meets
<1>5. QED
  BY <1>4 DEF Feasible

\* If the level is one of the table and a row is feasible, the level's is.
Covered(codec, level, size, fps, target) ==
    LET rows == Feasible(codec, size, fps, target)
    IN  rows # {} /\ (\E i \in DOMAIN Limits(codec) : Limits(codec)[i].level = level)
        => \E i \in rows : Limits(codec)[i].level = level

\* The setter leaves a level that covers the configuration.
LEMMA LevelSetterCovers ==
    ASSUME NEW codec, NEW level, NEW size, Sized(size), NEW fps \in Int, NEW target \in Int
    PROVE  Covered(codec, LevelSetter(codec, level, size, fps, target), size, fps, target)
<1> DEFINE table == Limits(codec)
           rows  == Feasible(codec, size, fps, target)
           first == CHOOSE i \in rows : \A j \in rows : i <= j
           TooLow == \/ codec = "AVC" /\ level = "1B"
                     \/ \E i \in 1 .. first - 1 : table[i].level = level
           set == LevelSetter(codec, level, size, fps, target)
<1>1. SUFFICES ASSUME rows # {}, NEW i \in DOMAIN table, table[i].level = set
               PROVE  \E j \in rows : table[j].level = set
  BY DEF Covered
<1>2. rows \subseteq DOMAIN table /\ DOMAIN table \subseteq 1 .. 20
  BY LimitsGrow DEF Feasible
<1>3. first \in rows /\ \A j \in rows : first <= j
  <2>1. \E k \in rows : \A j \in rows : k <= j
    BY <1>1, <1>2, FirstRow
  <2>2. QED
    BY <2>1
<1>4. set = IF TooLow THEN table[first].level ELSE level
  BY <1>1 DEF LevelSetter
<1> HIDE DEF first, set
<1>5. CASE TooLow
  BY <1>3, <1>4, <1>5
<1>6. CASE ~TooLow
  <2>1. i \notin 1 .. first - 1
    BY <1>1, <1>4, <1>6
  <2>2. first <= i
    BY <1>2, <1>3, <2>1
  <2>3. i \in rows
    BY <1>3, <2>2, LaterRowsMeet
  <2> HIDE DEF rows, table
  <2>4. QED
    BY <1>1, <2>3
<1>7. QED
  BY <1>5, <1>6

\* The levels the codec mapper has a name for.
LevelNames(codec) == IF codec = "AVC" THEN {kALevels[i] : i \in DOMAIN kALevels}
                     ELSE {kHLevels[i] : i \in DOMAIN kHLevels}

\* The rows of the tables are among them.
LEMMA RowsHaveNames ==
    /\ \A i \in DOMAIN AVCLimits : AVCLimits[i].level \in LevelNames("AVC")
    /\ "5" \in LevelNames("AVC")
    /\ \A i \in DOMAIN HEVCLimits : HEVCLimits[i].level \in LevelNames("HEVC")
    /\ "4_1" \in LevelNames("HEVC")
<1>1. /\ DOMAIN kALevels = 1 .. 20 /\ DOMAIN kHLevels = 1 .. 13
      /\ DOMAIN AVCLimits = 1 .. 14 /\ DOMAIN HEVCLimits = 1 .. 13
  BY AVCGrow, HEVCGrow DEF kALevels, kHLevels
<1>2. LevelNames("AVC") = {kALevels[i] : i \in 1 .. 20}
  BY <1>1 DEF LevelNames
<1>3. LevelNames("HEVC") = {kHLevels[i] : i \in 1 .. 13}
  BY <1>1 DEF LevelNames
<1>4. \A i \in 1 .. 13 : HEVCLimits[i].level = kHLevels[i]
  BY DEF HEVCLimits, kHLevels, Limit
<1>5. \A i \in 1 .. 14 : AVCLimits[i].level = kALevels[IF i = 1 THEN 1 ELSE i + 1]
  BY DEF AVCLimits, kALevels, Limit
<1>6. kALevels[15] = "5" /\ kHLevels[7] = "4_1"
  BY DEF kALevels, kHLevels
<1>7. (\A i \in 1 .. 14 : AVCLimits[i].level \in LevelNames("AVC")) /\ "5" \in LevelNames("AVC")
  BY <1>2, <1>5, <1>6
<1>8. /\ \A i \in 1 .. 13 : HEVCLimits[i].level \in LevelNames("HEVC")
      /\ "4_1" \in LevelNames("HEVC")
  BY <1>3, <1>4, <1>6
<1>9. QED
  BY <1>1, <1>7, <1>8

\* So the setter leaves a level that has a name.
LEMMA LevelSetterNames ==
    ASSUME NEW codec, HasLevels(codec), NEW level \in LevelNames(codec),
           NEW size, NEW fps, NEW target
    PROVE  LevelSetter(codec, level, size, fps, target) \in LevelNames(codec)
<1> DEFINE table == Limits(codec)
           rows  == Feasible(codec, size, fps, target)
           first == CHOOSE i \in rows : \A j \in rows : i <= j
           set == LevelSetter(codec, level, size, fps, target)
<1>1. rows \subseteq DOMAIN table /\ DOMAIN table \subseteq 1 .. 20
  BY LimitsGrow DEF Feasible
<1>2. \A i \in DOMAIN table : table[i].level \in LevelNames(codec)
  BY RowsHaveNames DEF HasLevels, Limits
<1>3. CASE rows = {}
  BY <1>3, RowsHaveNames DEF LevelSetter, HasLevels
<1>4. CASE rows # {}
  <2>1. \E k \in rows : \A j \in rows : k <= j
    BY <1>1, <1>4, FirstRow
  <2>2. first \in rows
    BY <2>1
  <2>3. set \in {table[first].level, level}
    BY <1>4 DEF LevelSetter
  <2> HIDE DEF first, set
  <2>4. QED
    BY <1>1, <1>2, <2>2, <2>3 DEF set
<1>5. QED
  BY <1>3, <1>4

\* A table of at most 20 rows that gives back what it is asked for.
LEMMA LookupSame ==
    ASSUME NEW table, DOMAIN table \subseteq 1 .. 20, NEW value, NEW default,
           \A i \in DOMAIN table : table[i]["c2"] = table[i].mpp,
           \E i \in DOMAIN table : table[i]["c2"] = value
    PROVE  Lookup(table, "c2", value, default) = value
<1> DEFINE rows == {i \in DOMAIN table : table[i]["c2"] = value}
           first == CHOOSE i \in rows : \A j \in rows : i <= j
<1>1. \E k \in rows : \A j \in rows : k <= j
  BY FirstRow
<1>2. first \in rows
  BY <1>1
<1>3. Lookup(table, "c2", value, default) = table[first].mpp
  BY DEF Lookup
<1> HIDE DEF first
<1>4. QED
  BY <1>2, <1>3

\* What a row of the codec mapper has.
LEMMA RowHas ==
    ASSUME NEW c2, NEW codec, NEW mpp
    PROVE  Row(c2, codec, mpp)["c2"] = c2 /\ Row(c2, codec, mpp).mpp = mpp
  BY DEF Row

\* AVC's levels have one name.
LEMMA AVCLevelNamed ==
    ASSUME NEW level \in LevelNames("AVC")
    PROVE  getMppH264Level(level, TRUE) = level
<1>1. DOMAIN kALevels = 1 .. 20
  BY DEF kALevels
<1>2. DOMAIN kALevelMaps = 1 .. 20
  BY <1>1 DEF kALevelMaps
<1>3. \A i \in 1 .. 20 : kALevelMaps[i] = Row(kALevels[i], kALevels[i], kALevels[i])
  BY <1>1 DEF kALevelMaps
<1>4. \A i \in 1 .. 20 : kALevelMaps[i]["c2"] = kALevels[i] /\ kALevelMaps[i].mpp = kALevels[i]
  BY <1>3, RowHas
<1>5. \E i \in 1 .. 20 : kALevels[i] = level
  BY <1>1 DEF LevelNames
<1>6. Lookup(kALevelMaps, "c2", level, "4_1") = level
  BY <1>2, <1>4, <1>5, LookupSame
<1>7. QED
  BY <1>6 DEF getMppH264Level, Column

\* So have HEVC's.
LEMMA HEVCLevelNamed ==
    ASSUME NEW level \in LevelNames("HEVC")
    PROVE  getMppH265Level(level) = level
<1>1. DOMAIN kHLevels = 1 .. 13
  BY DEF kHLevels
<1>2. kHLevelMaps = [i \in 1 .. 13 |-> Row(kHLevels[i], "", kHLevels[i])]
  BY <1>1, Zenon DEF kHLevelMaps
<1>3. DOMAIN kHLevelMaps = 1 .. 13
  BY <1>2, Zenon
<1>4. \A i \in 1 .. 13 : \E codec : kHLevelMaps[i] = Row(kHLevels[i], codec, kHLevels[i])
  BY <1>2, Zenon
<1>5. \A i \in 1 .. 13 : kHLevelMaps[i]["c2"] = kHLevels[i] /\ kHLevelMaps[i].mpp = kHLevels[i]
  BY <1>4, RowHas
<1>6. \E i \in 1 .. 13 : kHLevels[i] = level
  BY <1>1 DEF LevelNames
<1>7. Lookup(kHLevelMaps, "c2", level, "4_1") = level
  BY <1>3, <1>5, <1>6, LookupSame
<1>8. QED
  BY <1>7 DEF getMppH265Level

\* MPP is told the level of the interface, if it has a name.
LEMMA LevelTold ==
    ASSUME NEW codec, HasLevels(codec), NEW p, p.mLevel = NotSet,
           p.profileLevel.level \in LevelNames(codec)
    PROVE  getLevel_l(codec, p) = p.profileLevel.level
<1>1. CASE codec = "AVC"
  <2>1. getLevel_l("AVC", p) = getMppH264Level(p.profileLevel.level, TRUE)
    BY DEF getLevel_l
  <2>2. QED
    BY <1>1, <2>1, AVCLevelNamed
<1>2. CASE codec = "HEVC"
  <2>1. getLevel_l("HEVC", p) = getMppH265Level(p.profileLevel.level)
    BY DEF getLevel_l
  <2>2. QED
    BY <1>2, <2>1, HEVCLevelNamed
<1>3. QED
  BY <1>1, <1>2 DEF HasLevels

-----------------------------------------------------------------------------
(***************************************************************************)
(* The encoder: the invariant behind LevelCovers.                          *)
(***************************************************************************)

Numbers(p) == Sized(p.size) /\ p.frameRate \in Nat /\ p.bitrate \in Nat

\* The levels the client may set are levels of the codec.
LevelsOffered(codec) ==
    "profileLevel" \in DOMAIN EncOffers =>
        \A v \in EncOffers["profileLevel"] : v.level \in LevelNames(codec)

\* The interface's level covers its size, frame rate and bitrate.
ParamsLevel(codec, p) ==
    /\ p.profileLevel.level \in LevelNames(codec)
    /\ Covered(codec, p.profileLevel.level, p.size, p.frameRate, p.bitrate)

\* What the setups write of the parameters.
SizeWritten(c, p) ==
    /\ c.width = p.size.width /\ c.height = p.size.height
    /\ p.frameRate # 1 => c.fps = p.frameRate

AllWritten(c, p, codec) ==
    /\ SizeWritten(c, p) /\ c.target = p.bitrate
    /\ HasLevels(codec) => c.level = getLevel_l(codec, p)

\* Until a parameter is set, what was written is what the interface has.
WrittenSoFar ==
    ~torn =>
        /\ epc \in {"frameRate", "bitRate", "rest"} => enc.mSize = params.size
        /\ epc \in {"bitRate", "rest"} => SizeWritten(mEncCfg, params)
        /\ epc = "rest" => mEncCfg.target = params.bitrate
        /\ Running => /\ AllWritten(mEncCfg, params, enc.mCodingType)
                      /\ AllWritten(told.cfg, params, enc.mCodingType)

LevelInv ==
    /\ Numbers(params)
    /\ HasLevels(enc.mCodingType) =>
          LevelsOffered(enc.mCodingType) /\ ParamsLevel(enc.mCodingType, params)
    /\ WrittenSoFar

\* The interface's defaults.
LEMMA DefaultsCovered ==
    ASSUME NEW codec
    PROVE  LET p == DefaultParams(codec)
           IN  Numbers(p) /\ (HasLevels(codec) => ParamsLevel(codec, p))
<1> DEFINE p == DefaultParams(codec)
           level == p.profileLevel.level
<1>1. /\ p.size = [width |-> 176, height |-> 144] /\ p.frameRate = 1 /\ p.bitrate = 64000
      /\ p.profileLevel = DefaultProfileLevel(codec)
  BY DEF DefaultParams
<1> HIDE DEF p
<1>2. Numbers(p)
  BY <1>1 DEF Numbers, Sized
<1>3. CASE codec = "AVC"
  <2>1. level = "3_1" /\ AVCLimits[9] = Limit("3_1", 108000, 3600, 14000000)
    BY <1>1, <1>3 DEF DefaultProfileLevel, AVCLimits
  <2>2. PictureLoad(codec, p.size) = 99 /\ SecondLoad(codec, p.size, p.frameRate) = 99
    BY <1>1, <1>3 DEF PictureLoad, SecondLoad, CeilDiv
  <2>3. 9 \in Feasible(codec, p.size, p.frameRate, p.bitrate) /\ Limits(codec)[9].level = level
    BY <1>1, <1>3, <2>1, <2>2, AVCGrow DEF Feasible, Meets, Limits, Limit
  <2>4. level \in LevelNames(codec)
    BY <1>3, <2>1, <2>3, RowsHaveNames, AVCGrow DEF Limits
  <2>5. QED
    BY <1>2, <2>3, <2>4 DEF p, ParamsLevel, Covered
<1>4. CASE codec = "HEVC"
  <2>1. level = "4_1" /\ HEVCLimits[7] = Limit("4_1", 130560, 2176, 20000000)
    BY <1>1, <1>4 DEF DefaultProfileLevel, HEVCLimits
  <2>2. PictureLoad(codec, p.size) = 25 /\ SecondLoad(codec, p.size, p.frameRate) = 25
    BY <1>1, <1>4 DEF PictureLoad, SecondLoad, CeilDiv
  <2>3. 7 \in Feasible(codec, p.size, p.frameRate, p.bitrate) /\ Limits(codec)[7].level = level
    BY <1>1, <1>4, <2>1, <2>2, HEVCGrow DEF Feasible, Meets, Limits, Limit
  <2>4. level \in LevelNames(codec)
    BY <1>4, <2>1, RowsHaveNames
  <2>5. QED
    BY <1>2, <2>3, <2>4 DEF p, ParamsLevel, Covered
<1>5. QED
  BY <1>2, <1>3, <1>4 DEF p, HasLevels

\* The setter of the size leaves numbers.
LEMMA SizesAreNumbers ==
    ASSUME NEW old, Sized(old), NEW me
    PROVE  Sized(SizeSetter(old, me))
<1> DEFINE Ok(x) == x \in 90 .. 7680 /\ x % 2 = 0
           width == IF Ok(me.width) THEN me.width ELSE old.width
           height == IF Ok(me.height) THEN me.height ELSE old.height
<1>1. \A x \in 90 .. 7680 : x \in Int
  OBVIOUS
<1>2. \A x : Ok(x) => x \in Int
  <2> SUFFICES ASSUME NEW x, Ok(x) PROVE x \in Int
    OBVIOUS
  <2>1. x \in 90 .. 7680
    OBVIOUS
  <2> HIDE DEF Ok
  <2>2. QED
    BY <1>1, <2>1
<1>3. SizeSetter(old, me) = [width |-> width, height |-> height]
  BY Zenon DEF SizeSetter
<1> HIDE DEF Ok
<1>4. width \in Int /\ height \in Int
  BY <1>2 DEF Sized
<1> HIDE DEF width, height
<1>5. QED
  BY <1>3, <1>4 DEF Sized

\* A setter leaves a level of the codec that covers what the interface has:
\* those of the size, the frame rate and the bitrate set the level again.
LEMMA ParameterCovered ==
    ASSUME EncPlaces, Numbers(params),
           NEW codec, NEW k \in DOMAIN EncOffers, NEW v \in EncOffers[k],
           HasLevels(codec) => LevelsOffered(codec) /\ ParamsLevel(codec, params)
    PROVE  LET q == Configured(codec, params, k, v)
           IN  Numbers(q) /\ (HasLevels(codec) => ParamsLevel(codec, q))
<1> DEFINE q == Configured(codec, params, k, v)
           me == IF k = "profileLevel" THEN v ELSE params.profileLevel
<1>1. /\ q.size = IF k = "size" THEN SizeSetter(params.size, v) ELSE params.size
      /\ q.frameRate = IF k = "frameRate" THEN v ELSE params.frameRate
      /\ q.bitrate = IF k = "bitrate" THEN BitrateSetter(v) ELSE params.bitrate
      /\ q.profileLevel = IF k \in LevelParams
                          THEN ProfileLevelSetter(codec, me, q.size, q.frameRate, q.bitrate)
                          ELSE params.profileLevel
  BY ParamsOf DEF EncPlaces
<1> HIDE DEF q
<1>2. Sized(q.size)
  BY <1>1, SizesAreNumbers DEF Numbers
<1>3. q.frameRate \in Nat /\ q.bitrate \in Nat
  BY <1>1, EncConfigAssumption DEF Numbers, BitrateSetter
<1>4. Numbers(q)
  BY <1>2, <1>3 DEF Numbers
<1>5. ASSUME HasLevels(codec) PROVE ParamsLevel(codec, q)
  <2>1. CASE k \in LevelParams
    <3> DEFINE set == LevelSetter(codec, me.level, q.size, q.frameRate, q.bitrate)
    <3>1. q.profileLevel.level = set
      BY <1>1, <1>5, <2>1 DEF ProfileLevelSetter, HasLevels
    <3>2. me.level \in LevelNames(codec)
      BY <1>5 DEF LevelsOffered, ParamsLevel
    <3>3. set \in LevelNames(codec)
      BY <1>5, <3>2, LevelSetterNames
    <3>4. Covered(codec, set, q.size, q.frameRate, q.bitrate)
      BY <1>2, <1>3, LevelSetterCovers
    <3>5. QED
      BY <3>1, <3>3, <3>4 DEF ParamsLevel
  <2>2. CASE k \notin LevelParams
    <3>1. /\ q.size = params.size /\ q.frameRate = params.frameRate
          /\ q.bitrate = params.bitrate /\ q.profileLevel = params.profileLevel
      BY <1>1, <2>2 DEF LevelParams
    <3>2. QED
      BY <1>5, <3>1 DEF ParamsLevel
  <2>3. QED
    BY <2>1, <2>2
<1>6. QED
  BY <1>4, <1>5 DEF q

\* Records with the same keys, but for the description of the input.
LEMMA SameWritten ==
    ASSUME NEW c, NEW d, NEW p, NEW codec,
           \A k \in Keys \ {"prep"} : d[k] = c[k], AllWritten(c, p, codec)
    PROVE  AllWritten(d, p, codec)
  BY DEF AllWritten, SizeWritten, Keys

\* A new encoder keeps the invariant's promise.
LEMMA LevelInit ==
    ASSUME NEW codec, NEW device, EncInit(codec, device),
           HasLevels(codec) => LevelsOffered(codec)
    PROVE  LevelInv
<1>1. /\ params = DefaultParams(codec) /\ enc.mCodingType = codec /\ ~enc.mStarted
      /\ epc = "idle"
  BY DEF EncInit, EncMembers
<1>2. WrittenSoFar
  BY <1>1 DEF WrittenSoFar, Running
<1>3. QED
  BY <1>1, <1>2, DefaultsCovered DEF LevelInv

\* A step that leaves the parameters and the codec alone.
LEMMA LevelKept ==
    ASSUME LevelInv, UNCHANGED params, enc'.mCodingType = enc.mCodingType, WrittenSoFar'
    PROVE  LevelInv'
  BY DEF LevelInv

\* What the last setups leave alone.
LEMMA RestLeaves == ASSUME SetupRest PROVE UNCHANGED <<params, torn>> /\ epc = "rest"
  BY DEF SetupRest

\* The setups, in their order.
LEMMA SetupsKeepLevel ==
    ASSUME EncPlaces, RateInv, LevelInv,
           CreateMpp \/ AllocFails \/ SetupPicture \/ SetupBitRate \/ SetupRest
    PROVE  LevelInv'
<1> DEFINE mine == enc.mCodingType
<1>1. UNCHANGED params /\ enc'.mCodingType = enc.mCodingType
  <2>1. CASE CreateMpp \/ AllocFails
    BY <2>1, AdoptIs DEF EncPlaces, Members
  <2>2. CASE SetupPicture \/ SetupBitRate
    BY <2>2 DEF SetupPicture, SetupBitRate
  <2>3. CASE SetupRest
    <3>1. enc'.mCodingType = enc.mCodingType
      BY <2>3, RestIs DEF Members
    <3>2. QED
      BY <2>3, <3>1, RestLeaves
  <2>4. QED
    BY <2>1, <2>2, <2>3
<1>2. CASE CreateMpp \/ AllocFails
  <2>1. ~enc.mStarted
    BY <1>2, AdoptIs DEF RateInv, NotYetStarted, Setup
  <2>2. /\ ~enc'.mStarted /\ enc'.mSize = params.size
        /\ epc' \in {"frameRate", "idle", "bitrate"}
    BY <1>2, <2>1, AdoptIs DEF EncPlaces, Members
  <2>3. WrittenSoFar'
    BY <1>1, <2>2 DEF WrittenSoFar, Running
  <2>4. QED
    BY <1>1, <2>3, LevelKept
<1>3. CASE SetupPicture
  <2>1. /\ epc = "frameRate" /\ epc' = "bitRate" /\ UNCHANGED <<params, enc, torn>>
        /\ mEncCfg' = setupFrameRate(setupSceneMode(setupBaseCodec(NoCfg, enc), params), params)
    BY <1>3 DEF SetupPicture
  <2>2. /\ mEncCfg'.width = enc.mSize.width /\ mEncCfg'.height = enc.mSize.height
        /\ params.frameRate # 1 => mEncCfg'.fps = params.frameRate
    BY <2>1, PictureWritten
  <2>3. ~torn => SizeWritten(mEncCfg', params)
    BY <2>1, <2>2 DEF LevelInv, WrittenSoFar, SizeWritten
  <2>4. WrittenSoFar'
    BY <2>1, <2>3 DEF LevelInv, WrittenSoFar, Running
  <2>5. QED
    BY <1>1, <2>4, LevelKept
<1>4. CASE SetupBitRate
  <2>1. /\ epc = "bitRate" /\ epc' = "rest" /\ UNCHANGED <<params, enc, torn>>
        /\ mEncCfg' = setupBitRate(mEncCfg, params)
    BY <1>4 DEF SetupBitRate
  <2>2. /\ mEncCfg'.width = mEncCfg.width /\ mEncCfg'.height = mEncCfg.height
        /\ mEncCfg'.fps = mEncCfg.fps /\ mEncCfg'.target = params.bitrate
    BY <2>1, BitRateWritten DEF EncPlaces
  <2>3. ~torn => SizeWritten(mEncCfg', params)
    BY <2>1, <2>2 DEF LevelInv, WrittenSoFar, SizeWritten
  <2>4. WrittenSoFar'
    BY <2>1, <2>2, <2>3 DEF LevelInv, WrittenSoFar, Running
  <2>5. QED
    BY <1>1, <2>4, LevelKept
<1>5. CASE SetupRest
  <2>1. UNCHANGED <<params, torn>> /\ epc = "rest"
    BY <1>5, RestLeaves
  <2>2. CASE /\ epc' = "bitrate" /\ told'.cfg = mEncCfg'
             /\ mEncCfg'.width = mEncCfg.width /\ mEncCfg'.height = mEncCfg.height
             /\ mEncCfg'.fps = mEncCfg.fps /\ mEncCfg'.target = mEncCfg.target
             /\ HasLevels(mine) => mEncCfg'.level = getLevel_l(mine, params)
    <3>1. ~torn => SizeWritten(mEncCfg, params) /\ mEncCfg.target = params.bitrate
      BY <2>1 DEF LevelInv, WrittenSoFar
    <3>2. ~torn => AllWritten(mEncCfg', params, mine)
      BY <2>2, <3>1 DEF AllWritten, SizeWritten
    <3>3. WrittenSoFar'
      BY <1>1, <2>1, <2>2, <3>2 DEF WrittenSoFar
    <3>4. QED
      BY <1>1, <3>3, LevelKept
  <2>3. CASE epc' = "idle" /\ ~enc'.mStarted
    <3>1. WrittenSoFar'
      BY <2>3 DEF WrittenSoFar, Running
    <3>2. QED
      BY <1>1, <3>1, LevelKept
  <2>4. QED
    BY <1>5, <2>2, <2>3, RestIs
<1>6. QED
  BY <1>2, <1>3, <1>4, <1>5

\* Every step of the encoder keeps the invariant.
LEMMA LevelStep ==
    ASSUME EncPlaces, RateInv, LevelInv, EncNext \/ UNCHANGED encVars
    PROVE  LevelInv'
<1>1. ASSUME NEW k \in DOMAIN EncOffers, NEW v \in EncOffers[k], EncConfigure(k, v)
      PROVE  LevelInv'
  <2>1. params' = Configured(enc.mCodingType, params, k, v) /\ UNCHANGED enc /\ torn'
    BY <1>1 DEF EncConfigure
  <2>2. Numbers(params') /\ (HasLevels(enc.mCodingType) => ParamsLevel(enc.mCodingType, params'))
    BY <2>1, ParameterCovered DEF LevelInv
  <2>3. WrittenSoFar'
    BY <2>1 DEF WrittenSoFar
  <2>4. QED
    BY <2>1, <2>2, <2>3 DEF LevelInv
<1>2. ASSUME NEW f, EncBegin(f) PROVE LevelInv'
  <2>1. UNCHANGED <<params, enc, mEncCfg, told, torn>>
    BY <1>2 DEF EncBegin
  <2>2. WrittenSoFar'
    BY <1>2, <2>1 DEF EncBegin, LevelInv, WrittenSoFar, Running
  <2>3. QED
    BY <2>1, <2>2, LevelKept
<1>3. CASE CreateMpp \/ AllocFails \/ SetupPicture \/ SetupBitRate \/ SetupRest
  BY <1>3, SetupsKeepLevel
<1>4. CASE ReadBitrate
  <2>1. UNCHANGED <<params, enc, mEncCfg, told, torn>>
    BY <1>4 DEF ReadBitrate
  <2>2. WrittenSoFar'
    BY <1>4, <2>1 DEF ReadBitrate, LevelInv, WrittenSoFar, Running
  <2>3. QED
    BY <2>1, <2>2, LevelKept
<1>5. CASE Rebitrate
  <2>1. /\ UNCHANGED <<params, enc, told, torn>> /\ epc = "rebitrate" /\ epc' = "retarget"
        /\ enc.mStarted => mEncCfg' = setupBitRate(mEncCfg, params)
    BY <1>5 DEF Rebitrate, Keyed
  <2>2. enc.mStarted => /\ mEncCfg'.width = mEncCfg.width
                        /\ mEncCfg'.height = mEncCfg.height
                        /\ mEncCfg'.fps = mEncCfg.fps /\ mEncCfg'.level = mEncCfg.level
                        /\ mEncCfg'.target = params.bitrate
    BY <2>1, BitRateWritten DEF EncPlaces
  <2>3. ~torn /\ enc.mStarted
        => /\ AllWritten(mEncCfg, params, enc.mCodingType)
           /\ AllWritten(told.cfg, params, enc.mCodingType)
    BY <2>1 DEF LevelInv, WrittenSoFar, Running
  <2>4. ~torn /\ enc.mStarted => AllWritten(mEncCfg', params, enc.mCodingType)
    BY <2>2, <2>3 DEF AllWritten, SizeWritten
  <2>5. WrittenSoFar'
    BY <2>1, <2>3, <2>4 DEF WrittenSoFar, Running
  <2>6. QED
    BY <2>1, <2>5, LevelKept
<1>6. CASE Retarget
  <2>1. UNCHANGED params /\ torn' /\ \E object : enc' = [enc EXCEPT !.mBitrate = object]
    BY <1>6 DEF Retarget
  <2>2. enc'.mCodingType = enc.mCodingType
    BY <2>1 DEF EncPlaces, Members
  <2>3. WrittenSoFar'
    BY <2>1 DEF WrittenSoFar
  <2>4. QED
    BY <2>1, <2>2, <2>3, LevelKept
<1>7. CASE SendPicture
  <2> DEFINE codec == enc.mCodingType
  <2>1. UNCHANGED <<params, torn>> /\ epc = "input" /\ epc' = "idle"
    BY <1>7 DEF SendPicture
  <2>2. /\ enc'.mCodingType = codec /\ enc'.mStarted = enc.mStarted
        /\ \A k \in Keys \ {"prep"} : mEncCfg'[k] = mEncCfg[k]
        /\ \/ \A k \in Keys \ {"prep"} : told'.cfg[k] = told.cfg[k]
           \/ \A k \in Keys \ {"prep"} : told'.cfg[k] = mEncCfg[k]
    BY <1>7, SendIs DEF Members
  <2>3. ~torn /\ enc.mStarted
        => AllWritten(mEncCfg, params, codec) /\ AllWritten(told.cfg, params, codec)
    BY <2>1 DEF LevelInv, WrittenSoFar, Running
  <2>4. ~torn /\ enc.mStarted => AllWritten(mEncCfg', params, codec)
    BY <2>2, <2>3, SameWritten
  <2>5. ~torn /\ enc.mStarted => AllWritten(told'.cfg, params, codec)
    BY <2>2, <2>3, SameWritten
  <2>6. WrittenSoFar'
    BY <2>1, <2>2, <2>4, <2>5 DEF WrittenSoFar, Running
  <2>7. QED
    BY <2>1, <2>2, <2>6, LevelKept
<1>8. CASE EncRelease
  <2>1. /\ UNCHANGED params /\ epc' = "idle" /\ ~enc'.mStarted
        /\ enc'.mCodingType = enc.mCodingType
    BY <1>8 DEF EncRelease, Released, EncPlaces, Members
  <2>2. WrittenSoFar'
    BY <2>1 DEF WrittenSoFar, Running
  <2>3. QED
    BY <2>1, <2>2, LevelKept
<1>9. CASE UNCHANGED encVars
  <2>1. UNCHANGED <<params, enc, mEncCfg, told, torn, epc>>
    BY <1>9 DEF encVars
  <2>2. WrittenSoFar'
    BY <2>1 DEF LevelInv, WrittenSoFar, Running
  <2>3. QED
    BY <2>1, <2>2, LevelKept
<1>10. QED
  BY <1>1, <1>2, <1>3, <1>4, <1>5, <1>6, <1>7, <1>8, <1>9 DEF EncNext

\* What is feasible depends on the two lengths of a size.
LEMMA SameFeasible ==
    ASSUME NEW codec, NEW size, NEW fps, NEW target
    PROVE  Feasible(codec, [width |-> size.width, height |-> size.height], fps, target)
           = Feasible(codec, size, fps, target)
  BY DEF Feasible, Meets, PictureLoad, SecondLoad

\* The invariant is enough, where MPP was told what the interface has.
LEMMA LevelEnough == ASSUME RateInv, LevelInv PROVE LevelCovers
<1> DEFINE codec == enc.mCodingType
           c == told.cfg
           rows == Feasible(codec, [width |-> c.width, height |-> c.height], c.fps, c.target)
<1>1. SUFFICES ASSUME enc.mStarted, ~torn, HasLevels(codec), params.mLevel = NotSet,
                      params.frameRate # 1, rows # {},
                      \E i \in DOMAIN Limits(codec) : Limits(codec)[i].level = c.level
               PROVE  \E i \in rows : Limits(codec)[i].level = c.level
  BY DEF LevelCovers, HasLevels
<1>2. Running
  BY <1>1 DEF RateInv, RatePlaces, NotYetStarted, Places, Setup, Settled, Running
<1>3. AllWritten(c, params, codec)
  BY <1>1, <1>2 DEF LevelInv, WrittenSoFar
<1>4. /\ c.width = params.size.width /\ c.height = params.size.height
      /\ c.fps = params.frameRate /\ c.target = params.bitrate
      /\ c.level = getLevel_l(codec, params)
  BY <1>1, <1>3 DEF AllWritten, SizeWritten
<1>5. ParamsLevel(codec, params)
  BY <1>1 DEF LevelInv
<1>6. c.level = params.profileLevel.level
  BY <1>1, <1>4, <1>5, LevelTold DEF ParamsLevel
<1>7. rows = Feasible(codec, params.size, params.frameRate, params.bitrate)
  BY <1>4, SameFeasible
<1>8. QED
  BY <1>1, <1>5, <1>6, <1>7 DEF ParamsLevel, Covered
-----------------------------------------------------------------------------
(***************************************************************************)
(* A component is one of the two.                                          *)
(***************************************************************************)

\* The codec of an encoder a request may make.
EncoderCodecs == {getCodingTypeFromComponentName(r.name) : r \in Requests} \cup {"Unused"}

\* The two halves at the start.
LEMMA ConfigurationInit ==
    ASSUME Init
    PROVE  /\ AspectsInv /\ FitInv /\ RateInv /\ EncPlaces
           /\ \E codec \in EncoderCodecs : \E device : EncInit(codec, device)
<1>1. PICK r \in Requests :
        /\ factory \in CreateRKCodec2Factory(r.name)
        /\ EncInit(CodecOf("encoder"), r.device)
        /\ DecInit(CodecOf("decoder"), r.device, BaseParams(factory).output.pool)
  BY DEF Init
<1>2. factory.name = r.name
  BY <1>1 DEF CreateRKCodec2Factory
<1>3. CodecOf("encoder") \in EncoderCodecs
  BY <1>2 DEF CodecOf, EncoderCodecs
<1>4. QED
  BY <1>1, <1>3, AspectsInit, FitInit, RateInit, EncPlacesInit

\* A step is of one half and leaves the other alone.
LEMMA ConfigurationStep ==
    ASSUME [Next]_vars
    PROVE  /\ DecNext \/ UNCHANGED decVars
           /\ EncNext \/ UNCHANGED encVars
  BY DEF Next, vars

\* Whatever streams, resolutions and messages follow each other, and whenever
\* the client changes its defaults, a frame is returned with the aspects that
\* colorAspectsSetter makes of its own and of the client's: the comparison with
\* mBitstreamColorAspects in getVuiParams never skips an update that is needed.
THEOREM AspectsFollowHolds == Spec => []AspectsFollow
<1>1. Init => AspectsInv
  BY ConfigurationInit
<1>2. AspectsInv /\ [Next]_vars => AspectsInv'
  BY ConfigurationStep, AspectsStep
<1>3. AspectsInv => AspectsFollow
  BY AspectsEnough
<1>4. QED
  BY <1>1, <1>2, <1>3, PTL DEF Spec

\* For any chip, codec and streams, whatever size the client sets, whatever pool
\* a session begins with, and wherever a fetch fails, the info changes or the
\* table is cleared, the blocks of ensureDecoderState have MPP's rows and room
\* for the rows of padding, while MPP's mode is the decoder's.
THEOREM BlockFitsHolds == Spec => []BlockFits
<1>1. Init => FitInv
  BY ConfigurationInit
<1>2. FitInv /\ [Next]_vars => FitInv'
  BY ConfigurationStep, FitStep
<1>3. FitInv => BlockFits
  BY FitEnough
<1>4. QED
  BY <1>1, <1>2, <1>3, PTL DEF Spec

\* Whenever the client sets its bitrate, within initEncoder or between the two
\* locks of process() too, MPP's target for a frame is a bitrate of the client
\* since process() began, unless a control failed.
THEOREM RateFollowsHolds == Spec => []RateFollows
<1>1. Init => RateInv
  BY ConfigurationInit
<1>2. RateInv /\ [Next]_vars => RateInv'
  BY ConfigurationStep, RateStep
<1>3. RateInv => RateFollows
  BY DEF RateInv
<1>4. QED
  BY <1>1, <1>2, <1>3, PTL DEF Spec

\* Whatever pictures follow each other, taken as they are or converted, and
\* whatever sizes the client sets between two sessions, a frame's memory is what
\* its attributes and the last SET_CFG say, while no control failed and no RGBA
\* picture was taken as it is.
THEOREM InputDescribedHolds == Spec => []InputDescribed
<1> DEFINE Inv == RateInv /\ EncPlaces /\ InputInv
<1>1. Init => Inv
  BY ConfigurationInit, InputInit
<1>2. Inv /\ [Next]_vars => Inv'
  BY ConfigurationStep, RateStep, EncPlacesStep, InputStep
<1>3. Inv => InputDescribed
  BY DEF InputInv
<1> HIDE DEF Inv
<1>4. QED
  BY <1>1, <1>2, <1>3, PTL DEF Spec

\* With the reference structures of setupTemporalLayers, however long a session
\* is and wherever an IDR begins the structure again, a frame refers to one that
\* is there and not of a higher layer.
THEOREM LayersDecodableHolds == Spec => []LayersDecodable
<1> DEFINE Inv == EncPlaces /\ LayersInv
<1>1. Init => Inv
  BY ConfigurationInit, LayersInit
<1>2. Inv /\ [Next]_vars => Inv'
  BY ConfigurationStep, EncPlacesStep, LayersStep
<1>3. Inv => LayersDecodable
  BY LayersEnough
<1> HIDE DEF Inv
<1>4. QED
  BY <1>1, <1>2, <1>3, PTL DEF Spec

\* For any sizes, rates and bitrates, set in any order, the level MPP is told at
\* the start meets what it is told with it, if a row of the table does: where
\* the client sets levels that its codec has.  The setters do not look at that;
\* getMppH264Level makes 4.1 of any other, whatever the interface was left with.
THEOREM LevelCoversHolds ==
    ASSUME \A codec \in EncoderCodecs : HasLevels(codec) => LevelsOffered(codec)
    PROVE  Spec => []LevelCovers
<1> DEFINE Inv == RateInv /\ EncPlaces /\ LevelInv
<1>1. Init => Inv
  BY ConfigurationInit, LevelInit
<1>2. Inv /\ [Next]_vars => Inv'
  BY ConfigurationStep, RateStep, EncPlacesStep, LevelStep
<1>3. Inv => LevelCovers
  BY LevelEnough
<1> HIDE DEF Inv
<1>4. QED
  BY <1>1, <1>2, <1>3, PTL DEF Spec
=============================================================================
