----------------------------- MODULE DecConfig -----------------------------
(***************************************************************************)
(* What the decoder asks of MPP and of gralloc (C2RKMpiDec.cpp): the setup *)
(* of initDecoder, the geometry of the blocks ensureDecoderState fetches,  *)
(* the info change, and the colour aspects that go with a frame.           *)
(*                                                                         *)
(* MpiDecBuffers has the blocks' life and MpiDec the session.  Here a      *)
(* block is only its geometry, and the end of stream is left out.          *)
(***************************************************************************)
EXTENDS Integers, Sequences, FiniteSets, Platform, DecParams

CONSTANTS
    DecOffers,      \* what the client may set: from parameter to values
    DecMaxChange,   \* bound: parameters set by the client
    Streams,        \* what may be in a stream: size, bits of a sample, aspects (ISO)
    Strides,        \* how MPP aligns a row, one of them for a chip
    MaxInfo,        \* bound: changes of the stream
    DecMayFail      \* calls that may fail: "init", "fetch", "ready"

\* The framework leaves the aspects of the stream to the decoder, whose values
\* are MPP's bytes.  A sample has 8 or 10 bits, sizes are numbers, and rows are
\* aligned in a way gralloc has a usage for.
ASSUME DecConfigAssumption ==
    /\ DOMAIN DecOffers \cap {"codedAspects", "aspects"} = {}
    /\ \A s \in Streams : \A f \in Field : s.aspects[f] \in 0 .. OTHER_VALUE
    /\ \A s \in Streams : s.width \in Nat /\ s.height \in Nat /\ s.bits \in {8, 10}
    /\ Strides \subseteq {16, 64, 128, 256}

VARIABLES
    dparams,        \* IntfImpl
    dchanges,       \* how many parameters the client has set
    dec,            \* the members of C2RKMpiDec
    dmpp,           \* MPP: the controls it got, its group, the info it last reported
    stream,         \* what is being decoded
    infos,          \* how often that changed
    blocks,         \* geometries of the blocks committed to MPP
    mOutBlock,      \* the block of buffer mode
    dpc,            \* where process() is
    shown           \* the frame last got: its aspects, those it was returned with

decVars == <<dparams, dchanges, dec, dmpp, stream, infos, blocks, mOutBlock, dpc, shown>>

BUFFERQUEUE == "BUFFERQUEUE"    \* the pool of a surface; the others are basic
NoPool == "none"
NoBlock == [width |-> 0, height |-> 0, usage |-> "none", format |-> "none"]
Pixels(bits) == IF bits = 10 THEN "YUV420SP_10BIT" ELSE "YUV420SP"
Format(bits, fbc) == [pixels |-> Pixels(bits), fbc |-> fbc]
NotShown == [frame |-> Unspecified, default |-> Unspecified, with |-> Unspecified]

(***************************************************************************)
(* MPP (external).  Its picture of a stream: rows of whole units, in bytes *)
(* for 10 bits, and always the odd 256 for VP9.                            *)
(***************************************************************************)
HorStride(codec, width, bits) ==
    LET bytes == IF bits = 10 THEN (width * 10) \div 8 ELSE width
    IN  IF codec = "VP9" \/ dmpp.align = 256 THEN C2_ALIGN_ODD(bytes, 256)
        ELSE C2_ALIGN(bytes, dmpp.align)
InfoOf(codec, s, fbc) ==
    [width |-> s.width, height |-> s.height, hor |-> HorStride(codec, s.width, s.bits),
     ver |-> C2_ALIGN(s.height, 16), format |-> Format(s.bits, fbc)]
NoInfo == [width |-> 0, height |-> 0, hor |-> 0, ver |-> 0, format |-> Format(8, FALSE)]

\* What the stream needs now, and whether MPP's frames are that already.
InfoNow == InfoOf(dec.mCodingType, stream, dmpp.fbc)
InfoCurrent == dmpp.info = InfoNow

\* A new context, on the same chip.
NewMpp(chip) ==
    [deinterlace |-> FALSE, split |-> FALSE, fastParser |-> FALSE, fastPlay |-> FALSE,
     immediate |-> FALSE, fbc |-> FALSE, external |-> FALSE, info |-> NoInfo,
     align |-> chip.align, givesStrides |-> chip.givesStrides, fbcOf |-> chip.fbcOf]

(***************************************************************************)
(* The members.  release() and stop() keep the format, the size and the    *)
(* cached aspects, which are ISO values with 2 for unspecified.            *)
(***************************************************************************)
\* The cache would begin at "full range", the coded aspects at "limited".
MutDecMembers(codec, device) ==
    [mCodingType |-> codec,
     mGrallocVersion |-> IF getGrallocVersion(device) > 3 /\ getAndroidVerison(device) >= 30
                         THEN 4 ELSE 0,
     mStarted |-> FALSE, mSignalledError |-> FALSE, mBufferMode |-> FALSE,
     mLowLatencyMode |-> FALSE, mTransfer |-> 0, mWidth |-> 0, mHeight |-> 0,
     mHorStride |-> 0, mVerStride |-> 0, mColorFormat |-> Format(8, FALSE),
     fbcMode |-> 0, paddingX |-> 0, paddingY |-> 0,
     mBitstreamColorAspects |-> Specified(1, 2, 2, 2), mOutputBlockPool |-> NoPool]

DecMembers(codec, device) ==
    [mCodingType |-> codec,
     mGrallocVersion |-> IF getGrallocVersion(device) > 3 /\ getAndroidVerison(device) >= 30
                         THEN 4 ELSE 0,
     mStarted |-> FALSE, mSignalledError |-> FALSE, mBufferMode |-> FALSE,
     mLowLatencyMode |-> FALSE, mTransfer |-> 0, mWidth |-> 0, mHeight |-> 0,
     mHorStride |-> 0, mVerStride |-> 0, mColorFormat |-> Format(8, FALSE),
     fbcMode |-> 0, paddingX |-> 0, paddingY |-> 0,
     mBitstreamColorAspects |-> Specified(0, 2, 2, 2), mOutputBlockPool |-> NoPool]

DecInit(codec, device, outputPool) ==
    /\ dparams = DecDefaults(codec, outputPool) /\ dchanges = 0
    /\ dec = DecMembers(codec, device)
    /\ \E align \in Strides, givesStrides \in BOOLEAN :
          dmpp = NewMpp([align |-> align, givesStrides |-> givesStrides,
                         fbcOf |-> [mode |-> getFbcOutputMode(device, codec),
                                    offset |-> getFbcOutputOffset(device, codec)]])
    /\ stream \in {s \in Streams : codec = "VP9" => s.bits = 8} /\ infos = 0
    /\ blocks = {} /\ mOutBlock = NoBlock /\ dpc = "idle" /\ shown = NotShown

DecMay(call) == IF call \in DecMayFail THEN BOOLEAN ELSE {TRUE}

\* MPP has no decoder for a codec that is not in the table of names (external).
DecOpens(codec) == IF codec = "Unused" THEN {FALSE} ELSE DecMay("init")

(***************************************************************************)
(* The client, and the stream it sends.                                    *)
(***************************************************************************)
DecConfigure(k, v) ==
    /\ dchanges < DecMaxChange
    /\ dparams' = DecConfigured(dec.mCodingType, dparams, k, v)
    /\ dchanges' = dchanges + 1
    /\ UNCHANGED <<dec, dmpp, stream, infos, blocks, mOutBlock, dpc, shown>>

StreamChanges ==
    /\ infos < MaxInfo
    /\ stream' \in {s \in Streams : dec.mCodingType = "VP9" => s.bits = 8} \ {stream}
    /\ infos' = infos + 1
    /\ UNCHANGED <<dparams, dchanges, dec, dmpp, blocks, mOutBlock, dpc, shown>>

(***************************************************************************)
(* initDecoder.                                                            *)
(***************************************************************************)
\* What is read under the interface's lock.
Adopted(m) ==
    [m EXCEPT !.mWidth = dparams.size.width, !.mHeight = dparams.size.height,
              !.mTransfer = dparams.defaultAspects["transfer"],
              !.mLowLatencyMode = IF HasAspects(m.mCodingType) THEN dparams.lowLatency ELSE @]

\* Compressed output: for SMPTE 2084, and for a surface above 1080p.
FbcWanted(m) ==
    m.mTransfer = 6 \/ (~m.mBufferMode /\ m.mWidth * m.mHeight > 1920 * 1080)
FbcSet(m) ==
    LET mode == IF FbcWanted(m) THEN dmpp.fbcOf.mode ELSE 0
    IN  [m EXCEPT !.fbcMode = mode,
                  !.paddingX = IF mode # 0 THEN dmpp.fbcOf.offset[1] ELSE @,
                  !.paddingY = IF mode # 0 THEN dmpp.fbcOf.offset[2] ELSE @]

\* SET_FRAME_INFO: an old MPP gives no strides and is told the size for them.
FrameInfo(m) ==
    LET bits == IF m.mColorFormat.pixels = Pixels(10) THEN 10 ELSE 8
        format == [m.mColorFormat EXCEPT !.fbc = @ \/ m.fbcMode # 0]
        given == InfoOf(m.mCodingType,
                        [width |-> m.mWidth, height |-> m.mHeight, bits |-> bits], format.fbc)
    IN  IF dmpp.givesStrides THEN given
        ELSE [given EXCEPT !.hor = m.mWidth, !.ver = m.mHeight]

Controls(m, info) ==
    LET mpeg2 == m.mCodingType = "MPEG2"
    IN  [dmpp EXCEPT !.deinterlace = ~mpeg2 /\ ~m.mLowLatencyMode, !.split = mpeg2,
                     !.fastParser = TRUE, !.fastPlay = TRUE, !.immediate = m.mLowLatencyMode,
                     !.fbc = m.fbcMode # 0, !.external = ~m.mBufferMode, !.info = info]

\* The pool is the one of the interface when none is held; its id decides the
\* mode, for each work, and the decoder is set up once: without mpp_init
\* nothing is asked, without a buffer group it is all asked in vain.
DecBegin ==
    /\ dpc = "idle"
    /\ LET pool == IF dec.mOutputBlockPool = NoPool THEN dparams.outputPool
                   ELSE dec.mOutputBlockPool
           m == [dec EXCEPT !.mOutputBlockPool = pool, !.mBufferMode = (pool # BUFFERQUEUE)]
           set  == FbcSet(Adopted(m))
           info == FrameInfo(set)
           ready == [set EXCEPT !.mHorStride = info.hor, !.mVerStride = info.ver]
       IN  \/ /\ ~dec.mStarted
              /\ \E ok \in DecOpens(dec.mCodingType) :
                    IF ok THEN /\ dec' = [ready EXCEPT !.mStarted = TRUE]
                               /\ dmpp' = Controls(set, info)
                               /\ dpc' = IF set.mSignalledError THEN "idle" ELSE "ensure"
                    ELSE /\ dec' \in {Adopted(m)} \cup (IF m.mBufferMode THEN {} ELSE {ready})
                         /\ dpc' = "idle" /\ UNCHANGED dmpp
           \/ /\ dec.mStarted
              /\ dec' = m
              /\ dpc' = IF m.mSignalledError THEN "idle" ELSE "ensure"
              /\ UNCHANGED dmpp
    /\ UNCHANGED <<dparams, dchanges, stream, infos, blocks, mOutBlock, shown>>

(***************************************************************************)
(* ensureDecoderState: what it asks of gralloc.                            *)
(***************************************************************************)
\* The rows of padding would be forgotten.
MutBlockHeight(m) ==
    IF m.fbcMode # 0 THEN C2_ALIGN(m.mVerStride, 16) ELSE m.mVerStride

\* Compressed pictures have rows of padding on top.
BlockHeight(m) ==
    IF m.fbcMode # 0 THEN C2_ALIGN(m.mVerStride + m.paddingY, 16) ELSE m.mVerStride

\* An application that cannot crop gets the width it expects, where gralloc can
\* be told the stride by a usage; compressed 10 bits take the width as stride.
ByUsage(m) ==
    /\ m.mGrallocVersion = 4 /\ m.mWidth # m.mHorStride
    /\ colorFormatMpiToAndroid(m.mColorFormat.pixels, m.fbcMode # 0) = "NV12"
BlockWidth(m, format) ==
    CASE m.fbcMode # 0 /\ format \in {"YUV420_10BIT_I", "Y210"} -> C2_ALIGN(m.mWidth, 64)
      [] m.fbcMode = 0 /\ m.mCodingType = "VP9" /\ m.mGrallocVersion < 4 ->
             C2_ALIGN_ODD(m.mWidth, 256)
      [] OTHER -> IF ByUsage(m) THEN m.mWidth ELSE m.mHorStride
Geometry(m) ==
    LET format == colorFormatMpiToAndroid(m.mColorFormat.pixels, m.fbcMode # 0)
    IN  [width |-> BlockWidth(m, format), height |-> BlockHeight(m),
         usage |-> IF ByUsage(m) THEN getStrideUsage(m.mWidth, m.mHorStride)
                   ELSE "SPECIFY_STRIDE",
         format |-> format]

\* In buffer mode the block that is held is kept if its size is the one wanted;
\* else MPP is given as many blocks as it lacks, or those before the one that failed.
Ensure(m, held, table, ok) ==
    LET g == Geometry(m)
        kept == held # NoBlock /\ held.width = g.width /\ held.height = g.height
    IN  /\ mOutBlock' = IF kept \/ ~m.mBufferMode THEN held ELSE IF ok THEN g ELSE NoBlock
        /\ blocks' \in IF m.mBufferMode THEN {table}
                      ELSE IF ok /\ table = {} THEN {{g}}
                      ELSE {table, table \cup {g}}

\* A fetch that fails ends the work here; later ones are not looked at.
EnsureDecoderState ==
    /\ dpc = "ensure"
    /\ \E ok \in DecMay("fetch") :
          /\ Ensure(dec, mOutBlock, blocks, ok)
          /\ LET failed == ~ok /\ (dec.mBufferMode => mOutBlock' = NoBlock)
             IN  /\ dec' = [dec EXCEPT !.mSignalledError = failed]
                 /\ dpc' = IF failed THEN "idle" ELSE "outframe"
    /\ UNCHANGED <<dparams, dchanges, dmpp, stream, infos, shown>>

(***************************************************************************)
(* getoutframe.                                                            *)
(***************************************************************************)
NoFrame ==
    /\ dpc = "outframe"
    /\ dpc' = "idle"
    /\ UNCHANGED <<dparams, dchanges, dec, dmpp, stream, infos, blocks, mOutBlock, shown>>

\* The table is cleared, MPP goes on with the new info, the geometry is
\* adopted, blocks are fetched for it and the client's size parameter follows.
Changed(m, info) ==
    [m EXCEPT !.mWidth = info.width, !.mHeight = info.height, !.mHorStride = info.hor,
              !.mVerStride = info.ver, !.mColorFormat = info.format,
              !.fbcMode = IF info.format.fbc THEN AFBC_16x16 ELSE 0]
TableAfter(m) == IF m.mBufferMode THEN blocks ELSE {}

InfoChange ==
    /\ dpc = "outframe" /\ ~InfoCurrent
    /\ \/ /\ \E ok \in DecMay("fetch") : 
             Ensure(Changed(dec, InfoNow), mOutBlock, TableAfter(dec), ok)
          /\ dec' = [Changed(dec, InfoNow) EXCEPT !.mSignalledError = ~SizeAccepted(stream)]
          /\ dmpp' = [dmpp EXCEPT !.info = InfoNow]
          /\ dparams' = DecConfigured(dec.mCodingType, dparams, "size",
                            [width |-> stream.width, height |-> stream.height])
          /\ dpc' = IF SizeAccepted(stream) THEN "outframe" ELSE "idle"
       \/ /\ "ready" \in DecMayFail
          /\ dec' = [dec EXCEPT !.mSignalledError = TRUE]
          /\ blocks' = TableAfter(dec)
          /\ dpc' = "idle"
          /\ UNCHANGED <<dparams, dmpp, mOutBlock>>
    /\ UNCHANGED <<dchanges, stream, infos, shown>>

\* A frame of buffer mode is copied into the block: the 2D engine may fail, and
\* where the last fetch did there is no block and the process ends.
Copied(m, s) ==
    IF s.width * s.height >= 1280 * 720
    THEN {c.ret : c \in Conversion(paramInit(s.width, s.height, m.mHorStride, m.mVerStride))}
    ELSE {TRUE}

\* The aspects of a frame, as MPEG2 has them and as the others do.
FrameAspects(codec, a) == IF codec = "MPEG2" THEN [a EXCEPT !["range"] = 0] ELSE a
ToCodec2(iso) ==
    [f \in Field |-> IF f = "range" THEN (IF iso[f] = 1 THEN 1 ELSE 2)
                     ELSE IF iso[f] = 2 THEN 0 ELSE iso[f]]

\* getVuiParams: converted and set when they are not those of the last frame.
getVuiParams(m, aspects) ==
    IF HasAspects(m.mCodingType) /\ aspects # m.mBitstreamColorAspects
    THEN /\ dec' = [m EXCEPT !.mBitstreamColorAspects = aspects]
         /\ dparams' = DecConfigured(m.mCodingType, dparams, "codedAspects", ToCodec2(aspects))
    ELSE UNCHANGED <<dec, dparams>>

\* MPP has a buffer for a frame, and the frame a place here.
MayCome == IF dmpp.external THEN blocks # {} ELSE dec.mBufferMode

GetFrame ==
    /\ dpc = "outframe" /\ InfoCurrent /\ MayCome
    /\ LET aspects == FrameAspects(dec.mCodingType, stream.aspects)
       IN  \/ /\ dec.mBufferMode /\ mOutBlock = NoBlock
              /\ dpc' = "crashed"
              /\ UNCHANGED <<dec, dparams, shown>>
           \/ /\ dec.mBufferMode /\ mOutBlock # NoBlock /\ FALSE \in Copied(dec, stream)
              /\ dec' = [dec EXCEPT !.mSignalledError = TRUE]
              /\ dpc' = "idle"
              /\ UNCHANGED <<dparams, shown>>
           \/ /\ dec.mBufferMode => mOutBlock # NoBlock /\ TRUE \in Copied(dec, stream)
              /\ getVuiParams(dec, aspects)
              /\ shown' = [NotShown EXCEPT !.frame = aspects]
              /\ dpc' = "finish"
    /\ UNCHANGED <<dchanges, dmpp, stream, infos, blocks, mOutBlock>>

\* finishWork: the aspects of the interface, under its lock, go with the frame;
\* then blocks are fetched again.
FinishWork ==
    /\ dpc = "finish"
    /\ shown' = [shown EXCEPT !.with = IF HasAspects(dec.mCodingType) THEN dparams.aspects ELSE @,
                              !.default = dparams.defaultAspects]
    /\ \E ok \in DecMay("fetch") : Ensure(dec, NoBlock, blocks, ok)
    /\ dpc' = "outframe"
    /\ UNCHANGED <<dparams, dchanges, dec, dmpp, stream, infos>>

(***************************************************************************)
(* The looper's other messages.                                            *)
(***************************************************************************)
\* Flush clears the table; stop and reset let the pool go as well, and MPP's
\* context stays for the next start.
Flushed(m) == [m EXCEPT !.mSignalledError = FALSE]

DecFlush ==
    /\ dpc = "idle" /\ dec.mStarted
    /\ dec' = Flushed(dec) /\ blocks' = {}
    /\ UNCHANGED <<dparams, dchanges, dmpp, stream, infos, mOutBlock, dpc, shown>>
DecStop ==
    /\ dpc = "idle" /\ dec.mStarted
    /\ dec' = [Flushed(dec) EXCEPT !.mOutputBlockPool = NoPool] /\ blocks' = {}
    /\ UNCHANGED <<dparams, dchanges, dmpp, stream, infos, mOutBlock, dpc, shown>>
DecRelease ==
    /\ dpc = "idle" /\ dec.mStarted
    /\ dec' = [Flushed(dec) EXCEPT !.mStarted = FALSE, !.mOutputBlockPool = NoPool]
    /\ dmpp' = NewMpp(dmpp) /\ blocks' = {} /\ mOutBlock' = NoBlock
    /\ UNCHANGED <<dparams, dchanges, stream, infos, dpc, shown>>

DecNext ==
    \/ \E k \in DOMAIN DecOffers : \E v \in DecOffers[k] : DecConfigure(k, v)
    \/ StreamChanges \/ DecBegin \/ EnsureDecoderState
    \/ NoFrame \/ InfoChange \/ GetFrame \/ FinishWork
    \/ DecFlush \/ DecStop \/ DecRelease

(***************************************************************************)
(* gralloc (external): what becomes of a request.                          *)
(***************************************************************************)
StrideOfBlock(b) ==
    CASE b.usage = "ALIGN_16"  -> C2_ALIGN(b.width, 16)
      [] b.usage = "ALIGN_64"  -> C2_ALIGN(b.width, 64)
      [] b.usage = "ALIGN_128" -> C2_ALIGN(b.width, 128)
      [] b.usage = "ALIGN_256_ODD_TIMES" -> C2_ALIGN_ODD(b.width, 256)
      [] OTHER -> b.width

(***************************************************************************)
(* Properties.                                                             *)
(***************************************************************************)
\* While MPP decodes, every block it may write has the row length MPP writes
\* and room for its rows and the padding on top, whatever was asked, restarted
\* or changed in the stream before: the members ensureDecoderState computes
\* from, the blocks of the table and MPP's info move together.  Compressed 10
\* bits need the width only.  Not for a mode that changed while MPP was kept,
\* and not for buffer mode where MPP gives strides late: see the README.
BlockFits ==
    LET info == InfoNow
        ten  == dmpp.fbc /\ info.format.pixels = Pixels(10)
    IN  /\ dpc = "outframe" /\ InfoCurrent
        /\ dmpp.external = ~dec.mBufferMode
        /\ dec.mBufferMode => dmpp.givesStrides
        => \A b \in (IF dec.mBufferMode THEN {mOutBlock} \ {NoBlock} ELSE blocks) :
              /\ IF ten THEN StrideOfBlock(b) >= info.width ELSE StrideOfBlock(b) = info.hor
              /\ b.height >= info.ver + (IF dmpp.fbc THEN dmpp.fbcOf.offset[2] ELSE 0)

\* A frame is returned with its own aspects, and the client's defaults of that
\* moment where it has none: the cache of the last frame's aspects, which
\* survives flush, stop and release, is never older than the interface's.
AspectsFollow ==
    dpc = "outframe" /\ shown # NotShown /\ HasAspects(dec.mCodingType)
        => shown.with = DecColorAspectsSetter(shown.default, ToCodec2(shown.frame))
=============================================================================
