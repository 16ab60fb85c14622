----------------------------- MODULE EncConfig -----------------------------
(***************************************************************************)
(* What the encoder tells MPP (component/mpi/C2RKMpiEnc.cpp): initEncoder  *)
(* and its setups, the bitrate that follows the client, and how each input *)
(* frame is described.                                                     *)
(*                                                                         *)
(* The client sets parameters at any moment; the looper reads them under   *)
(* the interface's lock, once per setup.  mEncCfg keeps what a setup wrote *)
(* until a SET_CFG tells MPP all of it, and after one that failed.         *)
(***************************************************************************)
EXTENDS Integers, Sequences, EncParams, TemporalLayers, Platform

CONSTANTS
    EncOffers,         \* what the client may set: from parameter to values
    EncMaxChange,   \* bound: parameters set by the client
    Pictures,       \* the input frames
    EncMayFail      \* calls that may fail

\* What a handle knows of a row, where it knows it, and what the layout says
\* are both gralloc's; rates are counted.
ASSUME EncConfigAssumption ==
    /\ \A f \in Pictures : f.pitch # 0 => f.stride \in {0, f.pitch}
    /\ \A k \in {"bitrate", "frameRate"} \cap DOMAIN EncOffers : EncOffers[k] \subseteq Nat

VARIABLES
    params,         \* IntfImpl
    stamp,          \* the object that holds the bitrate: how often that was set
    changes,        \* how many parameters the client has set
    enc,            \* the members of C2RKMpiEnc
    mEncCfg,        \* the keys written so far
    told,           \* MPP: the keys it has, its header mode, its references
    refs,           \* MPP: where it is in the reference structure
    epc,            \* where process() is
    picture,        \* its input frame
    bitrate,        \* the bitrate object it has read
    sent,           \* the frame last put: how it is described, what it is
    seen,           \* history: the client's bitrates since process() began
    torn,           \* history: a parameter was set since initEncoder began
    failed          \* history: a control of the session failed

encVars == <<params, stamp, changes, enc, mEncCfg, told, refs, epc, picture, bitrate, sent,
             seen, torn, failed>>

NoPicture == [layout |-> "none", stride |-> 0, pitch |-> 0, width |-> 0, height |-> 0]
Described(fmt, hor, ver) == [fmt |-> fmt, hor |-> hor, ver |-> ver]
NotSent == [memory |-> Described("none", 0, 0), attr |-> Described("none", 0, 0),
            prep |-> Described("none", 0, 0)]

\* The keys MPP starts from (external).
NoCfg ==
    [type |-> "Unused", width |-> 0, height |-> 0, prep |-> Described("YUV420SP", 0, 0),
     scene |-> 0, gop |-> 0, fps |-> 0, mode |-> "CBR", target |-> 0, max |-> 0,
     min |-> 0, profile |-> "0", level |-> "0", trans8x8 |-> FALSE,
     qpI |-> <<0, 0>>, qpP |-> <<0, 0>>, qpInit |-> 0, qpIp |-> 0,
     range |-> 0, color |-> Unspecified]
NotTold == [cfg |-> NoCfg, eachIdr |-> FALSE, ref |-> Plain]

\* The members' values at construction; release() keeps most of them.  mMppMpi:
\* MPP's table of calls has been fetched.
EncMembers(codec, chip) ==
    [mCodingType |-> codec, mChipType |-> chip, mStarted |-> FALSE,
     mSize |-> [width |-> 0, height |-> 0], mBitrate |-> 0,
     mHorStride |-> 0, mVerStride |-> 0, mInputMppFmt |-> "YUV420SP",
     mCurLayerCount |-> 0, mMppMpi |-> FALSE]

EncInit(codec, device) ==
    /\ params = DefaultParams(codec) /\ stamp = 0 /\ changes = 0
    /\ enc = EncMembers(codec, getChipName(device).type)
    /\ mEncCfg = NoCfg /\ told = NotTold /\ refs = NoRefs
    /\ epc = "idle" /\ picture = NoPicture /\ bitrate = 0 /\ sent = NotSent
    /\ seen = {} /\ torn = FALSE /\ failed = FALSE

EncMay(call) == IF call \in EncMayFail THEN BOOLEAN ELSE {TRUE}

\* Without a context MPP refuses a control, and there are no keys to write
\* (external).
TakesCfg == IF enc.mStarted THEN EncMay("cfg") ELSE {FALSE}
Keyed(cfg) == IF enc.mStarted THEN cfg ELSE mEncCfg

\* MPP has no encoder for a codec that is not in the table of names (external).
EncOpens(codec) == IF codec = "Unused" THEN {FALSE} ELSE EncMay("init")

(***************************************************************************)
(* The client.                                                             *)
(***************************************************************************)
EncConfigure(k, v) ==
    /\ changes < EncMaxChange
    /\ v \in EncOffers[k]
    /\ params' = Configured(enc.mCodingType, params, k, v)
    /\ changes' = changes + 1
    /\ stamp' = IF k = "bitrate" THEN stamp + 1 ELSE stamp
    /\ seen' = IF epc = "idle" THEN seen ELSE seen \cup {params'.bitrate}
    /\ torn' = TRUE
    /\ UNCHANGED <<enc, mEncCfg, told, refs, epc, picture, bitrate, sent, failed>>

(***************************************************************************)
(* The setups: what each writes into mEncCfg.                              *)
(***************************************************************************)
setupBaseCodec(cfg, m) ==
    [cfg EXCEPT !.type = m.mCodingType, !.width = m.mSize.width, !.height = m.mSize.height,
                !.prep = Described("YUV420SP", m.mHorStride, m.mVerStride)]

setupSceneMode(cfg, p) == [cfg EXCEPT !.scene = p.sceneMode]

\* A gop of layers goes before the sync frame period; without either, 30.
setupFrameRate(cfg, p) ==
    LET layered == IF p.gop # << >> THEN SyncInterval(p.gop) ELSE 0
        idr == IF layered > 0 THEN layered ELSE getSyncFramePeriod_l(p)
    IN  [cfg EXCEPT !.gop = IF idr < 8640000 /\ idr > 1 THEN idr ELSE 30,
                    !.fps = IF p.frameRate = 1 THEN 30 ELSE p.frameRate]

setupBitRate(cfg, p) ==
    LET mode == getBitrateMode_l(p)
    IN  [cfg EXCEPT !.mode = mode, !.target = p.bitrate,
                    !.max = (p.bitrate * 17) \div 16,
                    !.min = IF mode = "VBR" THEN p.bitrate \div 16
                            ELSE (p.bitrate * 15) \div 16]

setupProfileParams(cfg, p, codec) ==
    IF codec \notin {"AVC", "HEVC"} THEN cfg
    ELSE [cfg EXCEPT !.profile = getProfile_l(codec, p), !.level = getLevel_l(codec, p),
                     !.trans8x8 = @ \/ (codec = "AVC" /\ getProfile_l(codec, p) \in AtLeastHigh)]

Clamp(x, low, high) == IF x < low THEN low ELSE IF x > high THEN high ELSE x

\* The range of a picture type is the last one the client gave for it.
QpRange(quantization, type, low, high) ==
    LET given == SelectSeq(quantization, LAMBDA q : q.type = type)
        last  == IF given = << >> THEN [min |-> low, max |-> high] ELSE given[Len(given)]
    IN  <<Clamp(last.min, low, high), Clamp(last.max, low, high)>>

setupQp(cfg, p, codec) ==
    LET vp8  == codec = "VP8"
        low  == IF vp8 THEN 0 ELSE 10
        qpI  == QpRange(p.quantization, "I", low, IF vp8 THEN 127 ELSE 51)
        qpP  == QpRange(p.quantization, "P", low, IF vp8 THEN 127 ELSE 49)
        want == IF vp8 THEN 40 ELSE 26
        init == IF want > qpI[2] \/ want < qpI[1] THEN qpI[1] ELSE want
    IN  [cfg EXCEPT !.qpI = qpI, !.qpInit = init, !.qpIp = IF vp8 THEN 6 ELSE 2,
                    !.qpP = IF getBitrateMode_l(p) = "FIXQP" THEN <<init, init>> ELSE qpP]

\* The aspects as ISO codes (the conversion is external: one code for one value).
setupVuiParams(cfg, p) ==
    [cfg EXCEPT !.range = IF p.codedAspects["range"] = 1 THEN 2 ELSE 0,
                !.color = [f \in Field |-> IF f = "range" THEN 0 ELSE p.codedAspects[f]]]

(***************************************************************************)
(* process(), up to its bitrate: initEncoder.  Parameters set between two  *)
(* of these steps reach some of the setups and not the others.             *)
(***************************************************************************)
EncBegin(f) ==
    /\ epc = "idle"
    /\ picture' = f
    /\ sent' = NotSent
    /\ seen' = {params.bitrate}
    /\ epc' = IF enc.mStarted THEN "bitrate" ELSE "init"
    /\ UNCHANGED <<params, stamp, changes, enc, mEncCfg, told, refs, bitrate, torn, failed>>

\* initEncoder: the size and the bitrate object, the strides before any frame.
AdoptParams(mMppMpi) ==
    /\ epc = "init"
    /\ enc' = [enc EXCEPT !.mSize = params.size, !.mBitrate = stamp,
                          !.mHorStride = C2_ALIGN(params.size.width, 16),
                          !.mVerStride = C2_ALIGN(params.size.height,
                                             IF enc.mCodingType = "VP8" THEN 16 ELSE 8),
                          !.mMppMpi = mMppMpi]
    /\ told' = NotTold /\ refs' = NoRefs
    /\ torn' = FALSE /\ failed' = FALSE
    /\ UNCHANGED <<params, stamp, changes, mEncCfg, picture, bitrate, sent, seen>>

\* mpp_create and mpp_init.
CreateMpp ==
    \E ok \in EncOpens(enc.mCodingType), fetched \in BOOLEAN :
        /\ ok => fetched
        /\ AdoptParams(fetched)
        /\ epc' = IF ok THEN "frameRate" ELSE "idle"

\* The temporary buffer cannot be allocated: initEncoder answers C2_OK all the
\* same, and process() goes on with nothing set up.  Before mMppMpi has been
\* fetched once, its next control is a call through a null pointer: left out.
AllocFails ==
    /\ FALSE \in EncMay("alloc") /\ enc.mMppMpi
    /\ AdoptParams(TRUE)
    /\ epc' = "bitrate"

\* setupEncCfg, its first half: MPP_ENC_GET_CFG, then three of the setups.
SetupPicture ==
    /\ epc = "frameRate"
    /\ mEncCfg' = setupFrameRate(setupSceneMode(setupBaseCodec(NoCfg, enc), params), params)
    /\ epc' = "bitRate"
    /\ UNCHANGED <<params, stamp, changes, enc, told, refs, picture, bitrate, sent, seen,
                   torn, failed>>

SetupBitRate ==
    /\ epc = "bitRate"
    /\ mEncCfg' = setupBitRate(mEncCfg, params)
    /\ epc' = "rest"
    /\ UNCHANGED <<params, stamp, changes, enc, told, refs, picture, bitrate, sent, seen,
                   torn, failed>>

\* releaseEncoder: MPP's context and mEncCfg go, the strides, the input format
\* and the layer count stay.
Released(m) == [m EXCEPT !.mStarted = FALSE]

\* setupTemporalLayers: the count is adopted when MPP takes the structure; its
\* failure, like that of the header mode, is not looked at.
setupTemporalLayers(ok) ==
    LET set == Layered(params.layerCount) /\ ok
    IN  [ref   |-> IF set THEN RefCfg(params.layerCount) ELSE Plain,
         count |-> IF set THEN params.layerCount ELSE enc.mCurLayerCount]
setupPrependHeaderSetting(ok) == params.prependHeader = "ALL_SYNC" /\ ok

\* setupEncCfg, the other half, and the end of initEncoder.
SetupRest ==
    /\ epc = "rest"
    /\ LET codec == enc.mCodingType
           cfg   == setupVuiParams(setupQp(setupProfileParams(mEncCfg, params, codec),
                                           params, codec), params)
       IN  \E layersOk \in EncMay("ref"), headerOk \in EncMay("header"), ok \in EncMay("cfg") :
              LET layers == setupTemporalLayers(layersOk)
                  m      == [enc EXCEPT !.mCurLayerCount = layers.count]
              IN  \/ /\ ok
                     /\ mEncCfg' = cfg
                     /\ told' = [cfg |-> cfg, ref |-> layers.ref,
                                 eachIdr |-> setupPrependHeaderSetting(headerOk)]
                     /\ enc' = [m EXCEPT !.mStarted = TRUE]
                     /\ epc' = "bitrate"
                  \/ /\ ~ok
                     /\ mEncCfg' = NoCfg /\ told' = NotTold
                     /\ enc' = Released(m)
                     /\ epc' = "idle"
    /\ UNCHANGED <<params, stamp, changes, refs, picture, bitrate, sent, seen, torn, failed>>

(***************************************************************************)
(* The bitrate that follows the client: the object is read under one lock, *)
(* its value for MPP under another.                                        *)
(***************************************************************************)
ReadBitrate ==
    /\ epc = "bitrate"
    /\ bitrate' = stamp
    /\ epc' = IF stamp = enc.mBitrate THEN "input" ELSE "rebitrate"
    /\ UNCHANGED <<params, stamp, changes, enc, mEncCfg, told, refs, picture, sent, seen,
                   torn, failed>>

Rebitrate ==
    /\ epc = "rebitrate"
    /\ mEncCfg' = Keyed(setupBitRate(mEncCfg, params))
    /\ epc' = "retarget"
    /\ UNCHANGED <<params, stamp, changes, enc, told, refs, picture, bitrate, sent, seen,
                   torn, failed>>

\* The object of now would be marked as handled with the value of before.
MutHandled(ok) == IF ok THEN stamp ELSE enc.mBitrate

\* The object that was read is the one handled, if MPP takes the bitrate.
Handled(ok) == IF ok THEN bitrate ELSE enc.mBitrate

Retarget ==
    /\ epc = "retarget"
    /\ \E ok \in TakesCfg :
          /\ told' = [told EXCEPT !.cfg = IF ok THEN mEncCfg ELSE @]
          /\ enc' = [enc EXCEPT !.mBitrate = Handled(ok)]
          /\ failed' = (failed \/ ~ok)
    /\ torn' = TRUE
    /\ epc' = "input"
    /\ UNCHANGED <<params, stamp, changes, mEncCfg, refs, picture, bitrate, sent, seen>>

(***************************************************************************)
(* getInBufferFromWork and sendframe.                                      *)
(***************************************************************************)
\* A stride the handle does not know is looked up in the buffer's layout.
StrideOf(f) == IF f.stride # 0 THEN f.stride
               ELSE IF f.pitch # 0 THEN f.pitch ELSE enc.mHorStride

\* What MPP can read where it is: in rows of 16 (a 3588 is less strict).
Is3588 == enc.mChipType = "3588"
RgbaAsIs(f) == Is3588 \/ (StrideOf(f) % 16 = 0 /\ f.height % 16 = 0)
YuvAsIs(f) == StrideOf(f) % 16 = 0 /\ (IF Is3588 THEN f.height % 4 < 2 ELSE f.height % 16 = 0)

\* The converted picture, in the temporary buffer with the strides of now.
Temporary == Described("YUV420SP", enc.mHorStride, enc.mVerStride)

\* Told of a new description of the input, if MPP takes it.
Redescribe(prep, mHorStride, mVerStride, fmt) ==
    /\ mEncCfg' = Keyed([mEncCfg EXCEPT !.prep = prep])
    /\ \E ok \in TakesCfg :
          /\ told' = [told EXCEPT !.cfg = IF ok THEN mEncCfg' ELSE @]
          /\ enc' = IF ok THEN [enc EXCEPT !.mHorStride = mHorStride,
                                           !.mVerStride = mVerStride, !.mInputMppFmt = fmt]
                    ELSE enc
          /\ failed' = (failed \/ ~ok)

AsBefore == UNCHANGED <<mEncCfg, told, enc, failed>>

InRgba(f) ==
    IF enc.mInputMppFmt # "RGBA8888"
    THEN Redescribe(Described("RGBA8888", enc.mHorStride * 4, enc.mVerStride),
                    enc.mHorStride, enc.mVerStride, "RGBA8888")
    ELSE AsBefore

\* The strides MPP is told are not kept for the frames.
MutInYuv(f) ==
    IF enc.mHorStride # StrideOf(f) \/ enc.mVerStride # f.height
    THEN Redescribe([mEncCfg.prep EXCEPT !.hor = StrideOf(f), !.ver = f.height],
                    enc.mHorStride, enc.mVerStride, enc.mInputMppFmt)
    ELSE AsBefore

InYuv(f) ==
    IF enc.mHorStride # StrideOf(f) \/ enc.mVerStride # f.height
    THEN Redescribe([mEncCfg.prep EXCEPT !.hor = StrideOf(f), !.ver = f.height],
                    StrideOf(f), f.height, enc.mInputMppFmt)
    ELSE AsBefore

\* How sendframe describes the frame.
FrameAttr(m) == Described(m.mInputMppFmt,
                          IF m.mInputMppFmt = "RGBA8888" THEN m.mHorStride * 4 ELSE m.mHorStride,
                          m.mVerStride)

\* encode_put_frame: MPP may begin again with an IDR at any frame, as its gop
\* or a request has it (external); the first frame is one.
MppEncodes ==
    \E idr \in BOOLEAN : refs' = Referred(told'.ref, IF idr THEN NoRefs ELSE refs)

PutNothing == sent' = NotSent /\ UNCHANGED refs

PutFrame(memory) ==
    \/ /\ enc.mStarted
       /\ sent' = [memory |-> memory, attr |-> FrameAttr(enc'), prep |-> told'.cfg.prep]
       /\ MppEncodes
    \/ ~enc.mStarted /\ PutNothing

\* A conversion that answers TRUE is believed.  (Into a temporary buffer that
\* could not be allocated it is a read through a null pointer: left out.)
Converted(f) ==
    /\ enc.mStarted
    /\ \E c \in Conversion(paramInit(f.width, f.height, StrideOf(f), f.height)) :
          IF c.ret THEN PutFrame(Temporary) ELSE PutNothing

SendPicture ==
    /\ epc = "input"
    /\ LET f == picture
           native == Described(f.layout, IF f.layout = "RGBA8888" THEN f.pitch * 4 ELSE f.pitch,
                               f.height)
       IN  \/ /\ f.layout = "RGBA8888" /\ RgbaAsIs(f)
              /\ InRgba(f) /\ PutFrame(native)
           \/ /\ f.layout = "YUV420SP" /\ YuvAsIs(f)
              /\ InYuv(f) /\ PutFrame(native)
           \/ /\ \/ f.layout = "RGBA8888" /\ ~RgbaAsIs(f)
                 \/ f.layout = "YUV420SP" /\ ~YuvAsIs(f)
              /\ AsBefore /\ Converted(f)
           \/ /\ f.layout = "other"       \* C2_BAD_VALUE
              /\ AsBefore /\ PutNothing
    /\ epc' = "idle"
    /\ UNCHANGED <<params, stamp, changes, picture, bitrate, seen, torn>>

EncRelease ==
    /\ epc = "idle" /\ enc.mStarted
    /\ enc' = Released(enc)
    /\ mEncCfg' = NoCfg /\ told' = NotTold /\ refs' = NoRefs /\ sent' = NotSent
    /\ UNCHANGED <<params, stamp, changes, epc, picture, bitrate, seen, torn, failed>>

EncNext ==
    \/ \E k \in DOMAIN EncOffers : \E v \in EncOffers[k] : EncConfigure(k, v)
    \/ \E f \in Pictures : EncBegin(f)
    \/ CreateMpp \/ AllocFails \/ SetupPicture \/ SetupBitRate \/ SetupRest
    \/ ReadBitrate \/ Rebitrate \/ Retarget
    \/ SendPicture \/ EncRelease

(***************************************************************************)
(* Properties.                                                             *)
(***************************************************************************)
\* With temporal layers, whatever frames are encoded and wherever an IDR
\* begins the structure again, a frame refers to one that is there and is not
\* of a higher layer: a receiver may drop the higher layers of the tables of
\* setupTemporalLayers().
LayersDecodable ==
    enc.mStarted /\ refs.pos > 0 =>
        ReferredTid(told.ref, refs) \in 0 .. TidAt(told.ref, refs)

\* The level MPP is told at the start meets the size, the frame rate and the
\* bitrate MPP is told with it, if a row of the table does: the setters keep
\* the level in step with whatever the client set, in whatever order.  Not when
\* the client left the frame rate at 1, of which setupFrameRate makes 30 and
\* the level knows nothing, and not once a parameter changes.
LevelCovers ==
    LET codec == enc.mCodingType
        c     == told.cfg
        rows  == Feasible(codec, [width |-> c.width, height |-> c.height], c.fps, c.target)
        InTable == \E i \in DOMAIN Limits(codec) : Limits(codec)[i].level = c.level
    IN  enc.mStarted /\ ~torn /\ codec \in {"AVC", "HEVC"} /\ params.mLevel = NotSet
            /\ params.frameRate # 1 /\ rows # {} /\ InTable
        => \E i \in rows : Limits(codec)[i].level = c.level

\* The memory of a frame is what both its own attributes and the last SET_CFG
\* say it is, as pictures change between being taken as they are and being
\* converted: while no control failed and no RGBA picture was ever taken as it
\* is, mHorStride, mVerStride and mEncCfg go together.
InputDescribed ==
    sent # NotSent /\ ~failed /\ enc.mInputMppFmt = "YUV420SP" /\ picture.pitch # 0
        => sent.attr = sent.memory /\ sent.prep = sent.memory

\* When a frame is about to be sent, MPP's target is a bitrate the client had
\* while this work was processed: a request that comes between the two locks
\* of the bitrate's handling, or within initEncoder, is not lost.  Not after a
\* control that failed, nor where the temporary buffer could not be allocated:
\* there process() gets this far with no MPP to be told or sent anything.
RateFollows == epc = "input" /\ enc.mStarted /\ ~failed => told.cfg.target \in seen
=============================================================================
