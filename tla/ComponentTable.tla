--------------------------- MODULE ComponentTable ---------------------------
(***************************************************************************)
(* From a component's name to the component: the table of names            *)
(* (C2RKMediaUtils), the factory that picks decoder or encoder             *)
(* (C2RKComponentFactory, and the factories in C2RKMpiDec and C2RKMpiEnc), *)
(* and the parameters every component publishes (C2RKInterface).           *)
(*                                                                         *)
(* A name is the record of its parts: [OMX.]c2.rk.<codec>.<kind>[.secure]. *)
(***************************************************************************)
EXTENDS Naturals, FiniteSets

ComponentName(codecs, kinds) ==
    [omx : BOOLEAN, codec : codecs, kind : kinds, secure : BOOLEAN]

Named(omx, codec, kind, secure) ==
    [omx |-> omx, codec |-> codec, kind |-> kind, secure |-> secure]

\* The names of the table; strcasecmp: case does not tell two names apart.
kComponentMapEntry ==
         {Named(FALSE, c, "decoder", FALSE) :
              c \in {"avc", "vp9", "hevc", "vp8", "mpeg2", "m4v", "h263", "av1"}}
    \cup {Named(FALSE, c, "decoder", TRUE) :
              c \in {"avc", "vp9", "hevc", "vp8", "mpeg2", "m4v"}}
    \cup {Named(TRUE, c, "decoder", FALSE) : c \in {"avc", "vp9", "hevc"}}
    \cup {Named(FALSE, c, "encoder", FALSE) : c \in {"avc", "hevc", "vp8"}}

CodingTypeOf ==
    [avc |-> "AVC", vp9 |-> "VP9", hevc |-> "HEVC", vp8 |-> "VP8", mpeg2 |-> "MPEG2",
     m4v |-> "MPEG4", h263 |-> "H263", av1 |-> "AV1"]

getCodingTypeFromComponentName(name) ==
    IF name \in kComponentMapEntry THEN CodingTypeOf[name.codec] ELSE "Unused"

\* The mime type is named by its codec; one that is not found stays empty.
getMimeFromComponentName(name) ==
    IF name \in kComponentMapEntry THEN CodingTypeOf[name.codec] ELSE ""

\* The kind is read in the text: a name outside the table has one too.
getKindFromComponentName(name) ==
    IF name.kind \in {"encoder", "decoder"} THEN name.kind ELSE "none"

\* What the factory's mDomain may be: not written for a name outside the table.
getDomainFromComponentName(name) ==
    IF getCodingTypeFromComponentName(name) # "Unused" THEN {"video"}
    ELSE {"other", "video", "audio", "image"}

(***************************************************************************)
(* The factories.  None is made without a kind; a component is made        *)
(* whatever the table says, from what the factory found.                   *)
(***************************************************************************)
CreateRKCodec2Factory(name) ==
    IF getKindFromComponentName(name) = "none" THEN {}
    ELSE {[kind |-> getKindFromComponentName(name), name |-> name,
           mime |-> getMimeFromComponentName(name), domain |-> d] :
              d \in getDomainFromComponentName(name)}

(***************************************************************************)
(* BaseParams: the formats, allocators and pools of a component's two      *)
(* ends.  Only the allocators and the output pool can be set later.        *)
(***************************************************************************)
Linear  == [type |-> "LINEAR",  allocator |-> "DEFAULT_LINEAR",  pool |-> "BASIC_LINEAR"]
Graphic == [type |-> "GRAPHIC", allocator |-> "DEFAULT_GRAPHIC", pool |-> "BASIC_GRAPHIC"]

RawSide(domain) == IF domain \in {"image", "video"} THEN Graphic ELSE Linear
RawMedia(domain) ==
    CASE domain \in {"image", "video"} -> "RAW_VIDEO"
      [] domain = "audio" -> "RAW_AUDIO"
      [] OTHER -> ""

BaseParams(f) ==
    LET raw   == RawSide(f.domain)
        coded == IF f.mime = RawMedia(f.domain) THEN raw ELSE Linear
    IN  IF f.kind = "encoder"
        THEN [input |-> raw, inputMedia |-> RawMedia(f.domain),
              output |-> coded, outputMedia |-> f.mime]
        ELSE [input |-> coded, inputMedia |-> f.mime,
              output |-> raw, outputMedia |-> RawMedia(f.domain)]
=============================================================================
