-------------------------- MODULE MCConfiguration --------------------------
(***************************************************************************)
(* Values for TLC: devices at each side of what the code tells apart       *)
(* (gralloc 4 or not, compression or not, an RK3588 or not), names of each *)
(* kind, and parameters that meet every rule of the setters.               *)
(***************************************************************************)
EXTENDS Configuration

Device(tree, cpuinfo, api, fbcDisable) ==
    [tree |-> tree, cpuinfo |-> cpuinfo, apiLevel |-> api, fbcDisable |-> fbcDisable]

RK3588 == Device({"rk3588"}, {}, 33, -1)        \* gralloc 4 and compression
RK3399 == Device({}, {"rk3399"}, 33, -1)        \* gralloc 4
RK3566 == Device({"rk3566"}, {}, 29, -1)        \* compression
RK3368 == Device({"rk3368h"}, {"rk3368"}, 28, 1)
NoChip == Device({}, {}, 33, -1)

Plainly(codec, kind) == Named(FALSE, codec, kind, FALSE)
Unlisted == Named(TRUE, "vp8", "decoder", FALSE)
NoKind == Plainly("avc", "filter")

MCRequests ==
    [name : {Plainly("avc", "decoder")}, device : {RK3588, RK3399, RK3566, NoChip}]
    \cup [name : {Plainly("vp9", "decoder")}, device : {RK3399, RK3566}]
    \cup [name : {Plainly("mpeg2", "decoder"), Plainly("avc", "encoder")}, device : {RK3368}]
    \cup [name : {Plainly("avc", "encoder"), Plainly("vp8", "encoder")}, device : {RK3588}]
    \cup [name : {Plainly("hevc", "encoder")}, device : {RK3399}]
    \cup [name : {Unlisted, NoKind}, device : {RK3588}]

(***************************************************************************)
(* The encoder.                                                            *)
(***************************************************************************)
Size(w, h) == [width |-> w, height |-> h]

MCEncOffers ==
    [size |-> {Size(1920, 1080)}, bitrate |-> {4000, 30000000}, frameRate |-> {60},
     gop |-> {<<[type |-> "P", count |-> 9], [type |-> "PB", count |-> 2]>>},
     layerCount |-> {3, 4},
     profileLevel |-> {[profile |-> "AVC_HIGH", level |-> "4"]}]

Picture(layout, stride, pitch, width, height) ==
    [layout |-> layout, stride |-> stride, pitch |-> pitch, width |-> width, height |-> height]

MCPictures ==
    { Picture("RGBA8888", 192, 192, 176, 144), Picture("YUV420SP", 256, 256, 176, 144),
      Picture("YUV420SP", 0, 180, 180, 144),   Picture("other", 0, 0, 176, 144) }

(***************************************************************************)
(* The decoder.                                                            *)
(***************************************************************************)
MCDecOffers ==
    [size |-> {Size(3840, 2160)},
     outputPool |-> {BUFFERQUEUE, "BASIC_GRAPHIC"},
     defaultAspects |-> {Specified(0, 1, 6, 0)}]

Stream(width, height, bits, aspects) ==
    [width |-> width, height |-> height, bits |-> bits, aspects |-> aspects]

MCStreams ==
    { Stream(854, 480, 8, Specified(0, 2, 2, 2)),
      Stream(3840, 2160, 8, Specified(1, 2, 2, 2)),
      Stream(1920, 1080, 10, Specified(0, 1, 1, 1)) }

MCStrides == {64, 256}
MCEncMayFail == {"init", "alloc", "ref", "cfg"}
MCDecMayFail == {"init", "fetch", "ready"}
=============================================================================
