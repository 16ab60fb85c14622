------------------------------ MODULE Platform ------------------------------
(***************************************************************************)
(* What the codecs ask of the device they run on (osal/): which chip it is *)
(* (C2RKChips), which gralloc it has (C2RKGrallocDef), whether its decoder *)
(* compresses its output (C2RKFbcDef), how strides are aligned and named   *)
(* (C2RKMediaUtils), and what the 2D engine answers (C2RKRgaDef).          *)
(*                                                                         *)
(* A text (the device tree's compatible string, a line of cpuinfo) is the  *)
(* set of chip names written in it; strstr then also finds the names that  *)
(* are part of a longer one.                                               *)
(***************************************************************************)
EXTENDS Integers, Sequences, FiniteSets, SequencesExt

NULL == [name |-> "none", type |-> "none"]

\* The table of chips, in the order in which it is searched.
ChipList ==
    << [name |-> "unkown",  type |-> "UNKOWN"],
       [name |-> "rk2928",  type |-> "2928"],  [name |-> "rk3036",  type |-> "3036"],
       [name |-> "rk3066",  type |-> "3066"],  [name |-> "rk3188",  type |-> "3188"],
       [name |-> "rk312x",  type |-> "312X"],  [name |-> "rk3128h", type |-> "3128H"],
       [name |-> "rk3128m", type |-> "3128M"], [name |-> "rk3128",  type |-> "312X"],
       [name |-> "rk3126",  type |-> "312X"],  [name |-> "rk3288",  type |-> "3288"],
       [name |-> "rk3228a", type |-> "3228A"], [name |-> "rk3228b", type |-> "3228B"],
       [name |-> "rk322x",  type |-> "3229"],  [name |-> "rk3229",  type |-> "3229"],
       [name |-> "rk3228h", type |-> "3228H"], [name |-> "rk3328",  type |-> "3328"],
       [name |-> "rk3399",  type |-> "3399"],  [name |-> "rk3368a", type |-> "3368A"],
       [name |-> "rk3368h", type |-> "3368H"], [name |-> "rk3368",  type |-> "3368"],
       [name |-> "rk3326",  type |-> "3326"],  [name |-> "px30",    type |-> "3326"],
       [name |-> "rk3566",  type |-> "3566"],  [name |-> "rk3568",  type |-> "3568"],
       [name |-> "rv1126",  type |-> "1126"],  [name |-> "rk3588",  type |-> "3588"] >>

ChipName == {ChipList[i].name : i \in DOMAIN ChipList}

\* The table names that strstr finds in a text.
Inside(text) ==
    text \cup (IF text \cap {"rk3128h", "rk3128m"} # {} THEN {"rk3128"} ELSE {})
         \cup (IF text \cap {"rk3368a", "rk3368h"} # {} THEN {"rk3368"} ELSE {})

\* match: the first entry of a table whose name is in the text, or NULL.
match(text) ==
    LET found == {i \in DOMAIN ChipList : ChipList[i].name \in Inside(text)}
    IN  IF found = {} THEN NULL
        ELSE ChipList[CHOOSE i \in found : \A j \in found : i <= j]

\* The efuse is read and not believed: FIXME in the code.
readEfuse(device) == NULL
readDeviceTree(device) == match(device.tree)
readCpuInforNode(device) == match(device.cpuinfo)

\* getChipName: the first of the three sources that knows the chip.
getChipName(device) ==
    CASE readEfuse(device) # NULL -> readEfuse(device)
      [] readEfuse(device) = NULL /\ readDeviceTree(device) # NULL ->
             readDeviceTree(device)
      [] OTHER -> readCpuInforNode(device)

\* A system property as a number: one that is not set (-1) is the default.
GetEnvU32(property, default) == IF property \in Nat THEN property ELSE default

(***************************************************************************)
(* gralloc.  Every name of this table comes before the names inside it, so *)
(* the first match of a chip's name is the name itself; rv1126 has none.   *)
(***************************************************************************)
GrallocInfos ==
    [n \in ChipName \ {"rv1126"} |->
        CASE n = "unkown" -> 0
          [] n \in {"rk3399", "rk3326", "rk3566", "rk3568", "rk3588"} -> 4
          [] OTHER -> 3]

getGrallocVersion(device) ==
    LET chip == getChipName(device)
    IN  IF chip # NULL /\ chip.name \in DOMAIN GrallocInfos
        THEN GrallocInfos[chip.name] ELSE 0

getAndroidVerison(device) == GetEnvU32(device.apiLevel, 0)

(***************************************************************************)
(* Frame buffer compression: which codecs of which chips write it, and how *)
(* many rows of padding they put on top of the picture.                    *)
(***************************************************************************)
AFBC_16x16 == 1

FbcCaps(name) ==
    IF name \in {"rk3566", "rk3568", "rk3588"}
    THEN << [codecId |-> "AVC",  fbcMode |-> AFBC_16x16, offsetX |-> 0, offsetY |-> 4],
            [codecId |-> "HEVC", fbcMode |-> AFBC_16x16, offsetX |-> 0, offsetY |-> 4],
            [codecId |-> "VP9",  fbcMode |-> AFBC_16x16, offsetX |-> 0, offsetY |-> 0] >>
    ELSE << >>

\* The capability of this codec on this chip, at most one.
CapsOf(device, codecId) ==
    LET chip == getChipName(device)
    IN  {c \in UNION {Range(FbcCaps(n)) : n \in Inside({chip.name})} : c.codecId = codecId}

getFbcOutputMode(device, codecId) ==
    IF \/ getChipName(device) = NULL
       \/ GetEnvU32(device.fbcDisable, 0) = 1
       \/ CapsOf(device, codecId) = {}
    THEN 0
    ELSE (CHOOSE c \in CapsOf(device, codecId) : TRUE).fbcMode

getFbcOutputOffset(device, codecId) ==
    IF getFbcOutputMode(device, codecId) = 0 THEN <<0, 0>>
    ELSE LET c == CHOOSE c \in CapsOf(device, codecId) : TRUE
         IN  <<c.offsetX, c.offsetY>>

(***************************************************************************)
(* Strides.  C2_ALIGN and C2_ALIGN_ODD mask the low bits of x + a - 1, for *)
(* a power of two; the second also sets bit a.                             *)
(***************************************************************************)
C2_ALIGN(x, a) == ((x + a - 1) \div a) * a
C2_ALIGN_ODD(x, a) ==
    LET n == (x + a - 1) \div a IN (IF n % 2 = 1 THEN n ELSE n + 1) * a

\* The gralloc usage that makes gralloc choose MPP's stride for this width.
getStrideUsage(width, stride) ==
    CASE stride = C2_ALIGN_ODD(width, 256) -> "ALIGN_256_ODD_TIMES"
      [] stride # C2_ALIGN_ODD(width, 256) /\ stride = C2_ALIGN(width, 128) -> "ALIGN_128"
      [] /\ stride \notin {C2_ALIGN_ODD(width, 256), C2_ALIGN(width, 128)}
         /\ stride = C2_ALIGN(width, 64) -> "ALIGN_64"
      [] OTHER -> "ALIGN_16"

\* colorFormatMpiToAndroid: MPP's pixel format as gralloc's.
colorFormatMpiToAndroid(format, fbc) ==
    CASE format = "YUV420SP"       -> IF fbc THEN "YUV420_8BIT_I" ELSE "NV12"
      [] format = "YUV420SP_10BIT" -> IF fbc THEN "YUV420_10BIT_I" ELSE "NV12_10"
      [] format = "YUV422SP"       -> IF fbc THEN "422_I" ELSE "422_SP"
      [] format = "YUV422SP_10BIT" -> IF fbc THEN "Y210" ELSE "422_SP_10"
      [] OTHER                     -> "NV12"

(***************************************************************************)
(* The 2D engine (external) behind C2RKRgaDef: rgbToNv12 and nv12Copy look *)
(* at the source's stride first and call the copy done without doing it.   *)
(***************************************************************************)
paramInit(width, height, wstride, hstride) ==
    [width |-> width, height |-> height,
     wstride |-> IF wstride > 0 THEN wstride ELSE width,
     hstride |-> IF hstride > 0 THEN hstride ELSE height]

\* What a conversion may answer, and whether the destination was written.
Conversion(src) ==
    IF src.wstride % 4 # 0 THEN {[ret |-> TRUE, written |-> FALSE]}
    ELSE {[ret |-> TRUE, written |-> TRUE], [ret |-> FALSE, written |-> FALSE]}
=============================================================================
