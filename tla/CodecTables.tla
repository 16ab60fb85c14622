---------------------------- MODULE CodecTables ----------------------------
(***************************************************************************)
(* C2RKCodecMapper: profiles, levels and bitrate modes of Codec2 (column   *)
(* "c2") or of MediaCodec (column "codec"), as MPP names them ("mpp").     *)
(***************************************************************************)
EXTENDS Naturals, Sequences

\* The first row of a table with this value in a column, or the default.
Lookup(table, column, value, default) ==
    LET rows == {i \in DOMAIN table : table[i][column] = value}
    IN  IF rows = {} THEN default
        ELSE table[CHOOSE i \in rows : \A j \in rows : i <= j].mpp

Column(c2Type) == IF c2Type THEN "c2" ELSE "codec"

Row(c2, codec, mpp) == [c2 |-> c2, codec |-> codec, mpp |-> mpp]

kAProfileMaps ==
    << Row("AVC_BASELINE",             "Baseline",            "BASELINE"),
       Row("AVC_CONSTRAINED_BASELINE", "ConstrainedBaseline", "BASELINE"),
       Row("AVC_MAIN",                 "Main",                "MAIN"),
       Row("AVC_EXTENDED",             "Extended",            "EXTENDED"),
       Row("AVC_HIGH",                 "High",                "HIGH"),
       Row("AVC_PROGRESSIVE_HIGH",     "High",                "HIGH"),
       Row("AVC_CONSTRAINED_HIGH",     "ConstrainedHigh",     "HIGH"),
       Row("AVC_HIGH_10",              "High10",              "HIGH10"),
       Row("AVC_PROGRESSIVE_HIGH_10",  "High10",              "HIGH10"),
       Row("AVC_HIGH_422",             "High422",             "HIGH422"),
       Row("AVC_HIGH_444_PREDICTIVE",  "High444",             "HIGH444"),
       Row("AVC_HIGH_10_INTRA",        "High10",              "HIGH10"),
       Row("AVC_HIGH_422_INTRA",       "High422",             "HIGH422"),
       Row("AVC_HIGH_444_INTRA",       "High444",             "HIGH444"),
       Row("AVC_CAVLC_444_INTRA",      "High444",             "HIGH444") >>

\* "profile >= MPP_H264_HIGH" of setupProfileParams
AtLeastHigh == {"HIGH", "HIGH10", "HIGH422", "HIGH444"}

getMppH264Profile(profile, c2Type) ==
    Lookup(kAProfileMaps, Column(c2Type), profile, "MAIN")

\* A level has one name in the three columns: its digits.
kALevels == << "1", "1B", "1_1", "1_2", "1_3", "2", "2_1", "2_2", "3", "3_1", "3_2",
               "4", "4_1", "4_2", "5", "5_1", "5_2", "6", "6_1", "6_2" >>
kALevelMaps == [i \in DOMAIN kALevels |-> Row(kALevels[i], kALevels[i], kALevels[i])]

getMppH264Level(level, c2Type) == Lookup(kALevelMaps, Column(c2Type), level, "4_1")

kHProfileMaps ==
    << Row("HEVC_MAIN",          "", "MAIN"),
       Row("HEVC_MAIN_10",       "", "MAIN_10"),
       Row("HEVC_MAIN_STILL",    "", "MAIN_STILL_PICTURE"),
       Row("HEVC_MAIN_INTRA",    "", "MAIN"),
       Row("HEVC_MAIN_10_INTRA", "", "MAIN_10") >>

getMppH265Profile(profile) == Lookup(kHProfileMaps, "c2", profile, "MAIN")

kHLevels == << "1", "2", "2_1", "3", "3_1", "4", "4_1", "5", "5_1", "5_2", "6", "6_1", "6_2" >>
kHLevelMaps == [i \in DOMAIN kHLevels |-> Row(kHLevels[i], "", kHLevels[i])]

getMppH265Level(level) == Lookup(kHLevelMaps, "c2", level, "4_1")

kBModeMaps ==
    << Row("IGNORE",             "CQ",     "FIXQP"),
       Row("VARIABLE",           "VBR",    "VBR"),
       Row("CONST",              "CBR",    "CBR"),
       Row("CONST_SKIP_ALLOWED", "CBR_FD", "CBR") >>

getMppBitrateMode(mode, c2Type) == Lookup(kBModeMaps, Column(c2Type), mode, "CBR")
=============================================================================
