--------------------------- MODULE TemporalLayers ---------------------------
(***************************************************************************)
(* The reference structures setupTemporalLayers() (C2RKMpiEnc.cpp) gives   *)
(* MPP for 4, 3 and 2 temporal layers, and what MPP does with one          *)
(* (external, rk_venc_ref.h): the first frame after an IDR is entry 0 of   *)
(* the short-term list, the others go round the rest of it; every lt_gap   *)
(* frames one is the long-term reference.                                  *)
(***************************************************************************)
EXTENDS Integers, Sequences

St(nonRef, tid, mode) == [is_non_ref |-> nonRef, temporal_id |-> tid, ref_mode |-> mode]

tsvc4 ==
    [lt |-> << [temporal_id |-> 0, lt_gap |-> 8] >>,
     st |-> << St(0, 0, "LAYER_0"),  St(1, 3, "PREV_REF"), St(0, 2, "PREV_REF"),
               St(1, 3, "PREV_REF"), St(0, 1, "PREV_LT"),  St(1, 3, "PREV_REF"),
               St(0, 2, "PREV_REF"), St(1, 3, "PREV_REF"), St(0, 0, "LAYER_0") >>]

tsvc3 ==
    [lt |-> << >>,
     st |-> << St(0, 0, "LAYER_0"), St(1, 2, "PREV_REF"), St(0, 1, "PREV_REF"),
               St(1, 2, "PREV_REF"), St(0, 0, "LAYER_0") >>]

tsvc2 ==
    [lt |-> << >>,
     st |-> << St(0, 0, "LAYER_0"), St(1, 1, "PREV_REF"), St(0, 0, "PREV_REF") >>]

\* No structure: each frame refers to the one before it.
Plain == [lt |-> << >>, st |-> << St(0, 0, "PREV_REF"), St(0, 0, "PREV_REF") >>]

\* The counts that are given a structure; 0 and 1 ask for none, others are ignored.
Layered(layerCount) == layerCount \in 2 .. 4

\* The middle frame of four layers refers to the frame before it.
MutRefCfg(layerCount) ==
    IF layerCount = 4 THEN [tsvc4 EXCEPT !.st[5].ref_mode = "PREV_REF"]
    ELSE IF layerCount = 3 THEN tsvc3 ELSE tsvc2

RefCfg(layerCount) ==
    CASE layerCount = 4 -> tsvc4 [] layerCount = 3 -> tsvc3 [] layerCount = 2 -> tsvc2


(***************************************************************************)
(* MPP's references.  pos counts frames from the IDR, which is 0, and goes *)
(* round from the end of the list to 1 (lt_gap is the same cycle); the     *)
(* rest is the temporal id of what each reference mode finds, None when    *)
(* nothing is there.                                                       *)
(***************************************************************************)
None == -1
NoRefs == [pos |-> 0, prevRef |-> None, prevLt |-> None, layer0 |-> None]

EntryAt(cfg, pos) == IF pos = 0 THEN cfg.st[1] ELSE cfg.st[2 + ((pos - 1) % (Len(cfg.st) - 1))]

IsLongTerm(cfg, pos) == cfg.lt # << >> /\ pos % cfg.lt[1].lt_gap = 0

\* The temporal id of the frame at this place, and of the frame it refers to.
TidAt(cfg, refs) == IF IsLongTerm(cfg, refs.pos) THEN cfg.lt[1].temporal_id
                    ELSE EntryAt(cfg, refs.pos).temporal_id
ReferredTid(cfg, refs) ==
    IF IsLongTerm(cfg, refs.pos) THEN refs.prevLt
    ELSE CASE EntryAt(cfg, refs.pos).ref_mode = "PREV_REF" -> refs.prevRef
           [] EntryAt(cfg, refs.pos).ref_mode = "PREV_LT"  -> refs.prevLt
           [] EntryAt(cfg, refs.pos).ref_mode = "LAYER_0"  -> refs.layer0

\* The references after the frame at this place is encoded.
Referred(cfg, refs) ==
    LET tid == TidAt(cfg, refs)
        lt  == IsLongTerm(cfg, refs.pos)
        kept == lt \/ EntryAt(cfg, refs.pos).is_non_ref = 0
    IN  [pos     |-> IF refs.pos < Len(cfg.st) - 1 THEN refs.pos + 1 ELSE 1,
         prevRef |-> IF kept THEN tid ELSE refs.prevRef,
         prevLt  |-> IF lt THEN tid ELSE refs.prevLt,
         layer0  |-> IF kept /\ tid = 0 THEN 0 ELSE refs.layer0]
=============================================================================
