----------------------------- MODULE WorkLedger -----------------------------
(***************************************************************************)
(* What a Codec2 component promises about the works it is given, without   *)
(* threads, queues or locks.  A work is held from the moment it is         *)
(* accepted until it ends once.  A flush opens a new epoch and gives back  *)
(* every work but the one the component is busy with; a work that outlived *)
(* a flush can still be lost or dropped, but it is not returned as done.   *)
(* C2RKComponent implements this module (see ComponentLedger).             *)
(***************************************************************************)
EXTENDS Naturals

CONSTANT Work

VARIABLES
    held,       \* the works the component answers for
    epoch,      \* the number of flushes
    stamp,      \* stamp[w]: the epoch in which w was accepted
    fate        \* fate[w]: how w ended, "none" while it has not

vars == <<held, epoch, stamp, fate>>

Init ==
    /\ held = {} /\ epoch = 0
    /\ stamp = [w \in Work |-> 0] /\ fate = [w \in Work |-> "none"]

\* the works of S end as f
End(S, f) ==
    /\ held' = held \ S
    /\ fate' = [w \in Work |-> IF w \in S THEN f ELSE fate[w]]

Accept(S) ==
    /\ S \cap held = {} /\ \A w \in S : fate[w] = "none"
    /\ held' = held \cup S
    /\ stamp' = [w \in Work |-> IF w \in S THEN epoch ELSE stamp[w]]
    /\ UNCHANGED <<epoch, fate>>

\* only a work of the present epoch is returned as done, or as corrupted when
\* another work takes its frame index
Return(w) ==
    /\ w \in held /\ stamp[w] = epoch
    /\ \E f \in {"done", "corrupted"} : End({w}, f)
    /\ UNCHANGED <<epoch, stamp>>

ReturnStale(w) ==
    /\ w \in held /\ stamp[w] # epoch
    /\ End({w}, "not_found")
    /\ UNCHANGED <<epoch, stamp>>

\* the component has no block pool and reports an error instead of the work
Lose(w) ==
    /\ w \in held
    /\ End({w}, "lost")
    /\ UNCHANGED <<epoch, stamp>>

AllButOne(S) == S \subseteq held /\ \A v, w \in held \ S : v = w

Flush(S) ==
    /\ AllButOne(S)
    /\ epoch' = epoch + 1
    /\ End(S, "flushed")
    /\ UNCHANGED stamp

\* stop() and reset() drop the works without a callback
Discard(S) ==
    /\ AllButOne(S)
    /\ End(S, "dropped")
    /\ UNCHANGED <<epoch, stamp>>

Next ==
    \/ \E S \in SUBSET Work : Accept(S) \/ Flush(S) \/ Discard(S)
    \/ \E w \in Work : Return(w) \/ ReturnStale(w) \/ Lose(w)

Spec == Init /\ [][Next]_vars

=============================================================================
