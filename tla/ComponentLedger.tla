-------------------------- MODULE ComponentLedger --------------------------
(***************************************************************************)
(* C2RKComponent implements WorkLedger: the works in the queue, in the     *)
(* pending map and inside processQueue are the ones held, mGeneration is   *)
(* the epoch.                                                              *)
(***************************************************************************)
EXTENDS C2RKComponent

Ledger == INSTANCE WorkLedger WITH held <- Held, epoch <- mGeneration,
                                   stamp <- acceptedIn

\* Every step of the component, under any interleaving of the clients and the
\* looper, is a step of the ledger or leaves it alone: each flush returns all
\* works but one, and no work ends twice or succeeds after it was flushed.
ImplementsLedger == Ledger!Spec

=============================================================================
