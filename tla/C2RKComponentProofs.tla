------------------------ MODULE C2RKComponentProofs ------------------------
(***************************************************************************)
(* Theorems about C2RKComponent, for any number of clients, calls and      *)
(* works and any numbering of frames.  The inductive invariant is          *)
(* InductiveInv of ComponentInv; each of its parts is shown to be kept by  *)
(* every step, then the properties follow from it, then the steps are      *)
(* mapped to steps of WorkLedger.                                          *)
(***************************************************************************)
EXTENDS ComponentOwnerProofs

-----------------------------------------------------------------------------
(* Generations.                                                            *)

\* the works pushed are of the present generation
LEMMA GenerationPush ==
    ASSUME TypeInv, OwnerInv, GenerationInv, NEW c \in Client, Push(c)
    PROVE  GenerationInv'
<1>1. /\ mQueue' = mQueue \o items[c]
      /\ UNCHANGED <<mPendingWork, work, generation, mGeneration, mFlush>>
      /\ acceptedIn' = [w \in Work |-> IF w \in Works(items[c])
                                       THEN mGeneration ELSE acceptedIn[w]]
  BY DEF Push, Enqueue, localVars
<1>2. Held' = Held \cup Works(items[c])
  <2>1. mQueue \in Seq(Work \cup {Null}) /\ items[c] \in Seq(Work \cup {Null})
    BY OwnerTypes
  <2>2. Works(mQueue') = Works(mQueue) \cup Works(items[c])
    BY <1>1, <2>1, WorksConcat
  <2>3. QED BY <1>1, <2>2 DEF Held, Queued
<1>3. /\ \A w \in Held : acceptedIn'[w] = acceptedIn[w]
      /\ \A w \in Works(items[c]) : acceptedIn'[w] = mGeneration
  BY <1>1, OwnerFacts, OwnerTypes
<1>4. work # Null => work \in Held
  BY OwnerFacts
<1>5. QED
  BY <1>1, <1>2, <1>3, <1>4 DEF GenerationInv, OneStaleWork

\* a drain entry is no work
LEMMA GenerationMarkDrain ==
    ASSUME TypeInv, GenerationInv, NEW c \in Client, MarkDrain(c)
    PROVE  GenerationInv'
<1> DEFINE entry == <<Null>>
<1>1. /\ mQueue' = mQueue \o entry
      /\ UNCHANGED <<mPendingWork, work, generation, mGeneration, mFlush,
                     acceptedIn>>
  BY DEF MarkDrain, Enqueue, localVars
<1>2. Works(entry) = {} /\ entry \in Seq(Work \cup {Null})
  BY DEF Works
<1> HIDE DEF entry
<1>3. Held' = Held
  <2>1. mQueue \in Seq(Work \cup {Null}) /\ entry \in Seq(Work \cup {Null})
    BY <1>2, OwnerTypes
  <2>2. Works(mQueue \o entry) = Works(mQueue) \cup Works(entry)
    BY ONLY <2>1, WorksConcat
  <2>3. QED BY <1>1, <1>2, <2>2 DEF Held, Queued
<1>4. QED
  BY <1>1, <1>3 DEF GenerationInv, OneStaleWork

\* flush_sm leaves only the work in hand, and sets mFlush
LEMMA GenerationFlush ==
    ASSUME TypeInv, GenerationInv, NEW c \in Client, FlushQueue(c)
    PROVE  GenerationInv'
<1>1. /\ mQueue' = <<>> /\ mPendingWork' = {}
      /\ UNCHANGED <<work, generation, acceptedIn>>
      /\ mGeneration' = mGeneration + 1 /\ mFlush' = TRUE
  BY DEF FlushQueue, TakeAll, localVars
<1>2. Held' \subseteq {work}
  BY <1>1, WorksEmpty DEF Held, Queued
<1>3. generation \in Nat /\ mGeneration \in Nat
  BY DEF TypeInv, TypeOK, LocalTypeOK, QueueTypeOK
<1>4. QED
  BY <1>1, <1>2, <1>3 DEF GenerationInv, OneStaleWork

\* stop() and reset() leave only the work in hand
LEMMA GenerationClear ==
    ASSUME GenerationInv, NEW c \in Client, StopClear(c)
    PROVE  GenerationInv'
<1>1. /\ mQueue' = <<>> /\ mPendingWork' = {}
      /\ UNCHANGED <<work, generation, acceptedIn, mGeneration, mFlush>>
  BY DEF StopClear, TakeAll, localVars
<1>2. Held' \subseteq {work}
  BY <1>1, WorksEmpty DEF Held, Queued
<1>3. QED
  BY <1>1, <1>2 DEF GenerationInv, OneStaleWork

\* the popped work is of the generation noted with it
LEMMA GenerationPop ==
    ASSUME TypeInv, OwnerInv, GenerationInv, PopFront
    PROVE  GenerationInv'
<1>1. /\ mQueue # <<>> /\ mQueue' = Tail(mQueue) /\ work' = Head(mQueue)
      /\ work = Null /\ generation' = mGeneration
      /\ UNCHANGED <<mPendingWork, mGeneration, acceptedIn>>
  BY DEF PopFront, Receive, TypeInv, PhaseOK, ledgerVars
<1>2. Works(mQueue') = Works(mQueue) \ {Head(mQueue)}
  BY <1>1, OwnerFacts, OwnerTypes, OnceTail
<1>3. Head(mQueue) \in Works(mQueue) \cup {Null}
  BY <1>1, OwnerTypes, TailEntries DEF Works
<1>4. Held' = Held
  BY <1>1, <1>2, <1>3, OwnerFacts, OwnerTypes DEF Held, Queued
<1>5. \A w \in Held : acceptedIn[w] = mGeneration
  BY <1>1, OwnerFacts, OwnerTypes DEF GenerationInv, OneStaleWork
<1>6. work' # Null => work' \in Held
  BY <1>1, <1>3, OwnerFacts
<1>7. mGeneration \in Nat
  BY DEF TypeInv, TypeOK, QueueTypeOK
<1>8. QED
  BY <1>1, <1>4, <1>5, <1>6, <1>7 DEF GenerationInv, OneStaleWork

\* every step keeps GenerationInv
LEMMA GenerationInvStep ==
    ASSUME TypeInv, TypeInv', OwnerInv, OwnerInv', GenerationInv, [Next]_vars
    PROVE  GenerationInv'
<1>1. ASSUME NEW c \in Client, Push(c) PROVE GenerationInv'
  BY <1>1, GenerationPush
<1>2. ASSUME NEW c \in Client, MarkDrain(c) PROVE GenerationInv'
  BY <1>2, GenerationMarkDrain
<1>3. ASSUME NEW c \in Client, FlushQueue(c) PROVE GenerationInv'
  BY <1>3, GenerationFlush
<1>4. ASSUME NEW c \in Client, StopClear(c) PROVE GenerationInv'
  BY <1>4, GenerationClear
<1>5. CASE PopFront
  BY <1>5, GenerationPop
<1> USE ComponentAssumption
        DEF ComponentAssumption, Thread, Null, Fresh, TypeInv, PhaseOK,
            TypeOK, ExecTypeOK, QueueTypeOK, HandlerTypeOK, ThreadTypeOK,
            LocalTypeOK, ClientTypeOK, LedgerTypeOK, execVars, queueVars,
            handlerVars, localVars, clientVars, ledgerVars, notCodecVars
<1>6. ASSUME NEW c \in Client, SetListener(c) PROVE GenerationInv'
  BY <1>6 DEF SetListener, Call, Goto, OwnerInv, OneOwner, ItemsOK,
     GenerationInv, OneStaleWork, Held, Queued
<1>7. ASSUME NEW c \in Client, ClearListener(c) PROVE GenerationInv'
  BY <1>7 DEF ClearListener, MayClear, Call, Goto, OwnerInv, OneOwner,
     ItemsOK, GenerationInv, OneStaleWork, Held, Queued
<1>8. ASSUME NEW c \in Client, QueueCall(c) PROVE GenerationInv'
  BY <1>8 DEF QueueCall, IfRunning, Call, Goto, OwnerInv, OneOwner, ItemsOK,
     GenerationInv, OneStaleWork, Held, Queued
<1>9. ASSUME NEW c \in Client, FlushCall(c) PROVE GenerationInv'
  BY <1>9 DEF FlushCall, IfRunning, Call, Goto, OwnerInv, OneOwner, ItemsOK,
     GenerationInv, OneStaleWork, Held, Queued
<1>10. ASSUME NEW c \in Client, DrainCall(c) PROVE GenerationInv'
  BY <1>10 DEF DrainCall, IfRunning, Call, Goto, OwnerInv, OneOwner, ItemsOK,
     GenerationInv, OneStaleWork, Held, Queued
<1>11. ASSUME NEW c \in Client, StartCall(c) PROVE GenerationInv'
  BY <1>11 DEF StartCall, NeedsInit, Call, Goto, OwnerInv, OneOwner, ItemsOK,
     GenerationInv, OneStaleWork, Held, Queued
<1>12. ASSUME NEW c \in Client, StopCall(c) PROVE GenerationInv'
  BY <1>12 DEF StopCall, Call, Goto, OwnerInv, OneOwner, ItemsOK,
     GenerationInv, OneStaleWork, Held, Queued
<1>13. ASSUME NEW c \in Client, ResetCall(c) PROVE GenerationInv'
  BY <1>13 DEF ResetCall, Call, Goto, OwnerInv, OneOwner, ItemsOK,
     GenerationInv, OneStaleWork, Held, Queued
<1>14. ASSUME NEW c \in Client, ReleaseCall(c) PROVE GenerationInv'
  BY <1>14 DEF ReleaseCall, Call, Goto, OwnerInv, OneOwner, ItemsOK,
     GenerationInv, OneStaleWork, Held, Queued
<1>15. ASSUME NEW c \in Client, Send(c) PROVE GenerationInv'
  BY <1>15 DEF Send, Message, Goto, OwnerInv, OneOwner, ItemsOK,
     GenerationInv, OneStaleWork, Held, Queued
<1>16. ASSUME NEW c \in Client, Answered(c) PROVE GenerationInv'
  BY <1>16 DEF Answered, Goto, OwnerInv, OneOwner, ItemsOK, GenerationInv,
     OneStaleWork, Held, Queued
<1>17. ASSUME NEW c \in Client, StartCommit(c) PROVE GenerationInv'
  BY <1>17 DEF StartCommit, Goto, OwnerInv, OneOwner, ItemsOK, GenerationInv,
     OneStaleWork, Held, Queued
<1>18. ASSUME NEW c \in Client, StopPool(c) PROVE GenerationInv'
  BY <1>18 DEF StopPool, Goto, OwnerInv, OneOwner, ItemsOK, GenerationInv,
     OneStaleWork, Held, Queued
<1>19. ASSUME NEW c \in Client, StopDrained(c) PROVE GenerationInv'
  BY <1>19 DEF StopDrained, Goto, OwnerInv, OneOwner, ItemsOK, GenerationInv,
     OneStaleWork, Held, Queued
<1>20. ASSUME NEW t \in Thread, FinishPending(t) PROVE GenerationInv'
  BY <1>20 DEF FinishPending, ErasePending, OwnerInv, OneOwner, ItemsOK,
     GenerationInv, OneStaleWork, Held, Queued
<1>21. ASSUME NEW t \in Thread, FinishOther(t) PROVE GenerationInv'
  BY <1>21 DEF FinishOther, OwnerInv, OneOwner, ItemsOK, GenerationInv,
     OneStaleWork, Held, Queued
<1>22. ASSUME NEW t \in Thread, Deliver(t) PROVE GenerationInv'
  BY <1>22 DEF Deliver, OwnerInv, OneOwner, ItemsOK, GenerationInv,
     OneStaleWork, Held, Queued
<1>23. CASE HandleUnset
  BY <1>23 DEF HandleUnset, Receive, Reply, OwnerInv, OneOwner, ItemsOK,
     GenerationInv, OneStaleWork, Held, Queued
<1>24. CASE HandleInit
  BY <1>24 DEF HandleInit, Receive, Reply, OwnerInv, OneOwner, ItemsOK,
     GenerationInv, OneStaleWork, Held, Queued
<1>25. CASE HandleStart
  BY <1>25 DEF HandleStart, Receive, OwnerInv, OneOwner, ItemsOK,
     GenerationInv, OneStaleWork, Held, Queued
<1>26. CASE HandleStop
  BY <1>26 DEF HandleStop, Receive, Reply, StopCodec, OwnerInv, OneOwner,
     ItemsOK, GenerationInv, OneStaleWork, Held, Queued
<1>27. CASE ProcessIgnored
  BY <1>27 DEF ProcessIgnored, Receive, OwnerInv, OneOwner, ItemsOK,
     GenerationInv, OneStaleWork, Held, Queued
<1>28. CASE OnFlush
  BY <1>28 DEF OnFlush, At, FlushPopped, Goto, OwnerInv, OneOwner, ItemsOK,
     GenerationInv, OneStaleWork, Held, Queued
<1>29. CASE FetchPool
  BY <1>29 DEF FetchPool, At, Goto, OwnerInv, OneOwner, ItemsOK,
     GenerationInv, OneStaleWork, Held, Queued
<1>30. CASE Feed
  BY <1>30 DEF Feed, At, Goto, OwnerInv, OneOwner, ItemsOK, GenerationInv,
     OneStaleWork, Held, Queued
<1>31. CASE CodecReturns
  BY <1>31 DEF CodecReturns, At, Goto, OwnerInv, OneOwner, ItemsOK,
     GenerationInv, OneStaleWork, Held, Queued
<1>32. CASE ReturnWork
  BY <1>32 DEF ReturnWork, At, LastSection, SameGeneration, Goto, OwnerInv,
     OneOwner, ItemsOK, GenerationInv, OneStaleWork, Held, Queued
<1>33. CASE KeepPending
  BY <1>33 DEF KeepPending, At, LastSection, SameGeneration, Goto, OwnerInv,
     OneOwner, ItemsOK, GenerationInv, OneStaleWork, Held, Queued
<1>34. CASE EndProcess
  BY <1>34 DEF EndProcess, At, Message, Goto, OwnerInv, OneOwner, ItemsOK,
     GenerationInv, OneStaleWork, Held, Queued
<1>35. CASE UNCHANGED vars
  BY <1>35 DEF vars, OwnerInv, OneOwner, ItemsOK, GenerationInv, OneStaleWork,
     Held, Queued
<1>36. QED
  BY <1>1, <1>2, <1>3, <1>4, <1>5, <1>6, <1>7, <1>8, <1>9, <1>10, <1>11,
     <1>12, <1>13, <1>14, <1>15, <1>16, <1>17, <1>18, <1>19, <1>20, <1>21,
     <1>22, <1>23, <1>24, <1>25, <1>26, <1>27, <1>28, <1>29, <1>30, <1>31,
     <1>32, <1>33, <1>34, <1>35 DEF Next, LooperStep, ThreadStep, ClientCall,
     ClientStep, Done, vars

\* every step keeps CodecInv, if onFlush_sm empties the codec
LEMMA CodecInvStep ==
    ASSUME TypeInv, TypeInv', OwnerInv, GenerationInv, CodecInv,
           FlushClearsCodec, [Next]_vars
    PROVE  CodecInv'
<1> USE ComponentAssumption
        DEF ComponentAssumption, Thread, Null, Fresh, TypeInv, PhaseOK,
            TypeOK, ExecTypeOK, QueueTypeOK, HandlerTypeOK, ThreadTypeOK,
            LocalTypeOK, ClientTypeOK, LedgerTypeOK, execVars, queueVars,
            handlerVars, localVars, clientVars, ledgerVars, notCodecVars
<1>1. ASSUME NEW c \in Client, SetListener(c) PROVE CodecInv'
  BY <1>1 DEF SetListener, Call, Goto, OwnerInv, ItemsOK, ItemsNew,
     CodecAccepted, GenerationInv, CodecInv, FlushPopped
<1>2. ASSUME NEW c \in Client, ClearListener(c) PROVE CodecInv'
  BY <1>2 DEF ClearListener, MayClear, Call, Goto, OwnerInv, ItemsOK,
     ItemsNew, CodecAccepted, GenerationInv, CodecInv, FlushPopped
<1>3. ASSUME NEW c \in Client, QueueCall(c) PROVE CodecInv'
  BY <1>3 DEF QueueCall, IfRunning, Call, Goto, OwnerInv, ItemsOK, ItemsNew,
     CodecAccepted, GenerationInv, CodecInv, FlushPopped
<1>4. ASSUME NEW c \in Client, FlushCall(c) PROVE CodecInv'
  BY <1>4 DEF FlushCall, IfRunning, Call, Goto, OwnerInv, ItemsOK, ItemsNew,
     CodecAccepted, GenerationInv, CodecInv, FlushPopped
<1>5. ASSUME NEW c \in Client, DrainCall(c) PROVE CodecInv'
  BY <1>5 DEF DrainCall, IfRunning, Call, Goto, OwnerInv, ItemsOK, ItemsNew,
     CodecAccepted, GenerationInv, CodecInv, FlushPopped
<1>6. ASSUME NEW c \in Client, StartCall(c) PROVE CodecInv'
  BY <1>6 DEF StartCall, NeedsInit, Call, Goto, OwnerInv, ItemsOK, ItemsNew,
     CodecAccepted, GenerationInv, CodecInv, FlushPopped
<1>7. ASSUME NEW c \in Client, StopCall(c) PROVE CodecInv'
  BY <1>7 DEF StopCall, Call, Goto, OwnerInv, ItemsOK, ItemsNew,
     CodecAccepted, GenerationInv, CodecInv, FlushPopped
<1>8. ASSUME NEW c \in Client, ResetCall(c) PROVE CodecInv'
  BY <1>8 DEF ResetCall, Call, Goto, OwnerInv, ItemsOK, ItemsNew,
     CodecAccepted, GenerationInv, CodecInv, FlushPopped
<1>9. ASSUME NEW c \in Client, ReleaseCall(c) PROVE CodecInv'
  BY <1>9 DEF ReleaseCall, Call, Goto, OwnerInv, ItemsOK, ItemsNew,
     CodecAccepted, GenerationInv, CodecInv, FlushPopped
<1>10. ASSUME NEW c \in Client, Push(c) PROVE CodecInv'
  BY <1>10 DEF Push, Enqueue, QueueWasEmpty, Goto, OwnerInv, ItemsOK,
     ItemsNew, CodecAccepted, GenerationInv, CodecInv, FlushPopped
<1>11. ASSUME NEW c \in Client, MarkDrain(c) PROVE CodecInv'
  BY <1>11 DEF MarkDrain, Enqueue, QueueWasEmpty, Goto, OwnerInv, ItemsOK,
     ItemsNew, CodecAccepted, GenerationInv, CodecInv, FlushPopped
<1>12. ASSUME NEW c \in Client, FlushQueue(c) PROVE CodecInv'
  BY <1>12 DEF FlushQueue, TakeAll, Queued, Goto, OwnerInv, ItemsOK, ItemsNew,
     CodecAccepted, GenerationInv, CodecInv, FlushPopped
<1>13. ASSUME NEW c \in Client, Send(c) PROVE CodecInv'
  BY <1>13 DEF Send, Message, Goto, OwnerInv, ItemsOK, ItemsNew,
     CodecAccepted, GenerationInv, CodecInv, FlushPopped
<1>14. ASSUME NEW c \in Client, Answered(c) PROVE CodecInv'
  BY <1>14 DEF Answered, Goto, OwnerInv, ItemsOK, ItemsNew, CodecAccepted,
     GenerationInv, CodecInv, FlushPopped
<1>15. ASSUME NEW c \in Client, StartCommit(c) PROVE CodecInv'
  BY <1>15 DEF StartCommit, Goto, OwnerInv, ItemsOK, ItemsNew, CodecAccepted,
     GenerationInv, CodecInv, FlushPopped
<1>16. ASSUME NEW c \in Client, StopPool(c) PROVE CodecInv'
  BY <1>16 DEF StopPool, Goto, OwnerInv, ItemsOK, ItemsNew, CodecAccepted,
     GenerationInv, CodecInv, FlushPopped
<1>17. ASSUME NEW c \in Client, StopDrained(c) PROVE CodecInv'
  BY <1>17 DEF StopDrained, Goto, OwnerInv, ItemsOK, ItemsNew, CodecAccepted,
     GenerationInv, CodecInv, FlushPopped
<1>18. ASSUME NEW c \in Client, StopClear(c) PROVE CodecInv'
  BY <1>18 DEF StopClear, TakeAll, Queued, Goto, OwnerInv, ItemsOK, ItemsNew,
     CodecAccepted, GenerationInv, CodecInv, FlushPopped
<1>19. ASSUME NEW t \in Thread, FinishPending(t) PROVE CodecInv'
  BY <1>19 DEF FinishPending, ErasePending, OwnerInv, ItemsOK, ItemsNew,
     CodecAccepted, GenerationInv, CodecInv, FlushPopped
<1>20. ASSUME NEW t \in Thread, FinishOther(t) PROVE CodecInv'
  BY <1>20 DEF FinishOther, OwnerInv, ItemsOK, ItemsNew, CodecAccepted,
     GenerationInv, CodecInv, FlushPopped
<1>21. ASSUME NEW t \in Thread, Deliver(t) PROVE CodecInv'
  BY <1>21 DEF Deliver, OwnerInv, ItemsOK, ItemsNew, CodecAccepted,
     GenerationInv, CodecInv, FlushPopped
<1>22. CASE HandleUnset
  BY <1>22 DEF HandleUnset, Receive, Reply, OwnerInv, ItemsOK, ItemsNew,
     CodecAccepted, GenerationInv, CodecInv, FlushPopped
<1>23. CASE HandleInit
  BY <1>23 DEF HandleInit, Receive, Reply, OwnerInv, ItemsOK, ItemsNew,
     CodecAccepted, GenerationInv, CodecInv, FlushPopped
<1>24. CASE HandleStart
  BY <1>24 DEF HandleStart, Receive, OwnerInv, ItemsOK, ItemsNew,
     CodecAccepted, GenerationInv, CodecInv, FlushPopped
<1>25. CASE HandleStop
  BY <1>25 DEF HandleStop, Receive, Reply, StopCodec, OwnerInv, ItemsOK,
     ItemsNew, CodecAccepted, GenerationInv, CodecInv, FlushPopped
<1>26. CASE ProcessIgnored
  BY <1>26 DEF ProcessIgnored, Receive, OwnerInv, ItemsOK, ItemsNew,
     CodecAccepted, GenerationInv, CodecInv, FlushPopped
<1>27. CASE PopFront
  BY <1>27 DEF PopFront, Receive, StillQueued, Goto, OwnerInv, ItemsOK,
     ItemsNew, CodecAccepted, GenerationInv, CodecInv, FlushPopped
<1>28. CASE OnFlush
  BY <1>28 DEF OnFlush, At, FlushPopped, Goto, OwnerInv, ItemsOK, ItemsNew,
     CodecAccepted, GenerationInv, CodecInv
<1>29. CASE FetchPool
  BY <1>29 DEF FetchPool, At, Goto, OwnerInv, ItemsOK, ItemsNew,
     CodecAccepted, GenerationInv, CodecInv, FlushPopped
<1>30. CASE Feed
  BY <1>30 DEF Feed, At, Goto, OwnerInv, ItemsOK, ItemsNew, CodecAccepted,
     GenerationInv, CodecInv, FlushPopped
<1>31. CASE CodecReturns
  BY <1>31 DEF CodecReturns, At, Goto, OwnerInv, ItemsOK, ItemsNew,
     CodecAccepted, GenerationInv, CodecInv, FlushPopped
<1>32. CASE ReturnWork
  BY <1>32 DEF ReturnWork, At, LastSection, SameGeneration, Goto, OwnerInv,
     ItemsOK, ItemsNew, CodecAccepted, GenerationInv, CodecInv, FlushPopped
<1>33. CASE KeepPending
  BY <1>33 DEF KeepPending, At, LastSection, SameGeneration, Goto, OwnerInv,
     ItemsOK, ItemsNew, CodecAccepted, GenerationInv, CodecInv, FlushPopped
<1>34. CASE EndProcess
  BY <1>34 DEF EndProcess, At, Message, Goto, OwnerInv, ItemsOK, ItemsNew,
     CodecAccepted, GenerationInv, CodecInv, FlushPopped
<1>35. CASE UNCHANGED vars
  BY <1>35 DEF vars, OwnerInv, ItemsOK, ItemsNew, CodecAccepted,
     GenerationInv, CodecInv, FlushPopped
<1>36. QED
  BY <1>1, <1>2, <1>3, <1>4, <1>5, <1>6, <1>7, <1>8, <1>9, <1>10, <1>11,
     <1>12, <1>13, <1>14, <1>15, <1>16, <1>17, <1>18, <1>19, <1>20, <1>21,
     <1>22, <1>23, <1>24, <1>25, <1>26, <1>27, <1>28, <1>29, <1>30, <1>31,
     <1>32, <1>33, <1>34, <1>35 DEF Next, LooperStep, ThreadStep, ClientCall,
     ClientStep, Done, vars

-----------------------------------------------------------------------------
(* The pending map.                                                        *)

\* every step keeps PendingIsMap
LEMMA PendingIsMapStep ==
    ASSUME TypeInv, TypeInv', OwnerInv, PendingIsMap, [Next]_vars
    PROVE  PendingIsMap'
<1> USE ComponentAssumption
        DEF ComponentAssumption, Thread, Null, Fresh, TypeInv, PhaseOK,
            TypeOK, ExecTypeOK, QueueTypeOK, HandlerTypeOK, ThreadTypeOK,
            LocalTypeOK, ClientTypeOK, LedgerTypeOK, execVars, queueVars,
            handlerVars, localVars, clientVars, ledgerVars, notCodecVars
<1>1. ASSUME NEW c \in Client, SetListener(c) PROVE PendingIsMap'
  BY <1>1 DEF SetListener, Call, Goto, PendingIsMap
<1>2. ASSUME NEW c \in Client, ClearListener(c) PROVE PendingIsMap'
  BY <1>2 DEF ClearListener, MayClear, Call, Goto, PendingIsMap
<1>3. ASSUME NEW c \in Client, QueueCall(c) PROVE PendingIsMap'
  BY <1>3 DEF QueueCall, IfRunning, Call, Goto, PendingIsMap
<1>4. ASSUME NEW c \in Client, FlushCall(c) PROVE PendingIsMap'
  BY <1>4 DEF FlushCall, IfRunning, Call, Goto, PendingIsMap
<1>5. ASSUME NEW c \in Client, DrainCall(c) PROVE PendingIsMap'
  BY <1>5 DEF DrainCall, IfRunning, Call, Goto, PendingIsMap
<1>6. ASSUME NEW c \in Client, StartCall(c) PROVE PendingIsMap'
  BY <1>6 DEF StartCall, NeedsInit, Call, Goto, PendingIsMap
<1>7. ASSUME NEW c \in Client, StopCall(c) PROVE PendingIsMap'
  BY <1>7 DEF StopCall, Call, Goto, PendingIsMap
<1>8. ASSUME NEW c \in Client, ResetCall(c) PROVE PendingIsMap'
  BY <1>8 DEF ResetCall, Call, Goto, PendingIsMap
<1>9. ASSUME NEW c \in Client, ReleaseCall(c) PROVE PendingIsMap'
  BY <1>9 DEF ReleaseCall, Call, Goto, PendingIsMap
<1>10. ASSUME NEW c \in Client, Push(c) PROVE PendingIsMap'
  BY <1>10 DEF Push, Enqueue, QueueWasEmpty, Goto, PendingIsMap
<1>11. ASSUME NEW c \in Client, MarkDrain(c) PROVE PendingIsMap'
  BY <1>11 DEF MarkDrain, Enqueue, QueueWasEmpty, Goto, PendingIsMap
<1>12. ASSUME NEW c \in Client, FlushQueue(c) PROVE PendingIsMap'
  BY <1>12 DEF FlushQueue, TakeAll, Queued, Goto, PendingIsMap
<1>13. ASSUME NEW c \in Client, Send(c) PROVE PendingIsMap'
  BY <1>13 DEF Send, Message, Goto, PendingIsMap
<1>14. ASSUME NEW c \in Client, Answered(c) PROVE PendingIsMap'
  BY <1>14 DEF Answered, Goto, PendingIsMap
<1>15. ASSUME NEW c \in Client, StartCommit(c) PROVE PendingIsMap'
  BY <1>15 DEF StartCommit, Goto, PendingIsMap
<1>16. ASSUME NEW c \in Client, StopPool(c) PROVE PendingIsMap'
  BY <1>16 DEF StopPool, Goto, PendingIsMap
<1>17. ASSUME NEW c \in Client, StopDrained(c) PROVE PendingIsMap'
  BY <1>17 DEF StopDrained, Goto, PendingIsMap
<1>18. ASSUME NEW c \in Client, StopClear(c) PROVE PendingIsMap'
  BY <1>18 DEF StopClear, TakeAll, Queued, Goto, PendingIsMap
<1>19. ASSUME NEW t \in Thread, FinishPending(t) PROVE PendingIsMap'
  BY <1>19 DEF FinishPending, ErasePending, PendingIsMap
<1>20. ASSUME NEW t \in Thread, FinishOther(t) PROVE PendingIsMap'
  BY <1>20 DEF FinishOther, PendingIsMap
<1>21. ASSUME NEW t \in Thread, Deliver(t) PROVE PendingIsMap'
  BY <1>21 DEF Deliver, PendingIsMap
<1>22. CASE HandleUnset
  BY <1>22 DEF HandleUnset, Receive, Reply, PendingIsMap
<1>23. CASE HandleInit
  BY <1>23 DEF HandleInit, Receive, Reply, PendingIsMap
<1>24. CASE HandleStart
  BY <1>24 DEF HandleStart, Receive, PendingIsMap
<1>25. CASE HandleStop
  BY <1>25 DEF HandleStop, Receive, Reply, StopCodec, PendingIsMap
<1>26. CASE ProcessIgnored
  BY <1>26 DEF ProcessIgnored, Receive, PendingIsMap
<1>27. CASE PopFront
  BY <1>27 DEF PopFront, Receive, StillQueued, Goto, PendingIsMap
<1>28. CASE OnFlush
  BY <1>28 DEF OnFlush, At, FlushPopped, Goto, PendingIsMap
<1>29. CASE FetchPool
  BY <1>29 DEF FetchPool, At, Goto, PendingIsMap
<1>30. CASE Feed
  BY <1>30 DEF Feed, At, Goto, PendingIsMap
<1>31. CASE CodecReturns
  BY <1>31 DEF CodecReturns, At, Goto, PendingIsMap
<1>32. CASE ReturnWork
  BY <1>32 DEF ReturnWork, At, LastSection, SameGeneration, Goto, PendingIsMap
<1>33. CASE KeepPending
  BY <1>33 DEF KeepPending, At, LastSection, SameGeneration, Goto,
     PendingIsMap
<1>34. CASE EndProcess
  BY <1>34 DEF EndProcess, At, Message, Goto, PendingIsMap
<1>35. CASE UNCHANGED vars
  BY <1>35 DEF vars, PendingIsMap
<1>36. QED
  BY <1>1, <1>2, <1>3, <1>4, <1>5, <1>6, <1>7, <1>8, <1>9, <1>10, <1>11,
     <1>12, <1>13, <1>14, <1>15, <1>16, <1>17, <1>18, <1>19, <1>20, <1>21,
     <1>22, <1>23, <1>24, <1>25, <1>26, <1>27, <1>28, <1>29, <1>30, <1>31,
     <1>32, <1>33, <1>34, <1>35 DEF Next, LooperStep, ThreadStep, ClientCall,
     ClientStep, Done, vars

-----------------------------------------------------------------------------
(* The handler and its wakeups.                                            *)

\* the looper's queue without its first message
LEMMA TailMessages ==
    ASSUME TypeInv, msgs # <<>>
    PROVE  /\ \A i \in DOMAIN Tail(msgs) :
                 \E j \in DOMAIN msgs : Tail(msgs)[i] = msgs[j]
           /\ Head(msgs).what # "Process"
              /\ (\E i \in DOMAIN msgs : msgs[i].what = "Process")
              => \E i \in DOMAIN Tail(msgs) : Tail(msgs)[i].what = "Process"
           /\ \E j \in DOMAIN msgs : msgs[j] = Head(msgs)
<1> DEFINE M == [what : MsgKind, replyTo : Thread]
<1>1. msgs \in Seq(M)
  BY DEF TypeInv, TypeOK, HandlerTypeOK
<1> HIDE DEF M
<1>2. /\ 1 \in DOMAIN msgs /\ Head(msgs) = msgs[1]
      /\ \A i \in DOMAIN Tail(msgs) :
            i + 1 \in DOMAIN msgs /\ Tail(msgs)[i] = msgs[i + 1]
      /\ \A i \in DOMAIN msgs : i # 1 =>
            i - 1 \in DOMAIN Tail(msgs) /\ Tail(msgs)[i - 1] = msgs[i]
  BY <1>1, TailEntries
<1>3. QED
  BY <1>2

\* the looper's queue with one more message
LEMMA MoreMessages ==
    ASSUME TypeInv, NEW m \in [what : MsgKind, replyTo : Thread]
    PROVE  /\ \A i \in DOMAIN Append(msgs, m) :
                 \/ Append(msgs, m)[i] = m
                 \/ \E j \in DOMAIN msgs : Append(msgs, m)[i] = msgs[j]
           /\ \A j \in DOMAIN msgs :
                 j \in DOMAIN Append(msgs, m) /\ Append(msgs, m)[j] = msgs[j]
           /\ \E i \in DOMAIN Append(msgs, m) : Append(msgs, m)[i] = m
<1> DEFINE M == [what : MsgKind, replyTo : Thread]
<1>1. msgs \in Seq(M) /\ m \in M
  BY DEF TypeInv, TypeOK, HandlerTypeOK
<1> HIDE DEF M
<1>2. /\ DOMAIN Append(msgs, m) = 1 .. Len(msgs) + 1
      /\ DOMAIN msgs = 1 .. Len(msgs) /\ Len(msgs) \in Nat
      /\ Append(msgs, m)[Len(msgs) + 1] = m
      /\ \A j \in 1 .. Len(msgs) : Append(msgs, m)[j] = msgs[j]
  BY <1>1
<1>3. QED
  BY <1>2

\* post() and postAndAwaitResponse()
LEMMA HandlerSend ==
    ASSUME TypeInv, HandlerInv, NEW c \in Client, Send(c)
    PROVE  HandlerInv'
<1> DEFINE m == Message(cmsg[c], c)
<1>1. /\ pc[c] = "send" /\ msgs' = Append(msgs, m) /\ m.what = cmsg[c]
      /\ UNCHANGED <<execState, mThiz, mQueue, mRunning, hasQueuedWork, cmsg>>
      /\ reply' = [reply EXCEPT ![c] = "none"]
  BY DEF Send, Message, execVars, queueVars, handlerVars, localVars, clientVars
<1>2. m \in [what : MsgKind, replyTo : Thread]
  BY DEF Message, Thread, TypeInv, TypeOK, ClientTypeOK
<1>3. /\ pc \in [Thread -> ClientPC \cup LooperPC] /\ c \in Thread
      /\ reply \in [Client -> {"none", "OK", "CORRUPTED"}]
  BY DEF Thread, TypeInv, TypeOK, ThreadTypeOK, HandlerTypeOK
<1>4. /\ pc'[c] \in {"await", "commit", "idle"}
      /\ pc'[c] = "commit" => cmsg[c] = "Start"
      /\ \A d \in Client : d # c => pc'[d] = pc[d] /\ reply'[d] = reply[d]
      /\ reply'[c] = "none"
  BY <1>1, <1>3 DEF Send, Goto
<1> HIDE DEF m
<1>5. \A i \in DOMAIN msgs' : msgs'[i] = m \/ \E j \in DOMAIN msgs : msgs'[i] = msgs[j]
  BY <1>1, <1>2, MoreMessages
<1>6. (\E i \in DOMAIN msgs : msgs[i].what = "Process") \/ m.what = "Process"
      => \E i \in DOMAIN msgs' : msgs'[i].what = "Process"
  BY <1>1, <1>2, MoreMessages
<1>7. ProcessOnItsWay => ProcessOnItsWay'
  BY <1>1, <1>4, <1>6 DEF ProcessOnItsWay
<1>8. QED
  BY <1>1, <1>4, <1>5, <1>7 DEF HandlerInv

\* kWhatInit
LEMMA HandlerInit ==
    ASSUME TypeInv, HandlerInv, HandleInit
    PROVE  HandlerInv'
<1>1. /\ msgs # <<>> /\ msgs' = Tail(msgs) /\ Head(msgs).what = "Init"
      /\ mThiz /\ mRunning'
      /\ UNCHANGED <<execState, mThiz, mQueue, hasQueuedWork, cmsg, pc>>
  BY DEF HandleInit, Receive, execVars, queueVars, localVars, clientVars
<1>2. ProcessOnItsWay => ProcessOnItsWay'
  BY <1>1, TailMessages DEF ProcessOnItsWay
<1>3. \A i \in DOMAIN msgs' : msgs'[i].what \notin {"Reset", "Release"}
  BY <1>1, TailMessages DEF HandlerInv
<1>4. QED
  BY <1>1, <1>2, <1>3 DEF HandlerInv

\* kWhatStart
LEMMA HandlerStart ==
    ASSUME TypeInv, HandlerInv, HandleStart
    PROVE  HandlerInv'
<1>1. /\ msgs # <<>> /\ msgs' = Tail(msgs) /\ Head(msgs).what = "Start"
      /\ mThiz /\ mRunning'
      /\ UNCHANGED <<execState, mThiz, mQueue, hasQueuedWork, cmsg, pc>>
  BY DEF HandleStart, Receive, execVars, queueVars, localVars, clientVars
<1>2. ProcessOnItsWay => ProcessOnItsWay'
  BY <1>1, TailMessages DEF ProcessOnItsWay
<1>3. \A i \in DOMAIN msgs' : msgs'[i].what \notin {"Reset", "Release"}
  BY <1>1, TailMessages DEF HandlerInv
<1>4. QED
  BY <1>1, <1>2, <1>3 DEF HandlerInv

\* the message is kWhatStop, so the handler runs and goes on running
LEMMA HandlerStop ==
    ASSUME TypeInv, HandlerInv, HandleStop
    PROVE  HandlerInv'
<1>1. /\ msgs # <<>> /\ msgs' = Tail(msgs)
      /\ Head(msgs).what \in {"Stop", "Reset", "Release"}
      /\ mRunning' = IF Head(msgs).what = "Stop" THEN mRunning ELSE FALSE
      /\ UNCHANGED <<execState, mThiz, mQueue, hasQueuedWork, cmsg, pc>>
  BY DEF HandleStop, Receive, execVars, queueVars, localVars, clientVars
<1>2. PICK j \in DOMAIN msgs : msgs[j] = Head(msgs)
  BY <1>1, TailMessages
<1>3. Head(msgs).what = "Stop" /\ mRunning
  BY <1>1, <1>2 DEF HandlerInv
<1>4. mRunning' /\ mThiz
  BY <1>1, <1>3 DEF HandlerInv
<1>5. ProcessOnItsWay => ProcessOnItsWay'
  BY <1>1, <1>3, TailMessages DEF ProcessOnItsWay
<1>6. \A i \in DOMAIN msgs' : msgs'[i].what \notin {"Reset", "Release"}
  BY <1>1, TailMessages DEF HandlerInv
<1>7. QED
  BY <1>1, <1>4, <1>5, <1>6 DEF HandlerInv

\* what is left in the queue is remembered in hasQueuedWork
LEMMA HandlerPop ==
    ASSUME TypeInv, HandlerInv, PopFront
    PROVE  HandlerInv'
<1>1. /\ msgs # <<>> /\ msgs' = Tail(msgs) /\ mThiz /\ mRunning
      /\ mQueue' = Tail(mQueue) /\ hasQueuedWork' = (Tail(mQueue) # <<>>)
      /\ UNCHANGED <<execState, mThiz, mRunning, cmsg, reply>>
      /\ \A c \in Client : pc'[c] = pc[c]
  BY LooperGoto
     DEF PopFront, Receive, StillQueued, execVars, handlerVars, clientVars
<1>2. mQueue' # <<>> => ProcessOnItsWay'
  BY <1>1 DEF ProcessOnItsWay
<1>3. \A i \in DOMAIN msgs' : msgs'[i].what \notin {"Reset", "Release"}
  BY <1>1, TailMessages DEF HandlerInv
<1>4. QED
  BY <1>1, <1>2, <1>3 DEF HandlerInv

\* ... and posted when processQueue returns
LEMMA HandlerEnd ==
    ASSUME TypeInv, HandlerInv, EndProcess
    PROVE  HandlerInv'
<1> DEFINE m == Message("Process", Looper)
<1>1. /\ msgs' = IF hasQueuedWork THEN Append(msgs, m) ELSE msgs
      /\ UNCHANGED <<execState, mThiz, mRunning, mQueue, cmsg, reply>>
      /\ \A c \in Client : pc'[c] = pc[c]
  BY LooperGoto
     DEF EndProcess, execVars, queueVars, handlerVars, clientVars
<1>2. m \in [what : MsgKind, replyTo : Thread] /\ m.what = "Process"
  BY DEF Message, Thread, MsgKind, AwaitKind
<1> HIDE DEF m
<1>3. CASE hasQueuedWork
  <2>1. /\ \A i \in DOMAIN msgs' : \/ msgs'[i] = m
                                   \/ \E j \in DOMAIN msgs : msgs'[i] = msgs[j]
        /\ \E i \in DOMAIN msgs' : msgs'[i] = m
    BY <1>1, <1>2, <1>3, MoreMessages
  <2>2. ProcessOnItsWay'
    BY <1>2, <2>1 DEF ProcessOnItsWay
  <2>3. QED BY <1>1, <1>2, <2>1, <2>2 DEF HandlerInv
<1>4. CASE ~hasQueuedWork
  <2>1. msgs' = msgs
    BY <1>1, <1>4
  <2>2. ProcessOnItsWay => ProcessOnItsWay'
    BY <1>1, <1>4, <2>1 DEF ProcessOnItsWay
  <2>3. QED BY <1>1, <2>1, <2>2 DEF HandlerInv
<1>5. QED BY <1>3, <1>4

\* a component that is not UNINITIALIZED has a running handler
LEMMA HandlerStartCall ==
    ASSUME TypeInv, HandlerInv, NEW c \in Client, StartCall(c)
    PROVE  HandlerInv'
<1>1. /\ pc[c] = "idle"
      /\ pc' = [pc EXCEPT ![c] = IF execState = "RUNNING" THEN "idle" ELSE "send"]
      /\ cmsg' = [cmsg EXCEPT ![c] = IF execState = "UNINITIALIZED"
                                     THEN "Init" ELSE "Start"]
      /\ UNCHANGED <<execState, mThiz, mRunning, mQueue, msgs, reply,
                     hasQueuedWork>>
  BY DEF StartCall, NeedsInit, Call, Goto, execVars, queueVars, handlerVars,
     localVars
<1>2. /\ pc \in [Thread -> ClientPC \cup LooperPC] /\ c \in Thread
      /\ cmsg \in [Client -> MsgKind]
  BY DEF Thread, TypeInv, TypeOK, ThreadTypeOK, ClientTypeOK
<1>3. /\ pc'[c] \in {"idle", "send"} /\ cmsg'[c] \in {"Init", "Start"}
      /\ pc'[c] = "send" /\ cmsg'[c] # "Init" => mRunning
      /\ \A d \in Client : d # c => pc'[d] = pc[d] /\ cmsg'[d] = cmsg[d]
  BY <1>1, <1>2 DEF HandlerInv
<1>4. ProcessOnItsWay => ProcessOnItsWay'
  BY <1>1, <1>3 DEF ProcessOnItsWay
<1>5. QED
  BY <1>1, <1>3, <1>4 DEF HandlerInv

\* every step keeps HandlerInv, if no client resets or releases
LEMMA HandlerInvStep ==
    ASSUME TypeInv, TypeInv', NoTeardown, HandlerInv, [Next]_vars
    PROVE  HandlerInv'
<1>1. ASSUME NEW c \in Client, StartCall(c) PROVE HandlerInv'
  BY <1>1, HandlerStartCall
<1>2. ASSUME NEW c \in Client, Send(c) PROVE HandlerInv'
  BY <1>2, HandlerSend
<1>3. CASE HandleInit
  BY <1>3, HandlerInit
<1>4. CASE HandleStart
  BY <1>4, HandlerStart
<1>5. CASE HandleStop
  BY <1>5, HandlerStop
<1>6. CASE PopFront
  BY <1>6, HandlerPop
<1>7. CASE EndProcess
  BY <1>7, HandlerEnd
<1> USE ComponentAssumption
        DEF ComponentAssumption, Thread, Null, Fresh, TypeInv, PhaseOK,
            TypeOK, ExecTypeOK, QueueTypeOK, HandlerTypeOK, ThreadTypeOK,
            LocalTypeOK, ClientTypeOK, LedgerTypeOK, execVars, queueVars,
            handlerVars, localVars, clientVars, ledgerVars, notCodecVars
<1>8. ASSUME NEW c \in Client, SetListener(c) PROVE HandlerInv'
  BY <1>8 DEF SetListener, Call, Goto, HandlerInv, ProcessOnItsWay, AwaitKind
<1>9. ASSUME NEW c \in Client, ClearListener(c) PROVE HandlerInv'
  BY <1>9 DEF ClearListener, MayClear, Call, Goto, HandlerInv,
     ProcessOnItsWay, AwaitKind
<1>10. ASSUME NEW c \in Client, QueueCall(c) PROVE HandlerInv'
  BY <1>10 DEF QueueCall, IfRunning, Call, Goto, HandlerInv, ProcessOnItsWay,
     AwaitKind
<1>11. ASSUME NEW c \in Client, FlushCall(c) PROVE HandlerInv'
  BY <1>11 DEF FlushCall, IfRunning, Call, Goto, HandlerInv, ProcessOnItsWay,
     AwaitKind
<1>12. ASSUME NEW c \in Client, DrainCall(c) PROVE HandlerInv'
  BY <1>12 DEF DrainCall, IfRunning, Call, Goto, HandlerInv, ProcessOnItsWay,
     AwaitKind
<1>13. ASSUME NEW c \in Client, StopCall(c) PROVE HandlerInv'
  BY <1>13 DEF StopCall, Call, Goto, HandlerInv, ProcessOnItsWay, AwaitKind
<1>14. ASSUME NEW c \in Client, ResetCall(c) PROVE HandlerInv'
  BY <1>14 DEF ResetCall, Call, Goto, HandlerInv, ProcessOnItsWay, AwaitKind,
     NoTeardown
<1>15. ASSUME NEW c \in Client, ReleaseCall(c) PROVE HandlerInv'
  BY <1>15 DEF ReleaseCall, Call, Goto, HandlerInv, ProcessOnItsWay,
     AwaitKind, NoTeardown
<1>16. ASSUME NEW c \in Client, Push(c) PROVE HandlerInv'
  BY <1>16 DEF Push, Enqueue, QueueWasEmpty, Goto, HandlerInv,
     ProcessOnItsWay, AwaitKind
<1>17. ASSUME NEW c \in Client, MarkDrain(c) PROVE HandlerInv'
  BY <1>17 DEF MarkDrain, Enqueue, QueueWasEmpty, Goto, HandlerInv,
     ProcessOnItsWay, AwaitKind
<1>18. ASSUME NEW c \in Client, FlushQueue(c) PROVE HandlerInv'
  BY <1>18 DEF FlushQueue, TakeAll, Queued, Goto, HandlerInv, ProcessOnItsWay,
     AwaitKind
<1>19. ASSUME NEW c \in Client, Answered(c) PROVE HandlerInv'
  BY <1>19 DEF Answered, Goto, HandlerInv, ProcessOnItsWay, AwaitKind
<1>20. ASSUME NEW c \in Client, StartCommit(c) PROVE HandlerInv'
  BY <1>20 DEF StartCommit, Goto, HandlerInv, ProcessOnItsWay, AwaitKind
<1>21. ASSUME NEW c \in Client, StopPool(c) PROVE HandlerInv'
  BY <1>21 DEF StopPool, Goto, HandlerInv, ProcessOnItsWay, AwaitKind
<1>22. ASSUME NEW c \in Client, StopDrained(c) PROVE HandlerInv'
  BY <1>22 DEF StopDrained, Goto, HandlerInv, ProcessOnItsWay, AwaitKind
<1>23. ASSUME NEW c \in Client, StopClear(c) PROVE HandlerInv'
  BY <1>23 DEF StopClear, TakeAll, Queued, Goto, HandlerInv, ProcessOnItsWay,
     AwaitKind
<1>24. ASSUME NEW t \in Thread, FinishPending(t) PROVE HandlerInv'
  BY <1>24 DEF FinishPending, ErasePending, HandlerInv, ProcessOnItsWay,
     AwaitKind
<1>25. ASSUME NEW t \in Thread, FinishOther(t) PROVE HandlerInv'
  BY <1>25 DEF FinishOther, HandlerInv, ProcessOnItsWay, AwaitKind
<1>26. ASSUME NEW t \in Thread, Deliver(t) PROVE HandlerInv'
  BY <1>26 DEF Deliver, HandlerInv, ProcessOnItsWay, AwaitKind
<1>27. CASE HandleUnset
  BY <1>27 DEF HandleUnset, Receive, Reply, HandlerInv, ProcessOnItsWay,
     AwaitKind
<1>28. CASE ProcessIgnored
  BY <1>28 DEF ProcessIgnored, Receive, HandlerInv, ProcessOnItsWay, AwaitKind
<1>29. CASE OnFlush
  BY <1>29 DEF OnFlush, At, FlushPopped, Goto, HandlerInv, ProcessOnItsWay,
     AwaitKind
<1>30. CASE FetchPool
  BY <1>30 DEF FetchPool, At, Goto, HandlerInv, ProcessOnItsWay, AwaitKind
<1>31. CASE Feed
  BY <1>31 DEF Feed, At, Goto, HandlerInv, ProcessOnItsWay, AwaitKind
<1>32. CASE CodecReturns
  BY <1>32 DEF CodecReturns, At, Goto, HandlerInv, ProcessOnItsWay, AwaitKind
<1>33. CASE ReturnWork
  BY <1>33 DEF ReturnWork, At, LastSection, SameGeneration, Goto, HandlerInv,
     ProcessOnItsWay, AwaitKind
<1>34. CASE KeepPending
  BY <1>34 DEF KeepPending, At, LastSection, SameGeneration, Goto, HandlerInv,
     ProcessOnItsWay, AwaitKind
<1>35. CASE UNCHANGED vars
  BY <1>35 DEF vars, HandlerInv, ProcessOnItsWay, AwaitKind
<1>36. QED
  BY <1>1, <1>2, <1>3, <1>4, <1>5, <1>6, <1>7, <1>8, <1>9, <1>10, <1>11,
     <1>12, <1>13, <1>14, <1>15, <1>16, <1>17, <1>18, <1>19, <1>20, <1>21,
     <1>22, <1>23, <1>24, <1>25, <1>26, <1>27, <1>28, <1>29, <1>30, <1>31,
     <1>32, <1>33, <1>34, <1>35 DEF Next, LooperStep, ThreadStep, ClientCall,
     ClientStep, Done, vars

-----------------------------------------------------------------------------
(* The inductive invariant.                                                *)

\* the initial state has the parts of the inductive invariant
LEMMA InitInv ==
    ASSUME Init
    PROVE  OwnerInv /\ GenerationInv /\ CodecInv /\ HandlerInv /\ PendingIsMap
<1>1. /\ mQueue = <<>> /\ mPendingWork = {} /\ work = Null /\ codec = {}
      /\ nextWork = 1 /\ generation = 0 /\ mGeneration = 0 /\ msgs = <<>>
      /\ mRunning = FALSE /\ execState = "UNINITIALIZED" 
      /\ \A c \in Client : /\ items[c] = <<>> /\ cmsg[c] = "Process" /\ pc[c] = "idle"
      /\ \A w \in Work : w \in Nat /\ w >= 1 /\ fate[w] = "none"
  BY ComponentAssumption DEF ComponentAssumption, Init, Thread, Work
<1>2. Works(<<>>) = {} /\ Once(<<>>)
  BY WorksEmpty DEF Once
<1>3. Held = {}
  BY <1>1, <1>2 DEF Held, Queued
<1>4. OwnerInv
  BY <1>1, <1>2, <1>3
     DEF OwnerInv, OneOwner, Queued, ItemsOK, ItemsHeld, ItemsOnce, ItemsOwn, ItemsNew,
         CodecAccepted, FutureNew
<1>5. GenerationInv /\ CodecInv /\ PendingIsMap
  BY <1>1, <1>3 DEF GenerationInv, OneStaleWork, CodecInv, PendingIsMap
<1>6. HandlerInv
  BY <1>1 DEF HandlerInv
<1>7. QED BY <1>4, <1>5, <1>6

\* every step keeps the inductive invariant
LEMMA InductiveStep == InductiveInv /\ [Next]_vars => InductiveInv'
<1> SUFFICES ASSUME InductiveInv, [Next]_vars PROVE InductiveInv'
    OBVIOUS
<1>1. TypeInv /\ OwnerInv /\ GenerationInv /\ PendingIsMap
  BY DEF InductiveInv
<1>2. TypeInv'
  BY <1>1, NextTypeInv
<1>3. OwnerInv'
  BY <1>1, <1>2, OwnerInvStep
<1>4. GenerationInv'
  BY <1>1, <1>2, <1>3, GenerationInvStep
<1>5. PendingIsMap'
  BY <1>1, <1>2, PendingIsMapStep
<1>6. FlushClearsCodec => CodecInv'
  BY <1>1, <1>2, CodecInvStep DEF InductiveInv
<1>7. NoTeardown => HandlerInv'
  BY <1>1, <1>2, HandlerInvStep DEF InductiveInv
<1>8. NoTeardown' = NoTeardown
  BY DEF NoTeardown
<1>9. QED
  BY <1>2, <1>3, <1>4, <1>5, <1>6, <1>7, <1>8 DEF InductiveInv

\* The inductive invariant holds in every reachable state: every interleaving of
\* clients and looper, over the lock-by-lock steps of C2RKComponent.cpp, keeps it.
THEOREM InductiveInvHolds == Spec => []InductiveInv
<1>1. Init => InductiveInv
  BY InitTypeInv, InitInv DEF InductiveInv
<1>2. QED
  BY <1>1, InductiveStep, PTL DEF Spec

\* What OneOwner and GenerationInv say of the places a work can be in.
LEMMA HeldFacts ==
    ASSUME InductiveInv
    PROVE  /\ \A w \in mPendingWork : w \in Work /\ w \in Held /\ w # work
                                      /\ acceptedIn[w] = mGeneration
           /\ work # Null => work \in Work /\ work \in Held
                             /\ acceptedIn[work] = generation
           /\ fate \in [Work -> Fates] /\ Null \notin Work
           /\ Held \subseteq Work
BY OwnerFacts, OwnerTypes DEF InductiveInv, GenerationInv, OneStaleWork

-----------------------------------------------------------------------------
(* Theorems.                                                               *)

\* The types of every variable, for any number of clients and works.
THEOREM TypeOKHolds == Spec => []TypeOK
<1>1. InductiveInv => TypeOK
  BY DEF InductiveInv, TypeInv
<1>2. QED
  BY <1>1, InductiveInvHolds, PTL

\* No work is lost or given back twice, for any number of clients, calls and
\* works: OneOwner holds in every reachable state.
THEOREM OneOwnerHolds == Spec => []OneOwner
<1>1. InductiveInv => OneOwner
  BY DEF InductiveInv, OwnerInv
<1>2. QED
  BY <1>1, InductiveInvHolds, PTL

\* flush_sm returns every work but the one inside processQueue: whatever else the
\* component holds is of the present generation.
THEOREM OneStaleWorkHolds == Spec => []OneStaleWork
<1>1. InductiveInv => OneStaleWork
  BY DEF InductiveInv, GenerationInv
<1>2. QED
  BY <1>1, InductiveInvHolds, PTL

\* If the codec's onFlush_sm empties it (the decoder's does), processQueue never
\* feeds a work to a codec that holds works from before a flush.
THEOREM CodecHoldsOneGenerationHolds ==
    ASSUME FlushClearsCodec
    PROVE  Spec => []CodecHoldsOneGeneration
<1>1. InductiveInv => CodecHoldsOneGeneration
  <2> SUFFICES ASSUME InductiveInv, pc[Looper] \in {"feed", "process"}
               PROVE  \A h \in codec : acceptedIn[h] = acceptedIn[work]
    BY DEF CodecHoldsOneGeneration
  <2>1. work # Null
    BY DEF InductiveInv, TypeInv, PhaseOK
  <2>2. QED
    BY <2>1 DEF InductiveInv, CodecInv, GenerationInv
<1>2. QED
  BY <1>1, InductiveInvHolds, PTL

\* a step that returns a work as done or corrupted returns one of the present
\* generation
LEMMA SuccessIsFresh ==
    ASSUME InductiveInv, [Next]_vars, NEW w \in Work, fate[w] = "none",
           fate'[w] \in {"done", "corrupted"}
    PROVE  acceptedIn[w] = mGeneration
<1>1. \/ \E c \in Client : FlushQueue(c) \/ StopClear(c)
      \/ \E t \in Thread : FinishPending(t)
      \/ FetchPool \/ ReturnWork \/ KeepPending
      \/ UNCHANGED fate
  BY DEF Next, LooperStep, ThreadStep, ClientCall, ClientStep, Done, vars,
         Thread, SetListener, ClearListener, QueueCall, FlushCall, DrainCall,
         StartCall, StopCall, ResetCall, ReleaseCall, IfRunning, Push,
         MarkDrain, Enqueue, Send, Answered, StartCommit, StopPool,
         StopDrained, FinishOther, Deliver, HandleUnset, HandleInit,
         HandleStart, HandleStop, ProcessIgnored, PopFront, OnFlush, Feed,
         CodecReturns, EndProcess, ledgerVars
<1>2. CASE \E c \in Client : FlushQueue(c) \/ StopClear(c)
  BY <1>2, HeldFacts DEF FlushQueue, StopClear, TakeAll
<1>3. CASE \E t \in Thread : FinishPending(t)
  BY <1>3, HeldFacts DEF FinishPending
<1>4. CASE FetchPool
  BY <1>4, HeldFacts DEF FetchPool
<1>5. CASE ReturnWork
  <2>1. work # Null
    BY <1>5 DEF ReturnWork, LastSection, At, InductiveInv, TypeInv, PhaseOK
  <2>2. QED BY <1>5, <2>1, HeldFacts DEF ReturnWork, SameGeneration
<1>6. CASE KeepPending
  BY <1>6, HeldFacts DEF KeepPending
<1>7. QED
  BY <1>1, <1>2, <1>3, <1>4, <1>5, <1>6

\* A work that was in the component when flush_sm ran is never returned as done by
\* a decision taken after the flush.
THEOREM NoStaleSuccessHolds == Spec => NoStaleSuccess
<1>1. InductiveInv /\ [Next]_vars =>
        [\A w \in Work : fate[w] = "none" /\ fate'[w] \in {"done", "corrupted"}
                         => acceptedIn[w] = mGeneration]_vars
  BY SuccessIsFresh
<1>2. QED
  BY <1>1, InductiveInvHolds, PTL DEF Spec, NoStaleSuccess

-----------------------------------------------------------------------------
(* Refinement of WorkLedger.                                               *)

\* the initial state is the ledger's
LEMMA LedgerInit == Init => Ledger!Init
<1>1. Init => Held = {}
  BY WorksEmpty DEF Init, Held, Queued
<1>2. QED
  BY <1>1 DEF Init, Ledger!Init

\* queue_nb's second locked section accepts the client's works
LEMMA LedgerPush ==
    ASSUME InductiveInv, NEW c \in Client, Push(c)
    PROVE  Ledger!Accept(Works(items[c])) /\ Works(items[c]) \in SUBSET Work
<1>1. /\ mQueue' = mQueue \o items[c]
      /\ UNCHANGED <<mPendingWork, work, mGeneration, fate>>
      /\ acceptedIn' = [w \in Work |-> IF w \in Works(items[c])
                                       THEN mGeneration ELSE acceptedIn[w]]
  BY DEF Push, Enqueue, localVars
<1>2. TypeInv /\ OwnerInv
  BY DEF InductiveInv
<1>3. Held' = Held \cup Works(items[c])
  <2>1. mQueue \in Seq(Work \cup {Null}) /\ items[c] \in Seq(Work \cup {Null})
    BY <1>2, OwnerTypes
  <2>2. Works(mQueue') = Works(mQueue) \cup Works(items[c])
    BY <1>1, <2>1, WorksConcat
  <2>3. QED BY <1>1, <2>2 DEF Held, Queued
<1>4. /\ Works(items[c]) \in SUBSET Work /\ Works(items[c]) \cap Held = {}
      /\ \A w \in Works(items[c]) : fate[w] = "none"
  BY <1>2, OwnerFacts, OwnerTypes DEF ItemsNew
<1>5. QED
  BY <1>1, <1>3, <1>4 DEF Ledger!Accept

\* a drain entry is no work
LEMMA LedgerMarkDrain ==
    ASSUME InductiveInv, NEW c \in Client, MarkDrain(c)
    PROVE  UNCHANGED Ledger!vars
<1> DEFINE entry == <<Null>>
<1>1. /\ mQueue' = mQueue \o entry
      /\ UNCHANGED <<mPendingWork, work, mGeneration, fate, acceptedIn>>
  BY DEF MarkDrain, Enqueue, localVars
<1>2. Works(entry) = {} /\ entry \in Seq(Work \cup {Null})
  BY DEF Works
<1> HIDE DEF entry
<1>3. Held' = Held
  <2>1. mQueue \in Seq(Work \cup {Null}) /\ entry \in Seq(Work \cup {Null})
    BY <1>2, OwnerTypes DEF InductiveInv
  <2>2. Works(mQueue \o entry) = Works(mQueue) \cup Works(entry)
    BY ONLY <2>1, WorksConcat
  <2>3. QED BY <1>1, <1>2, <2>2 DEF Held, Queued
<1>4. QED
  BY <1>1, <1>3 DEF Ledger!vars

\* what TakeAll gives back: every work but the one inside processQueue
LEMMA LedgerTakeAll ==
    ASSUME InductiveInv, NEW f, TakeAll(f), UNCHANGED work
    PROVE  LET S == Held \ {work}
           IN  /\ S \in SUBSET Work /\ Ledger!AllButOne(S) /\ Ledger!End(S, f)
<1> DEFINE S == Held \ {work}
<1>1. /\ mQueue' = <<>> /\ mPendingWork' = {}
      /\ fate' = [w \in Work |-> IF w \in Works(mQueue) \cup mPendingWork
                                 THEN f ELSE fate[w]]
  BY DEF TakeAll, Queued
<1>2. S = Works(mQueue) \cup mPendingWork /\ S \subseteq Held /\ S \in SUBSET Work
  BY OwnerFacts, OwnerTypes DEF InductiveInv
<1>3. Held' = Held \ S
  BY <1>1, <1>2, WorksEmpty, OwnerFacts, OwnerTypes DEF InductiveInv, Held, Queued
<1>4. QED
  BY <1>1, <1>2, <1>3 DEF Ledger!AllButOne, Ledger!End

\* finish() returns one pending work
LEMMA LedgerFinishPending ==
    ASSUME InductiveInv, NEW t \in Thread, FinishPending(t)
    PROVE  \E w \in Work : Ledger!Return(w)
<1>1. PICK w \in mPendingWork :
          /\ mPendingWork' = mPendingWork \ {w}
          /\ fate' = [fate EXCEPT ![w] = "done"]
  BY DEF FinishPending, ErasePending
<1>2. UNCHANGED <<mQueue, work, mGeneration, acceptedIn>>
  BY DEF FinishPending, notCodecVars, localVars
<1>3. /\ w \in Work /\ w \in Held /\ w # work /\ acceptedIn[w] = mGeneration
      /\ w \notin Works(mQueue)
  BY <1>1, HeldFacts, OwnerFacts DEF InductiveInv
<1>4. Held' = Held \ {w}
  BY <1>1, <1>2, <1>3 DEF Held, Queued
<1>5. fate' = [v \in Work |-> IF v \in {w} THEN "done" ELSE fate[v]]
  BY <1>1, <1>3, HeldFacts
<1>6. QED
  BY <1>2, <1>3, <1>4, <1>5 DEF Ledger!Return, Ledger!End

\* a work popped is still held
LEMMA LedgerPop ==
    ASSUME InductiveInv, PopFront
    PROVE  UNCHANGED Ledger!vars
<1>1. mQueue # <<>> /\ mQueue' = Tail(mQueue) /\ work' = Head(mQueue)
      /\ work = Null /\ UNCHANGED <<mPendingWork, fate, acceptedIn, mGeneration>>
  BY DEF PopFront, Receive, InductiveInv, TypeInv, PhaseOK, ledgerVars
<1>2. TypeInv /\ OwnerInv
  BY DEF InductiveInv
<1>3. Works(mQueue') = Works(mQueue) \ {Head(mQueue)}
  BY <1>1, <1>2, OwnerFacts, OwnerTypes, OnceTail
<1>4. Head(mQueue) \in Works(mQueue) \cup {Null}
  BY <1>1, <1>2, OwnerTypes, TailEntries DEF Works
<1>5. Held' = Held
  BY <1>1, <1>2, <1>3, <1>4, OwnerFacts, OwnerTypes DEF Held, Queued
<1>6. QED
  BY <1>1, <1>5 DEF Ledger!vars

\* without a pool the work is lost
LEMMA LedgerFetchPool ==
    ASSUME InductiveInv, FetchPool
    PROVE  UNCHANGED Ledger!vars \/ \E w \in Work : Ledger!Lose(w)
<1>1. UNCHANGED <<mQueue, mPendingWork, acceptedIn, mGeneration>>
  BY DEF FetchPool, queueVars
<1>2. CASE UNCHANGED <<work, fate>>
  BY <1>1, <1>2 DEF Held, Queued, Ledger!vars
<1>3. CASE /\ fate' = [w \in Work |-> IF w = work THEN "lost" ELSE fate[w]]
           /\ work' = Null
  <2>1. CASE work = Null
    <3>1. fate' = fate
      BY <1>3, <2>1, HeldFacts
    <3>2. QED BY <1>1, <1>3, <2>1, <3>1 DEF Held, Queued, Ledger!vars
  <2>2. CASE work # Null
    <3>1. Held' = Held \ {work} /\ work \in Held /\ work \in Work
      BY <1>1, <1>3, <2>2, HeldFacts, OwnerFacts DEF InductiveInv, Held, Queued
    <3>2. QED BY <1>1, <1>3, <3>1 DEF Ledger!Lose, Ledger!End
  <2>3. QED BY <2>1, <2>2
<1>4. QED BY <1>2, <1>3 DEF FetchPool

\* the last section returns the work, as not_found after a flush
LEMMA LedgerReturnWork ==
    ASSUME InductiveInv, ReturnWork
    PROVE  \E w \in Work : Ledger!Return(w) \/ Ledger!ReturnStale(w)
<1>1. UNCHANGED <<mQueue, mPendingWork, acceptedIn, mGeneration>>
      /\ work' = Null /\ work # Null
      /\ fate' = [fate EXCEPT ![work] = IF SameGeneration
                                        THEN "done" ELSE "not_found"]
  BY DEF ReturnWork, LastSection, At, InductiveInv, TypeInv, PhaseOK
<1>2. work \in Work /\ work \in Held /\ Held' = Held \ {work}
      /\ acceptedIn[work] = generation
  BY <1>1, HeldFacts, OwnerFacts DEF InductiveInv, Held, Queued
<1>3. fate' = [v \in Work |-> IF v \in {work}
                              THEN IF SameGeneration THEN "done" ELSE "not_found"
                              ELSE fate[v]]
  BY <1>1, <1>2, HeldFacts
<1>4. CASE SameGeneration
  BY <1>1, <1>2, <1>3, <1>4 DEF SameGeneration, Ledger!Return, Ledger!End
<1>5. CASE ~SameGeneration
  BY <1>1, <1>2, <1>3, <1>5 DEF SameGeneration, Ledger!ReturnStale, Ledger!End
<1>6. QED BY <1>4, <1>5

\* a work that waits under its frame index may end the one that was there
LEMMA LedgerKeepPending ==
    ASSUME InductiveInv, KeepPending
    PROVE  UNCHANGED Ledger!vars \/ \E w \in Work : Ledger!Return(w)
<1> DEFINE unexpected == {w \in mPendingWork : FrameIndex[w] = FrameIndex[work]}
<1>1. UNCHANGED <<mQueue, acceptedIn, mGeneration>> /\ work' = Null /\ work # Null
  BY DEF KeepPending, LastSection, At, InductiveInv, TypeInv, PhaseOK
<1>2. /\ mPendingWork' = (mPendingWork \ unexpected) \cup {work}
      /\ fate' = [w \in Work |-> IF w \in unexpected THEN "corrupted" ELSE fate[w]]
      /\ unexpected \subseteq mPendingWork
  BY DEF KeepPending
<1>3. \A v, w \in unexpected : v = w
  BY DEF InductiveInv, PendingIsMap
<1> HIDE DEF unexpected
<1>4. Held' = Held \ unexpected
  BY <1>1, <1>2, HeldFacts, OwnerFacts DEF InductiveInv, Held, Queued
<1>5. CASE unexpected = {}
  <2>1. fate' = fate
    BY <1>2, <1>5, HeldFacts
  <2>2. QED BY <1>1, <1>4, <1>5, <2>1 DEF Ledger!vars
<1>6. CASE unexpected # {}
  <2>1. PICK w : unexpected = {w}
    BY <1>3, <1>6
  <2>2. w \in Work /\ w \in Held /\ acceptedIn[w] = mGeneration
    BY <1>2, <2>1, HeldFacts
  <2>3. QED
    BY <1>1, <1>2, <1>4, <2>1, <2>2 DEF Ledger!Return, Ledger!End
<1>7. QED BY <1>5, <1>6

\* every step of the component is a step of the ledger or leaves it alone
LEMMA LedgerStep ==
    ASSUME InductiveInv, [Next]_vars
    PROVE  [Ledger!Next]_(Ledger!vars)
<1>1. ASSUME NEW c \in Client, Push(c) PROVE Ledger!Next
  BY <1>1, LedgerPush DEF Ledger!Next
<1>2. ASSUME NEW c \in Client, MarkDrain(c) PROVE UNCHANGED Ledger!vars
  BY <1>2, LedgerMarkDrain
<1>3. ASSUME NEW c \in Client, FlushQueue(c) PROVE Ledger!Next
  BY <1>3, LedgerTakeAll DEF FlushQueue, localVars, Ledger!Flush, Ledger!Next
<1>4. ASSUME NEW c \in Client, StopClear(c) PROVE Ledger!Next
  BY <1>4, LedgerTakeAll DEF StopClear, localVars, Ledger!Discard, Ledger!Next
<1>5. ASSUME NEW t \in Thread, FinishPending(t) PROVE Ledger!Next
  BY <1>5, LedgerFinishPending DEF Ledger!Next
<1>6. CASE PopFront
  BY <1>6, LedgerPop
<1>7. CASE FetchPool
  BY <1>7, LedgerFetchPool DEF Ledger!Next
<1>8. CASE ReturnWork
  BY <1>8, LedgerReturnWork DEF Ledger!Next
<1>9. CASE KeepPending
  BY <1>9, LedgerKeepPending DEF Ledger!Next
<1>10. CASE OnFlush \/ Feed \/ CodecReturns \/ HandleUnset \/ HandleInit
            \/ HandleStart \/ HandleStop \/ ProcessIgnored
  BY <1>10
     DEF OnFlush, Feed, CodecReturns, HandleUnset, HandleInit, HandleStart, HandleStop,
         ProcessIgnored, queueVars, localVars, ledgerVars, Held, Queued, Ledger!vars
<1>11. CASE EndProcess
  <2>1. UNCHANGED <<queueVars, work, ledgerVars>>
    BY <1>11 DEF EndProcess, At, InductiveInv, TypeInv, PhaseOK
  <2>2. QED BY <2>1 DEF queueVars, ledgerVars, Held, Queued, Ledger!vars
<1>12. ASSUME NEW t \in Thread, FinishOther(t) \/ Deliver(t)
       PROVE  UNCHANGED Ledger!vars
  BY <1>12 DEF FinishOther, Deliver, notCodecVars, localVars, Held, Queued,
     Ledger!vars
<1>13. ASSUME NEW c \in Client, ClientCall(c) PROVE UNCHANGED Ledger!vars
  BY <1>13
     DEF ClientCall, SetListener, ClearListener, QueueCall, FlushCall, DrainCall, StartCall,
         StopCall, ResetCall, ReleaseCall, IfRunning, queueVars, localVars, ledgerVars,
         Held, Queued, Ledger!vars
<1>14. ASSUME NEW c \in Client,
              Send(c) \/ Answered(c) \/ StartCommit(c) \/ StopPool(c) \/ StopDrained(c)
       PROVE  UNCHANGED Ledger!vars
  BY <1>14
     DEF Send, Answered, StartCommit, StopPool, StopDrained, queueVars, localVars,
         ledgerVars, Held, Queued, Ledger!vars
<1>15. CASE UNCHANGED vars
  BY <1>15 DEF vars, queueVars, localVars, ledgerVars, Held, Queued, Ledger!vars
<1>16. QED
  BY <1>1, <1>2, <1>3, <1>4, <1>5, <1>6, <1>7, <1>8, <1>9, <1>10, <1>11, <1>12,
     <1>13, <1>14, <1>15
     DEF Next, LooperStep, ThreadStep, ClientStep, Done, Thread

\* The component implements the abstract ledger of works: every behaviour of
\* C2RKComponent, seen through Ledger's mapping, is a behaviour of WorkLedger.
THEOREM ImplementsLedgerHolds == Spec => ImplementsLedger
<1>1. InductiveInv /\ [Next]_vars => [Ledger!Next]_(Ledger!vars)
  BY LedgerStep
<1>2. QED
  BY <1>1, LedgerInit, InductiveInvHolds, PTL
     DEF Spec, ImplementsLedger, Ledger!Spec

-----------------------------------------------------------------------------
(* One caller: what stop() and reset() leave behind.                        *)

\* a step of the only client
LEMMA OnlyGoto ==
    ASSUME TypeInv, OneCaller, NEW c \in Client, NEW p, Goto(c, p)
    PROVE  pc'[Looper] = pc[Looper] /\ \A d \in Client : d = c /\ pc'[d] = p
<1>1. pc \in [Thread -> ClientPC \cup LooperPC] /\ c \in Thread /\ c # Looper
  BY ComponentAssumption DEF ComponentAssumption, Thread, TypeInv, TypeOK, ThreadTypeOK
<1>2. QED
  BY <1>1 DEF OneCaller, Goto

\* a call that begins, with the component in the state it has: nothing is
\* awaited, and what is sent is not kWhatStop or kWhatReset
LEMMA QuietCall ==
    ASSUME TypeInv, OneCaller, QuietInv, NEW c \in Client, pc[c] = "idle",
           NEW p \in {"idle", "push", "mark", "flush", "send"}, Goto(c, p),
           p \in {"push", "mark", "flush"} => execState = "RUNNING",
           p = "send" => cmsg'[c] \in {"Init", "Start", "Release"},
           mThiz' \/ mThiz' = mThiz,
           UNCHANGED <<execState, mQueue, mPendingWork, work, hasQueuedWork,
                       msgs, reply, codec>>
    PROVE  QuietInv'
<1>1. pc'[Looper] = pc[Looper] /\ \A d \in Client : d = c /\ pc'[d] = p
  BY OnlyGoto
<1>2. \A i \in DOMAIN msgs : ~IsAwaited(i)
  BY DEF QuietInv, AwaitedInv
<1>3. \A i \in DOMAIN msgs' : ~IsAwaited(i)'
  BY <1>2 DEF IsAwaited
<1>4. IsCleared' => IsCleared
  BY <1>1 DEF IsCleared
<1>5. Settled' => Settled
  BY <1>1, <1>4 DEF Settled, WaitsForStop
<1>6. CallerInv'
  BY <1>1 DEF QuietInv, CallerInv
<1>7. AwaitedInv' /\ ClearedInv'
  BY <1>3, <1>4 DEF QuietInv, AwaitedInv, ClearedInv
<1>8. SettledInv'
  <2>1. \A d \in Client : pc[d] \in {"idle", "send"}
    BY <1>1
  <2>2. QED
    BY <1>1, <1>5, <2>1 DEF QuietInv, SettledInv
<1>9. QED
  BY <1>6, <1>7, <1>8 DEF QuietInv

\* stop() and reset() until the queue is cleared
LEMMA QuietTeardown ==
    ASSUME TypeInv, OneCaller, QuietInv, NEW c \in Client, pc[c] # "await",
           NEW p \in {"pool", "drain", "clear"}, Goto(c, p),
           cmsg'[c] \in {"Stop", "Reset"}, UNCHANGED <<mThiz, msgs, codec>>
    PROVE  QuietInv'
<1>1. pc'[Looper] = pc[Looper] /\ \A d \in Client : d = c /\ pc'[d] = p
  BY OnlyGoto
<1>2. \A i \in DOMAIN msgs : ~IsAwaited(i)
  BY DEF QuietInv, AwaitedInv
<1>3. \A i \in DOMAIN msgs' : ~IsAwaited(i)'
  BY <1>2 DEF IsAwaited
<1>4. ~IsCleared' /\ ~Settled'
  BY <1>1 DEF IsCleared, Settled
<1>5. CallerInv'
  BY <1>1 DEF QuietInv, CallerInv
<1>6. QED
  BY <1>3, <1>4, <1>5 DEF QuietInv, AwaitedInv, ClearedInv, SettledInv

\* a step after which the component is running
LEMMA QuietRunning ==
    ASSUME TypeInv, OneCaller, QuietInv, NEW c \in Client, pc[c] # "await",
           NEW p \in {"idle", "send"}, Goto(c, p), execState' = "RUNNING",
           UNCHANGED <<mThiz, msgs, codec>>
    PROVE  QuietInv'
<1>1. pc'[Looper] = pc[Looper] /\ \A d \in Client : d = c /\ pc'[d] = p
  BY OnlyGoto
<1>2. \A i \in DOMAIN msgs : ~IsAwaited(i)
  BY DEF QuietInv, AwaitedInv
<1>3. \A i \in DOMAIN msgs' : ~IsAwaited(i)'
  BY <1>2 DEF IsAwaited
<1>4. ~IsCleared' /\ ~Settled'
  BY DEF IsCleared, Settled
<1>5. CallerInv'
  BY <1>1 DEF QuietInv, CallerInv
<1>6. QED
  BY <1>3, <1>4, <1>5 DEF QuietInv, AwaitedInv, ClearedInv, SettledInv

\* WorkQueue::clear() of stop() and reset()
LEMMA QuietClear ==
    ASSUME TypeInv, OneCaller, QuietInv, NEW c \in Client, StopClear(c)
    PROVE  QuietInv'
<1>1. /\ pc[c] = "clear" /\ Goto(c, "send") /\ mQueue' = <<>> /\ mPendingWork' = {}
      /\ UNCHANGED <<execState, mThiz, msgs, codec, cmsg>>
  BY DEF StopClear, TakeAll, execVars, clientVars
<1>2. pc'[Looper] = pc[Looper] /\ \A d \in Client : d = c /\ pc'[d] = "send"
  BY <1>1, OnlyGoto
<1>3. \A i \in DOMAIN msgs : ~IsAwaited(i)
  BY <1>1 DEF QuietInv, AwaitedInv
<1>4. \A i \in DOMAIN msgs' : ~IsAwaited(i)'
  BY <1>1, <1>3 DEF IsAwaited
<1>5. cmsg'[c] \in {"Stop", "Reset"}
  BY <1>1 DEF QuietInv, CallerInv
<1>6. ~Settled'
  BY <1>2, <1>5 DEF Settled, WaitsForStop
<1>7. CallerInv'
  BY <1>1, <1>2, <1>5 DEF QuietInv, CallerInv
<1>8. QED
  BY <1>1, <1>4, <1>6, <1>7 DEF QuietInv, AwaitedInv, ClearedInv, SettledInv

\* post() and postAndAwaitResponse(): the message is the only one awaited, the
\* last of the queue
LEMMA QuietSend ==
    ASSUME TypeInv, OneCaller, QuietInv, NEW c \in Client, Send(c)
    PROVE  QuietInv'
<1> DEFINE m == Message(cmsg[c], c)
           M == [what : MsgKind, replyTo : Thread]
           p == IF cmsg[c] \in AwaitKind THEN "await"
                ELSE IF cmsg[c] = "Start" THEN "commit" ELSE "idle"
<1>1. /\ pc[c] = "send" /\ msgs' = Append(msgs, m) /\ m.what = cmsg[c]
      /\ reply' = [reply EXCEPT ![c] = "none"] /\ Goto(c, p)
      /\ UNCHANGED <<execState, mThiz, mQueue, mPendingWork, work, hasQueuedWork,
                     cmsg, codec>>
  BY DEF Send, Message, execVars, queueVars, handlerVars, localVars, clientVars
<1>2. m \in M /\ msgs \in Seq(M) /\ cmsg[c] \in MsgKind
  BY DEF Message, Thread, TypeInv, TypeOK, ClientTypeOK, HandlerTypeOK
<1>3. reply'[c] = "none"
  BY <1>1 DEF TypeInv, TypeOK, HandlerTypeOK
<1> HIDE DEF m, M, p
<1>4. pc'[Looper] = pc[Looper] /\ \A d \in Client : d = c /\ pc'[d] = p
  BY <1>1, OnlyGoto
<1>5. /\ DOMAIN msgs' = 1 .. Len(msgs) + 1 /\ DOMAIN msgs = 1 .. Len(msgs)
      /\ Len(msgs') = Len(msgs) + 1 /\ Len(msgs) \in Nat
      /\ msgs'[Len(msgs) + 1] = m /\ \A j \in 1 .. Len(msgs) : msgs'[j] = msgs[j]
  BY <1>1, <1>2
<1>6. \A i \in DOMAIN msgs : ~IsAwaited(i)
  BY <1>1 DEF QuietInv, AwaitedInv
<1>7. \A i \in DOMAIN msgs' : IsAwaited(i)' =>
         i = Len(msgs') /\ p = "await" /\ msgs'[i].what = cmsg[c]
  BY <1>1, <1>5, <1>6 DEF IsAwaited, p
<1>8. AwaitedInv'
  <2>1. \A i \in DOMAIN msgs' : IsAwaited(i)' =>
           \A d \in Client : pc'[d] = "await" /\ reply'[d] = "none"
                             /\ msgs'[i].what = cmsg'[d]
    BY <1>1, <1>3, <1>4, <1>7
  <2>2. QED
    BY <1>7, <2>1 DEF AwaitedInv
<1>9. IsCleared' => IsCleared
  BY <1>1, <1>4 DEF IsCleared
<1>10. ClearedInv'
  <2>1. \A i \in DOMAIN msgs' : IsAwaited(i)' =>
           /\ Len(msgs') <= i + 1 /\ i = Len(msgs')
           /\ \A j \in DOMAIN msgs' : ~(j > i)
    BY <1>5, <1>7
  <2>2. QED
    BY <1>1, <1>9, <2>1 DEF QuietInv, ClearedInv
<1>11. CallerInv'
  <2>1. p \in {"await", "commit", "idle"}
    BY DEF p
  <2>2. QED
    BY <1>1, <1>4, <2>1 DEF QuietInv, CallerInv
<1>12. SettledInv'
  <2>1. Settled' => Settled
    <3>1. Settled' => cmsg[c] \notin {"Stop", "Reset"}
      BY <1>1, <1>3, <1>4 DEF Settled, WaitsForStop, p, AwaitKind
    <3>2. QED
      BY <1>4, <1>9, <3>1 DEF Settled, WaitsForStop
  <2>2. Settled' => p # "idle"
    <3>1. Settled' => execState # "RUNNING"
      BY <1>1 DEF Settled, IsCleared
    <3>2. execState # "RUNNING" => cmsg[c] # "Process"
      BY <1>1 DEF QuietInv, CallerInv
    <3>3. QED
      BY <1>2, <3>1, <3>2 DEF p, MsgKind
  <2>3. Settled' => ~(p \in {"idle", "send"}) /\ ~HasAnswer(c)'
    BY <1>3, <1>4, <2>2 DEF HasAnswer, p
  <2>4. QED
    BY <1>1, <1>4, <2>1, <2>3 DEF QuietInv, SettledInv
<1>13. QED
  BY <1>8, <1>10, <1>11, <1>12 DEF QuietInv

\* postAndAwaitResponse() returns
LEMMA QuietAnswered ==
    ASSUME TypeInv, OneCaller, QuietInv, NEW c \in Client, Answered(c)
    PROVE  QuietInv'
<1> DEFINE p == IF op[c] = "start" /\ reply[c] = "OK" THEN "commit" ELSE "idle"
<1>1. /\ HasAnswer(c) /\ Goto(c, p)
      /\ UNCHANGED <<execState, mThiz, mQueue, mPendingWork, work, hasQueuedWork,
                     cmsg, codec, msgs, reply>>
  BY DEF Answered, HasAnswer, execVars, queueVars, localVars, clientVars
<1>2. p \in {"commit", "idle"}
  OBVIOUS
<1> HIDE DEF p
<1>3. pc'[Looper] = pc[Looper] /\ \A d \in Client : d = c /\ pc'[d] = p
  BY <1>1, OnlyGoto
<1>4. \A i \in DOMAIN msgs : ~IsAwaited(i)
  BY <1>1 DEF QuietInv, AwaitedInv, HasAnswer
<1>5. \A i \in DOMAIN msgs' : ~IsAwaited(i)'
  BY <1>1, <1>4 DEF IsAwaited
<1>6. IsCleared' => IsCleared
  BY <1>1, <1>3 DEF IsCleared, HasAnswer
<1>7. Settled' => Settled
  BY <1>1, <1>3, <1>6 DEF Settled, WaitsForStop, HasAnswer
<1>8. CallerInv'
  BY <1>1, <1>2, <1>3 DEF QuietInv, CallerInv
<1>9. AwaitedInv' /\ ClearedInv'
  BY <1>1, <1>5, <1>6 DEF QuietInv, AwaitedInv, ClearedInv
<1>10. SettledInv'
  <2>1. \A d \in Client : HasAnswer(d)
    BY <1>1, <1>3
  <2>2. QED
    BY <1>1, <1>3, <1>7, <2>1 DEF QuietInv, SettledInv
<1>11. QED
  BY <1>8, <1>9, <1>10 DEF QuietInv

\* finish() and the listener
LEMMA QuietOutput ==
    ASSUME QuietInv, codec' \subseteq codec, mPendingWork' \subseteq mPendingWork,
           UNCHANGED <<execState, mThiz, mQueue, work, hasQueuedWork, cmsg, msgs,
                       reply, pc>>
    PROVE  QuietInv'
<1>1. CallerInv' /\ AwaitedInv'
  BY DEF QuietInv, CallerInv, AwaitedInv, IsAwaited
<1>2. (IsCleared' <=> IsCleared) /\ (Settled' <=> Settled)
  BY DEF IsCleared, Settled, WaitsForStop
<1>3. ClearedInv'
  BY <1>2 DEF QuietInv, ClearedInv, IsAwaited
<1>4. SettledInv'
  BY <1>2 DEF QuietInv, SettledInv, HasAnswer
<1>5. QED
  BY <1>1, <1>3, <1>4 DEF QuietInv

\* A message is handled: an awaited one is answered, and if it is that of
\* stop() or reset() the codec is emptied.
LEMMA QuietReceive ==
    ASSUME TypeInv, OneCaller, QuietInv, pc[Looper] = "wait", msgs # <<>>,
           msgs' = Tail(msgs), NEW answer \in {"OK", "CORRUPTED"},
           \/ Head(msgs).what \in AwaitKind /\ Reply(answer)
           \/ Head(msgs).what \notin AwaitKind /\ UNCHANGED reply,
           codec' \in {codec, {}},
           Head(msgs).what \in {"Stop", "Reset"} => codec' = {},
           UNCHANGED <<execState, mThiz, mQueue, mPendingWork, work,
                       hasQueuedWork, pc, cmsg>>
    PROVE  QuietInv'
<1> DEFINE M == [what : MsgKind, replyTo : Thread]
<1>1. msgs \in Seq(M)
  BY DEF TypeInv, TypeOK, HandlerTypeOK
<1> HIDE DEF M
<1>2. /\ 1 \in DOMAIN msgs /\ Head(msgs) = msgs[1]
      /\ \A i \in DOMAIN msgs' : i + 1 \in DOMAIN msgs /\ msgs'[i] = msgs[i + 1]
  BY <1>1, TailEntries
<1>3. /\ DOMAIN msgs = 1 .. Len(msgs) /\ DOMAIN msgs' = 1 .. Len(msgs')
      /\ Len(msgs) \in Nat /\ Len(msgs') = Len(msgs) - 1
  BY <1>1
<1>4. \A i \in DOMAIN msgs' : i \in Nat /\ (IsAwaited(i)' <=> IsAwaited(i + 1))
  BY <1>2, <1>3 DEF IsAwaited
<1>5. CallerInv'
  BY DEF QuietInv, CallerInv
<1>6. IsCleared' <=> IsCleared
  BY DEF IsCleared
<1>7. CASE IsAwaited(1)
  <2>1. /\ Head(msgs).what \in AwaitKind
        /\ \A c \in Client : pc[c] = "await" /\ cmsg[c] = Head(msgs).what
    BY <1>2, <1>7 DEF QuietInv, AwaitedInv, IsAwaited
  <2>2. \A c \in Client : reply'[c] # "none"
    <3>1. Head(msgs).replyTo \in Client
      BY <1>2, <2>1 DEF TypeInv, TypeOK, HandlerTypeOK
    <3>2. reply \in [Client -> {"none", "OK", "CORRUPTED"}]
      BY DEF TypeInv, TypeOK, HandlerTypeOK
    <3>3. Reply(answer)
      BY <2>1
    <3>4. QED
      BY <3>1, <3>2, <3>3 DEF Reply, OneCaller
  <2>3. \E c \in Client : TRUE
    BY <1>2, <2>1 DEF TypeInv, TypeOK, HandlerTypeOK
  <2>4. \A i \in DOMAIN msgs' : ~IsAwaited(i)'
    <3>1. \A i \in DOMAIN msgs' : i + 1 \in DOMAIN msgs /\ i + 1 # 1
      BY <1>2, <1>4
    <3>2. QED
      BY <1>2, <1>4, <1>7, <3>1 DEF QuietInv, AwaitedInv
  <2>5. AwaitedInv' /\ ClearedInv'
    BY <1>6, <2>4 DEF QuietInv, AwaitedInv, ClearedInv
  <2>6. SettledInv'
    <3> SUFFICES ASSUME Settled' PROVE /\ pc'[Looper] = "wait" /\ codec' = {}
                                       /\ Len(msgs') <= 1
                                       /\ \A i \in DOMAIN msgs' : msgs'[i].what = "Process"
      BY DEF SettledInv
    <3>1. IsCleared
      BY <1>6 DEF Settled
    <3>2. codec' = {}
      <4>1. CASE Head(msgs).what \in {"Stop", "Reset"}
        BY <4>1
      <4>2. CASE Head(msgs).what \notin {"Stop", "Reset"}
        BY <2>1, <3>1, <4>2 DEF QuietInv, SettledInv, Settled, WaitsForStop
      <4>3. QED BY <4>1, <4>2
    <3>3. Len(msgs) <= 1 + 1 /\ \A j \in DOMAIN msgs : j > 1 => msgs[j].what = "Process"
      BY <1>2, <1>7, <3>1 DEF QuietInv, ClearedInv
    <3>4. Len(msgs') <= 1
      BY <1>3, <3>3
    <3>5. \A i \in DOMAIN msgs' : msgs'[i].what = "Process"
      <4>1. \A i \in DOMAIN msgs' : i + 1 > 1
        BY <1>3
      <4>2. QED
        BY <1>2, <3>3, <4>1
    <3>6. QED
      BY <3>2, <3>4, <3>5
  <2>7. QED
    BY <1>5, <2>5, <2>6 DEF QuietInv
<1>8. CASE ~IsAwaited(1)
  <2>1. reply' = reply
    BY <1>2, <1>8 DEF IsAwaited
  <2>2. Settled' <=> Settled
    BY <1>6, <2>1 DEF Settled, WaitsForStop
  <2>3. AwaitedInv'
    <3>1. \A i \in DOMAIN msgs' : IsAwaited(i)' =>
             \A c \in Client : pc'[c] = "await" /\ reply'[c] = "none"
                               /\ msgs'[i].what = cmsg'[c]
      BY <1>2, <1>4, <2>1 DEF QuietInv, AwaitedInv
    <3>2. \A i, j \in DOMAIN msgs' : IsAwaited(i)' /\ IsAwaited(j)' => i + 1 = j + 1
      BY <1>2, <1>4 DEF QuietInv, AwaitedInv
    <3>3. \A i, j \in DOMAIN msgs' : i + 1 = j + 1 => i = j
      BY <1>4
    <3>4. QED
      BY <3>1, <3>2, <3>3 DEF AwaitedInv
  <2>4. ClearedInv'
    <3> SUFFICES ASSUME IsCleared, NEW i \in DOMAIN msgs', IsAwaited(i)'
                 PROVE  /\ Len(msgs') <= i + 1
                        /\ hasQueuedWork => i = Len(msgs')
                        /\ \A j \in DOMAIN msgs' : j > i => msgs'[j].what = "Process"
      BY <1>6 DEF QuietInv, ClearedInv
    <3>1. /\ Len(msgs) <= (i + 1) + 1
          /\ hasQueuedWork => i + 1 = Len(msgs)
          /\ \A j \in DOMAIN msgs : j > i + 1 => msgs[j].what = "Process"
      BY <1>2, <1>4 DEF QuietInv, ClearedInv
    <3>2. \A j \in DOMAIN msgs' : j > i => j + 1 > i + 1
      BY <1>4
    <3>3. /\ Len(msgs') <= i + 1
          /\ hasQueuedWork => i = Len(msgs')
      BY <1>3, <1>4, <3>1
    <3>4. QED
      BY <1>2, <3>1, <3>2, <3>3
  <2>5. SettledInv'
    <3>1. Settled' => pc'[Looper] = "wait" /\ codec' = {}
      BY <2>2 DEF QuietInv, SettledInv
    <3>2. Len(msgs) <= 1 => Len(msgs') <= 1
      BY <1>3
    <3>3. \A c \in Client : HasAnswer(c)' <=> HasAnswer(c)
      BY <2>1 DEF HasAnswer
    <3>4. QED
      BY <1>2, <2>2, <3>1, <3>2, <3>3 DEF QuietInv, SettledInv
  <2>6. QED
    BY <1>5, <2>3, <2>4, <2>5 DEF QuietInv
<1>9. QED
  BY <1>7, <1>8

\* processQueue() takes an entry: the queue was not cleared
LEMMA QuietPop ==
    ASSUME TypeInv, QuietInv, PopFront
    PROVE  QuietInv'
<1>1. /\ msgs # <<>> /\ msgs' = Tail(msgs) /\ mThiz /\ mQueue # <<>>
      /\ UNCHANGED <<execState, mThiz, cmsg, reply>>
      /\ \A c \in Client : pc'[c] = pc[c]
  BY LooperGoto DEF PopFront, Receive, execVars, clientVars
<1> DEFINE M == [what : MsgKind, replyTo : Thread]
<1>2. msgs \in Seq(M)
  BY DEF TypeInv, TypeOK, HandlerTypeOK
<1> HIDE DEF M
<1>3. \A i \in DOMAIN msgs' : i + 1 \in DOMAIN msgs /\ msgs'[i] = msgs[i + 1]
  BY <1>1, <1>2, TailEntries
<1>4. \A i \in DOMAIN msgs' : i \in Nat /\ (IsAwaited(i)' <=> IsAwaited(i + 1))
  <2>1. \A i \in DOMAIN msgs' : i \in Nat
    BY <1>1, <1>2
  <2>2. QED
    BY <1>3, <2>1 DEF IsAwaited
<1>5. ~IsCleared' /\ ~Settled'
  BY <1>1 DEF QuietInv, ClearedInv, IsCleared, Settled
<1>6. CallerInv'
  BY <1>1 DEF QuietInv, CallerInv
<1>7. AwaitedInv'
  <2>1. \A i \in DOMAIN msgs' : IsAwaited(i)' =>
           \A c \in Client : pc'[c] = "await" /\ reply'[c] = "none"
                             /\ msgs'[i].what = cmsg'[c]
    BY <1>1, <1>3, <1>4 DEF QuietInv, AwaitedInv
  <2>2. \A i, j \in DOMAIN msgs' : IsAwaited(i)' /\ IsAwaited(j)' => i + 1 = j + 1
    BY <1>3, <1>4 DEF QuietInv, AwaitedInv
  <2>3. \A i, j \in DOMAIN msgs' : i + 1 = j + 1 => i = j
    BY <1>4
  <2>4. QED
    BY <2>1, <2>2, <2>3 DEF AwaitedInv
<1>8. QED
  BY <1>5, <1>6, <1>7 DEF QuietInv, ClearedInv, SettledInv

\* inside processQueue(), no call has its answer: the work in hand may go to
\* the pending map, and to the codec
LEMMA QuietInside ==
    ASSUME TypeInv, QuietInv, pc[Looper] # "wait", NEW p, Goto(Looper, p),
           \/ mPendingWork' = mPendingWork /\ work' \in {work, Null}
           \/ work # Null /\ work' = Null /\ mPendingWork' \subseteq mPendingWork \cup {work},
           UNCHANGED <<execState, mThiz, mQueue, hasQueuedWork, msgs, reply, cmsg>>
    PROVE  QuietInv'
<1>1. \A c \in Client : pc'[c] = pc[c]
  BY LooperGoto
<1>2. CallerInv'
  BY <1>1 DEF QuietInv, CallerInv
<1>3. AwaitedInv'
  BY <1>1 DEF QuietInv, AwaitedInv, IsAwaited
<1>4. (IsCleared' <=> IsCleared) /\ ~Settled'
  BY <1>1 DEF QuietInv, SettledInv, IsCleared, Settled, WaitsForStop
<1>5. ClearedInv'
  <2>1. IsCleared => /\ \A v, w \in mPendingWork' : v = w
                     /\ work' # Null => mPendingWork' = {}
    BY DEF QuietInv, ClearedInv
  <2>2. QED
    BY <1>4, <2>1 DEF QuietInv, ClearedInv, IsAwaited
<1>6. QED
  BY <1>2, <1>3, <1>4, <1>5 DEF QuietInv, SettledInv

\* ... and what is posted when it returns comes behind the awaited message,
\* once: with the queue cleared nothing is popped after it
LEMMA QuietEnd ==
    ASSUME TypeInv, QuietInv, EndProcess
    PROVE  QuietInv'
<1> DEFINE m == Message("Process", Looper)
           M == [what : MsgKind, replyTo : Thread]
<1>1. /\ pc[Looper] = "end" /\ hasQueuedWork' = FALSE /\ work' = Null
      /\ msgs' = IF hasQueuedWork THEN Append(msgs, m) ELSE msgs
      /\ UNCHANGED <<execState, mThiz, mQueue, mPendingWork, cmsg, reply>>
      /\ \A c \in Client : pc'[c] = pc[c]
  BY LooperGoto DEF EndProcess, At, execVars, queueVars, clientVars
<1>2. m \in M /\ m.what = "Process" /\ msgs \in Seq(M)
  BY DEF Message, Thread, MsgKind, AwaitKind, TypeInv, TypeOK, HandlerTypeOK
<1> HIDE DEF m, M
<1>3. (IsCleared' <=> IsCleared) /\ ~Settled'
  BY <1>1 DEF QuietInv, SettledInv, IsCleared, Settled, WaitsForStop
<1>4. CallerInv'
  BY <1>1 DEF QuietInv, CallerInv
<1>5. CASE ~hasQueuedWork
  <2>1. msgs' = msgs
    BY <1>1, <1>5
  <2>2. AwaitedInv' /\ ClearedInv'
    BY <1>1, <1>3, <2>1 DEF QuietInv, AwaitedInv, ClearedInv, IsAwaited
  <2>3. QED
    BY <1>3, <1>4, <2>2 DEF QuietInv, SettledInv
<1>6. CASE hasQueuedWork
  <2>1. /\ DOMAIN msgs' = 1 .. Len(msgs) + 1 /\ DOMAIN msgs = 1 .. Len(msgs)
        /\ Len(msgs') = Len(msgs) + 1 /\ Len(msgs) \in Nat
        /\ msgs'[Len(msgs) + 1] = m /\ \A j \in 1 .. Len(msgs) : msgs'[j] = msgs[j]
    BY <1>1, <1>2, <1>6
  <2>2. \A i \in DOMAIN msgs' : IsAwaited(i)' =>
           i \in DOMAIN msgs /\ IsAwaited(i) /\ msgs'[i] = msgs[i]
    BY <1>2, <2>1 DEF IsAwaited, AwaitKind
  <2>3. AwaitedInv'
    BY <1>1, <2>2 DEF QuietInv, AwaitedInv
  <2>4. ClearedInv'
    <3>1. IsCleared => \A i \in DOMAIN msgs' : IsAwaited(i)' => i = Len(msgs)
      BY <1>6, <2>2 DEF QuietInv, ClearedInv
    <3>2. \A j \in DOMAIN msgs' : j > Len(msgs) => msgs'[j].what = "Process"
      BY <1>2, <2>1
    <3>3. IsCleared => \A i \in DOMAIN msgs' : IsAwaited(i)' =>
             /\ Len(msgs') <= i + 1
             /\ \A j \in DOMAIN msgs' : j > i => msgs'[j].what = "Process"
      BY <2>1, <3>1, <3>2
    <3>4. QED
      BY <1>1, <1>3, <3>3 DEF QuietInv, ClearedInv
  <2>5. QED
    BY <1>3, <1>4, <2>3, <2>4 DEF QuietInv, SettledInv
<1>7. QED
  BY <1>5, <1>6

\* every step keeps QuietInv, if one thread makes the calls
LEMMA QuietStep ==
    ASSUME TypeInv, OneCaller, QuietInv, [Next]_vars
    PROVE  QuietInv'
<1>1. ASSUME NEW c \in Client, ClientCall(c) PROVE QuietInv'
  <2>1. CASE SetListener(c)
    BY <2>1, QuietCall DEF SetListener, Call, queueVars, localVars
  <2>2. CASE ClearListener(c)
    BY <2>2, QuietCall DEF ClearListener, Call, queueVars, localVars
  <2>3. ASSUME NEW o, NEW p \in {"push", "mark", "flush"}, IfRunning(c, o, p)
        PROVE  QuietInv'
    BY <2>3, QuietCall DEF IfRunning, Call, execVars, queueVars, localVars
  <2>4. CASE QueueCall(c)
    BY <2>3, <2>4 DEF QueueCall
  <2>5. CASE FlushCall(c) \/ DrainCall(c)
    BY <2>3, <2>5 DEF FlushCall, DrainCall
  <2>6. cmsg \in [Client -> MsgKind]
    BY DEF TypeInv, TypeOK, ClientTypeOK
  <2>7. CASE StartCall(c)
    <3>1. cmsg'[c] \in {"Init", "Start"}
      BY <2>6, <2>7 DEF StartCall
    <3>2. QED
      BY <2>7, <3>1, QuietCall DEF StartCall, Call, execVars, queueVars, localVars
  <2>8. CASE ReleaseCall(c)
    <3>1. cmsg'[c] = "Release"
      BY <2>6, <2>8 DEF ReleaseCall
    <3>2. QED
      BY <2>8, <3>1, QuietCall DEF ReleaseCall, Call, execVars, queueVars, localVars
  <2>9. CASE StopCall(c) /\ execState = "RUNNING"
    <3>1. cmsg'[c] = "Stop"
      BY <2>6, <2>9 DEF StopCall
    <3>2. QED
      BY <2>9, <3>1, QuietTeardown DEF StopCall, Call, queueVars, localVars
  <2>10. CASE StopCall(c) /\ execState # "RUNNING"
    BY <2>10, QuietCall DEF StopCall, Call, queueVars, localVars
  <2>11. CASE ResetCall(c)
    <3>1. cmsg'[c] = "Reset"
      BY <2>6, <2>11 DEF ResetCall
    <3>2. QED
      BY <2>11, <3>1, QuietTeardown DEF ResetCall, Call
  <2>12. QED
    BY <1>1, <2>1, <2>2, <2>4, <2>5, <2>7, <2>8, <2>9, <2>10, <2>11 DEF ClientCall
<1>2. ASSUME NEW c \in Client, ClientStep(c) PROVE QuietInv'
  <2>1. CASE Push(c) \/ MarkDrain(c)
    <3>1. execState = "RUNNING"
      BY <2>1 DEF QuietInv, CallerInv, Push, MarkDrain
    <3>2. QED
      BY <2>1, <3>1, QuietRunning DEF Push, MarkDrain, Enqueue, execVars
  <2>2. CASE FlushQueue(c)
    <3>1. execState = "RUNNING"
      BY <2>2 DEF QuietInv, CallerInv, FlushQueue
    <3>2. QED
      BY <2>2, <3>1, QuietRunning DEF FlushQueue, execVars
  <2>3. CASE StartCommit(c)
    BY <2>3, QuietRunning DEF StartCommit
  <2>4. CASE StopPool(c) \/ StopDrained(c)
    <3>1. cmsg[c] \in {"Stop", "Reset"} /\ cmsg' = cmsg
      BY <2>4 DEF QuietInv, CallerInv, StopPool, StopDrained, clientVars
    <3>2. QED
      BY <2>4, <3>1, QuietTeardown DEF StopPool, StopDrained, execVars
  <2>5. QED
    BY <1>2, <2>1, <2>2, <2>3, <2>4, QuietSend, QuietAnswered, QuietClear DEF ClientStep
<1>3. ASSUME NEW t \in Thread, ThreadStep(t) PROVE QuietInv'
  <2>1. CASE FinishPending(t)
    BY <2>1, QuietOutput
       DEF FinishPending, ErasePending, notCodecVars, execVars, localVars, clientVars
  <2>2. CASE FinishOther(t)
    BY <2>2, QuietOutput DEF FinishOther, notCodecVars, execVars, localVars, clientVars
  <2>3. CASE Deliver(t)
    BY <2>3, QuietOutput DEF Deliver, notCodecVars, execVars, localVars, clientVars
  <2>4. QED BY <1>3, <2>1, <2>2, <2>3 DEF ThreadStep
<1>4. CASE LooperStep
  <2>1. CASE HandleUnset
    <3>1. codec = {}
      BY <2>1 DEF QuietInv, CallerInv, HandleUnset
    <3>2. QED
      BY <2>1, <3>1, QuietReceive
         DEF HandleUnset, Receive, execVars, queueVars, localVars, clientVars
  <2>2. CASE HandleInit
    <3>1. Head(msgs).what \in AwaitKind
      BY <2>2 DEF HandleInit, Receive, AwaitKind
    <3>2. QED
      BY <2>2, <3>1, QuietReceive
         DEF HandleInit, Receive, execVars, queueVars, localVars, clientVars
  <2>3. CASE HandleStart \/ ProcessIgnored
    <3>1. Head(msgs).what \notin AwaitKind
      BY <2>3 DEF HandleStart, ProcessIgnored, Receive, AwaitKind
    <3>2. QED
      BY <2>3, <3>1, QuietReceive
         DEF HandleStart, ProcessIgnored, Receive, execVars, queueVars, localVars, clientVars,
             AwaitKind
  <2>4. CASE HandleStop
    <3>1. Head(msgs).what \in AwaitKind
      BY <2>4 DEF HandleStop, Receive, AwaitKind
    <3>2. QED
      BY <2>4, <3>1, QuietReceive
         DEF HandleStop, StopCodec, Receive, execVars, queueVars, localVars, clientVars
  <2>5. CASE OnFlush
    BY <2>5, QuietInside DEF OnFlush, At, execVars, queueVars, localVars, clientVars
  <2>6. CASE FetchPool
    BY <2>6, QuietInside DEF FetchPool, At, execVars, queueVars, localVars, clientVars
  <2>7. CASE Feed
    BY <2>7, QuietInside DEF Feed, At, execVars, queueVars, localVars, clientVars
  <2>8. CASE CodecReturns
    BY <2>8, QuietInside DEF CodecReturns, At, execVars, queueVars, localVars, clientVars
  <2>9. CASE ReturnWork
    BY <2>9, QuietInside DEF ReturnWork, LastSection, At, execVars, localVars, clientVars
  <2>10. CASE KeepPending
    <3>1. work # Null
      BY <2>10 DEF TypeInv, PhaseOK, KeepPending, LastSection, At
    <3>2. QED
      BY <2>10, <3>1, QuietInside DEF KeepPending, LastSection, At, execVars, localVars, clientVars
  <2>11. QED
    BY <1>4, <2>1, <2>2, <2>3, <2>4, <2>5, <2>6, <2>7, <2>8, <2>9, <2>10, QuietPop, QuietEnd
       DEF LooperStep
<1>5. CASE UNCHANGED vars
  BY <1>5, QuietOutput DEF vars, execVars, queueVars, localVars, clientVars
<1>6. QED
  BY <1>1, <1>2, <1>3, <1>4, <1>5 DEF Next, Done, Thread

\* the beginning
LEMMA QuietInit == Init => QuietInv
<1> SUFFICES ASSUME Init PROVE QuietInv
  OBVIOUS
<1>1. /\ execState = "UNINITIALIZED" /\ mQueue = <<>> /\ mPendingWork = {}
      /\ msgs = <<>> /\ work = Null /\ codec = {} /\ pc[Looper] = "wait"
      /\ \A c \in Client : pc[c] = "idle"
  BY ComponentAssumption DEF Init, ComponentAssumption, Thread
<1>2. DOMAIN msgs = {} /\ Len(msgs) = 0
  BY <1>1
<1>3. QED
  BY <1>1, <1>2 DEF QuietInv, CallerInv, AwaitedInv, ClearedInv, SettledInv

\* stop() and reset(), called by the one client of the component, return when
\* the looper is idle, the queue and the codec are empty, and at most one
\* kWhatProcess and one pending work are left (C2RKComponent::stop, reset).
THEOREM StoppedIsQuietHolds ==
    ASSUME OneCaller
    PROVE  Spec => []StoppedIsQuiet
<1>1. Init => QuietInv
  BY QuietInit
<1>2. InductiveInv /\ QuietInv /\ [Next]_vars => QuietInv'
  BY QuietStep DEF InductiveInv
<1>3. QuietInv => StoppedIsQuiet
  <2> SUFFICES ASSUME QuietInv, execState # "RUNNING", \A c \in Client : pc[c] = "idle"
               PROVE  /\ pc[Looper] = "wait" /\ mQueue = <<>> /\ codec = {}
                      /\ Len(msgs) <= 1 /\ \A i \in DOMAIN msgs : msgs[i].what = "Process"
                      /\ \A v, w \in mPendingWork : v = w
    BY DEF StoppedIsQuiet
  <2>1. IsCleared /\ Settled
    BY DEF IsCleared, Settled, WaitsForStop
  <2>2. QED
    BY <2>1 DEF QuietInv, ClearedInv, SettledInv
<1>4. QED
  BY <1>1, <1>2, <1>3, InductiveInvHolds, PTL DEF Spec

-----------------------------------------------------------------------------
(* One caller: wakeups across reset() and release().                        *)

\* before the first setListener_vb the component only refuses what it is sent
LEMMA UnsetStep ==
    ASSUME TypeInv, QuietInv, UnsetInv, [Next]_vars
    PROVE  UnsetInv'
<1> DEFINE Unset(c) == /\ reply[c] # "OK" /\ pc[c] \notin {"push", "mark", "commit"}
                       /\ pc[c] = "send" => cmsg[c] \notin {"Start", "Process"}
           Goal == /\ execState' = "UNINITIALIZED" /\ mQueue' = <<>> /\ ~mRunning'
                   /\ \A c \in Client : Unset(c)'
<1> SUFFICES ASSUME ~mThiz' PROVE Goal
  BY DEF UnsetInv
<1>1. /\ pc \in [Thread -> ClientPC \cup LooperPC] /\ Client \subseteq Thread
      /\ cmsg \in [Client -> MsgKind] /\ reply \in [Client -> {"none", "OK", "CORRUPTED"}]
      /\ Looper \notin Client /\ Looper \in Thread
  BY ComponentAssumption
     DEF ComponentAssumption, TypeInv, TypeOK, ThreadTypeOK, ClientTypeOK, HandlerTypeOK, Thread
<1>2. ~mThiz => /\ execState = "UNINITIALIZED" /\ mQueue = <<>> /\ ~mRunning
                /\ pc[Looper] = "wait" /\ \A c \in Client : Unset(c)
  BY DEF UnsetInv, QuietInv, CallerInv
<1>3. ASSUME NEW c \in Client, ClientCall(c) PROVE Goal
  <2>1. CASE SetListener(c) \/ ClearListener(c)
    BY <2>1 DEF SetListener, ClearListener
  <2>2. CASE QueueCall(c) \/ FlushCall(c) \/ DrainCall(c)
    BY <2>2, <1>1, <1>2
       DEF QueueCall, FlushCall, DrainCall, IfRunning, Call, Goto, execVars, queueVars,
           handlerVars
  <2>3. CASE StartCall(c)
    BY <2>3, <1>1, <1>2
       DEF StartCall, NeedsInit, Call, Goto, execVars, queueVars, handlerVars
  <2>4. CASE StopCall(c)
    BY <2>4, <1>1, <1>2 DEF StopCall, Call, Goto, queueVars, handlerVars
  <2>5. CASE ResetCall(c)
    BY <2>5, <1>1, <1>2 DEF ResetCall, Call, Goto, queueVars, handlerVars
  <2>6. CASE ReleaseCall(c)
    BY <2>6, <1>1, <1>2 DEF ReleaseCall, Call, Goto, execVars, queueVars, handlerVars
  <2>7. QED
    BY <1>3, <2>1, <2>2, <2>3, <2>4, <2>5, <2>6 DEF ClientCall
<1>4. ASSUME NEW c \in Client, ClientStep(c) PROVE Goal
  <2>1. CASE Push(c) \/ MarkDrain(c) \/ StartCommit(c)
    BY <2>1, <1>2 DEF Push, MarkDrain, StartCommit, Enqueue, execVars
  <2>2. CASE FlushQueue(c)
    BY <2>2, <1>1, <1>2 DEF FlushQueue, TakeAll, Goto, execVars, handlerVars, clientVars
  <2>3. CASE StopClear(c)
    <3>1. /\ pc[c] = "clear" /\ pc' = [pc EXCEPT ![c] = "send"] /\ mQueue' = <<>>
          /\ UNCHANGED <<execState, mThiz, mRunning, reply, cmsg>>
      BY <2>3 DEF StopClear, TakeAll, Goto, execVars, handlerVars, clientVars
    <3>2. cmsg[c] \in {"Stop", "Reset"}
      BY <3>1 DEF QuietInv, CallerInv
    <3>3. QED
      BY <3>1, <3>2, <1>1, <1>2
  <2>4. CASE Send(c)
    BY <2>4, <1>1, <1>2 DEF Send, Goto, execVars, queueVars, handlerVars, clientVars
  <2>5. CASE Answered(c) \/ StopPool(c) \/ StopDrained(c)
    BY <2>5, <1>1, <1>2
       DEF Answered, StopPool, StopDrained, Goto, execVars, queueVars, handlerVars, clientVars
  <2>6. QED
    BY <1>4, <2>1, <2>2, <2>3, <2>4, <2>5 DEF ClientStep
<1>5. ASSUME NEW t \in Thread, ThreadStep(t) PROVE Goal
  BY <1>5, <1>2
     DEF ThreadStep, FinishPending, FinishOther, Deliver, notCodecVars, execVars, handlerVars,
         clientVars
<1>6. CASE LooperStep
  <2>1. CASE HandleUnset
    BY <2>1, <1>1, <1>2
       DEF HandleUnset, Reply, execVars, queueVars, handlerVars, clientVars
  <2>2. CASE HandleInit \/ HandleStart \/ HandleStop \/ ProcessIgnored \/ PopFront
    <3>1. mThiz /\ mThiz' = mThiz
      BY <2>2 DEF HandleInit, HandleStart, HandleStop, ProcessIgnored, PopFront, execVars
    <3>2. QED
      BY <3>1
  <2>3. CASE OnFlush \/ FetchPool \/ Feed \/ CodecReturns
    BY <2>3, <1>2 DEF OnFlush, FetchPool, Feed, CodecReturns, At, execVars
  <2>4. CASE ReturnWork \/ KeepPending \/ EndProcess
    BY <2>4, <1>2 DEF ReturnWork, KeepPending, LastSection, EndProcess, At, execVars
  <2>5. QED
    BY <1>6, <2>1, <2>2, <2>3, <2>4 DEF LooperStep
<1>7. CASE UNCHANGED vars
  BY <1>7, <1>2 DEF vars, execVars, queueVars, handlerVars, clientVars
<1>8. QED
  BY <1>3, <1>4, <1>5, <1>6, <1>7 DEF Next, Done, Thread

\* a call that begins or goes on, but not by start() or into the looper's queue
LEMMA StartsKept ==
    ASSUME TypeInv, OneCaller, StartsInv, NEW c \in Client, NEW p, Goto(c, p),
           \/ p \notin {"send", "await"}
           \/ cmsg'[c] \notin {"Init", "Start"} \/ execState' # "RUNNING"
    PROVE  StartsInv'
<1>1. \A d \in Client : d = c /\ pc'[d] = p
  BY OnlyGoto
<1>2. QED
  BY <1>1 DEF StartsInv

\* start() sends kWhatInit or kWhatStart of a component that is not running
LEMMA StartsStep ==
    ASSUME TypeInv, OneCaller, QuietInv, StartsInv, [Next]_vars
    PROVE  StartsInv'
<1>1. cmsg \in [Client -> MsgKind]
  BY DEF TypeInv, TypeOK, ClientTypeOK
<1>2. ASSUME NEW c \in Client, ClientCall(c) PROVE StartsInv'
  <2>1. CASE SetListener(c) \/ ClearListener(c)
    BY <2>1, StartsKept DEF SetListener, ClearListener, Call
  <2>2. CASE QueueCall(c) \/ FlushCall(c) \/ DrainCall(c)
    BY <2>2, StartsKept DEF QueueCall, FlushCall, DrainCall, IfRunning, Call
  <2>3. CASE StartCall(c)
    BY <2>3, StartsKept DEF StartCall, Call, execVars
  <2>4. CASE StopCall(c) \/ ResetCall(c)
    BY <2>4, StartsKept DEF StopCall, ResetCall, Call
  <2>5. CASE ReleaseCall(c)
    BY <2>5, <1>1, StartsKept DEF ReleaseCall, Call
  <2>6. QED
    BY <1>2, <2>1, <2>2, <2>3, <2>4, <2>5 DEF ClientCall
<1>3. ASSUME NEW c \in Client, ClientStep(c) PROVE StartsInv'
  <2>1. CASE Push(c) \/ MarkDrain(c)
    BY <2>1, <1>1, StartsKept DEF Push, MarkDrain, Enqueue
  <2>2. CASE Send(c)
    <3>1. /\ pc[c] = "send" /\ UNCHANGED <<execState, cmsg>>
          /\ \E p : Goto(c, p)
      BY <2>2 DEF Send, execVars, clientVars
    <3>2. QED
      BY <3>1, StartsKept DEF StartsInv
  <2>3. CASE StopClear(c)
    <3>1. pc[c] = "clear" /\ Goto(c, "send") /\ cmsg' = cmsg
      BY <2>3 DEF StopClear, clientVars
    <3>2. cmsg[c] \in {"Stop", "Reset"}
      BY <3>1 DEF QuietInv, CallerInv
    <3>3. QED
      BY <3>1, <3>2, StartsKept
  <2>4. CASE FlushQueue(c) \/ Answered(c) \/ StartCommit(c) \/ StopPool(c) \/ StopDrained(c)
    BY <2>4, StartsKept DEF FlushQueue, Answered, StartCommit, StopPool, StopDrained
  <2>5. QED
    BY <1>3, <2>1, <2>2, <2>3, <2>4 DEF ClientStep
<1>4. ASSUME \A c \in Client : pc'[c] = pc[c], UNCHANGED <<execState, cmsg>>
      PROVE  StartsInv'
  BY <1>4 DEF StartsInv
<1>5. ASSUME NEW t \in Thread, ThreadStep(t) PROVE StartsInv'
  BY <1>4, <1>5
     DEF ThreadStep, FinishPending, FinishOther, Deliver, notCodecVars, execVars, clientVars
<1>6. CASE LooperStep
  <2>1. CASE HandleUnset \/ HandleInit \/ HandleStart \/ HandleStop \/ ProcessIgnored
    BY <1>4, <2>1
       DEF HandleUnset, HandleInit, HandleStart, HandleStop, ProcessIgnored, execVars, clientVars
  <2>2. CASE PopFront \/ OnFlush \/ FetchPool \/ Feed
    BY <1>4, <2>2, LooperGoto DEF PopFront, OnFlush, FetchPool, Feed, execVars, clientVars
  <2>3. CASE CodecReturns \/ ReturnWork \/ KeepPending \/ EndProcess
    BY <1>4, <2>3, LooperGoto
       DEF CodecReturns, ReturnWork, KeepPending, LastSection, EndProcess, execVars, clientVars
  <2>4. QED
    BY <1>6, <2>1, <2>2, <2>3 DEF LooperStep
<1>7. CASE UNCHANGED vars
  BY <1>4, <1>7 DEF vars, execVars, clientVars
<1>8. QED
  BY <1>2, <1>3, <1>5, <1>6, <1>7 DEF Next, Done, Thread

\* What a step must show of the messages and the queue.
WakeGoal == StartedInv' /\ NoLostWakeup'

\* a queue that is empty needs no wakeup
LEMMA WakeEmpty == mQueue' = <<>> => WakeGoal
BY DEF WakeGoal, StartedInv, NoLostWakeup

\* a step that sends and takes no message and puts nothing in the queue
LEMMA WakeKeep ==
    ASSUME WakeInv, UNCHANGED <<mQueue, msgs, mRunning, hasQueuedWork>>,
           PostsProcess => PostsProcess'
    PROVE  WakeGoal
<1>1. ProcessOnItsWay => ProcessOnItsWay'
  BY DEF ProcessOnItsWay, PostsProcess
<1>2. \A i \in DOMAIN msgs : BehindStart(i) => BehindStart(i)'
  BY DEF BehindStart
<1>3. QED
  BY <1>1, <1>2 DEF WakeGoal, WakeInv, StartedInv, NoLostWakeup

\* queue_nb and drain_nb: who finds the queue empty posts kWhatProcess
LEMMA WakeEnqueue ==
    ASSUME TypeInv, OneCaller, QuietInv, WakeInv, NEW c \in Client,
           pc[c] \in {"push", "mark"}, NEW entries, Enqueue(c, entries)
    PROVE  WakeGoal
<1>1. /\ cmsg' = [cmsg EXCEPT ![c] = "Process"] /\ cmsg \in [Client -> MsgKind]
      /\ Goto(c, IF mQueue = <<>> THEN "send" ELSE "idle")
      /\ UNCHANGED <<msgs, mRunning, hasQueuedWork>>
  BY DEF Enqueue, QueueWasEmpty, handlerVars, localVars, TypeInv, TypeOK, ClientTypeOK
<1>2. \A d \in Client : d = c
  BY DEF OneCaller
<1>3. CASE mQueue = <<>>
  <2>1. PostsProcess'
    BY <1>1, <1>3, OnlyGoto DEF PostsProcess
  <2>2. QED
    BY <2>1 DEF WakeGoal, StartedInv, NoLostWakeup, BehindStart, ProcessOnItsWay, PostsProcess
<1>4. CASE mQueue # <<>>
  <2>1. ~PostsProcess
    BY <1>2 DEF PostsProcess
  <2>2. \A i \in DOMAIN msgs : BehindStart(i) => BehindStart(i)'
    BY <1>1, <2>1 DEF BehindStart
  <2>3. ProcessOnItsWay => ProcessOnItsWay'
    BY <1>1, <2>1 DEF ProcessOnItsWay, PostsProcess
  <2>4. QED
    BY <1>1, <1>4, <2>2, <2>3 DEF WakeGoal, WakeInv, StartedInv, NoLostWakeup
<1>5. QED
  BY <1>3, <1>4

\* a message behind all the others
LEMMA WakeAppend ==
    ASSUME TypeInv, WakeInv, NEW m \in [what : MsgKind, replyTo : Thread],
           msgs' = Append(msgs, m), UNCHANGED <<mQueue, mRunning>>,
           m.what = "Start" => mQueue = <<>>,
           m.what = "Process" \/ ~PostsProcess,
           m.what = "Process" \/ hasQueuedWork' = hasQueuedWork
    PROVE  WakeGoal
<1> DEFINE M == [what : MsgKind, replyTo : Thread]
<1>1. msgs \in Seq(M) /\ m \in M
  BY DEF TypeInv, TypeOK, HandlerTypeOK
<1> HIDE DEF M
<1>2. /\ DOMAIN msgs' = 1 .. Len(msgs) + 1 /\ DOMAIN msgs = 1 .. Len(msgs)
      /\ Len(msgs) \in Nat /\ msgs'[Len(msgs) + 1] = m
      /\ \A i \in DOMAIN msgs : i \in DOMAIN msgs' /\ msgs'[i] = msgs[i]
  BY <1>1
<1>3. CASE m.what = "Process"
  <2>1. \A i \in DOMAIN msgs' : msgs'[i].what = "Start" =>
           Len(msgs) + 1 > i /\ Len(msgs) + 1 \in DOMAIN msgs'
    BY <1>2, <1>3
  <2>2. StartedInv'
    BY <1>2, <1>3, <2>1 DEF StartedInv, BehindStart
  <2>3. ProcessOnItsWay'
    BY <1>2, <1>3 DEF ProcessOnItsWay
  <2>4. QED
    BY <2>2, <2>3 DEF WakeGoal, NoLostWakeup
<1>4. CASE m.what # "Process" /\ mQueue # <<>>
  <2>1. \A i \in DOMAIN msgs' : msgs'[i].what = "Start" => i \in DOMAIN msgs
    BY <1>2, <1>4
  <2>2. \A i \in DOMAIN msgs : BehindStart(i) => BehindStart(i)'
    BY <1>2, <1>4 DEF BehindStart
  <2>3. StartedInv'
    BY <1>2, <1>4, <2>1, <2>2 DEF WakeInv, StartedInv
  <2>4. ProcessOnItsWay => ProcessOnItsWay'
    BY <1>2, <1>4 DEF ProcessOnItsWay, PostsProcess
  <2>5. QED
    BY <2>3, <2>4 DEF WakeGoal, WakeInv, NoLostWakeup
<1>5. QED
  BY <1>3, <1>4, WakeEmpty

\* a message that is not kWhatProcess, or that the handler does not look at
LEMMA WakeTail ==
    ASSUME TypeInv, WakeInv, msgs # <<>>, msgs' = Tail(msgs),
           Head(msgs).what = "Process" => ~mRunning,
           UNCHANGED <<mQueue, hasQueuedWork, pc, cmsg>>,
           mRunning' => mRunning \/ Head(msgs).what = "Start"
    PROVE  WakeGoal
<1> DEFINE M == [what : MsgKind, replyTo : Thread]
<1>1. msgs \in Seq(M)
  BY DEF TypeInv, TypeOK, HandlerTypeOK
<1> HIDE DEF M
<1>2. /\ 1 \in DOMAIN msgs /\ Head(msgs) = msgs[1]
      /\ \A i \in DOMAIN msgs' : i \in Nat /\ i + 1 \in DOMAIN msgs /\ msgs'[i] = msgs[i + 1]
      /\ \A i \in DOMAIN msgs : i > 1 => i - 1 \in DOMAIN msgs' /\ msgs'[i - 1] = msgs[i]
  BY <1>1
<1>3. PostsProcess' <=> PostsProcess
  BY DEF PostsProcess
<1>4. \A i \in DOMAIN msgs : i \in Nat
  BY <1>1
<1>5. \A i \in DOMAIN msgs' : BehindStart(i + 1) => BehindStart(i)'
  <2> SUFFICES ASSUME NEW i \in DOMAIN msgs', BehindStart(i + 1) PROVE BehindStart(i)'
    OBVIOUS
  <2>1. CASE hasQueuedWork \/ PostsProcess
    BY <1>3, <2>1 DEF BehindStart
  <2>2. CASE \E j \in DOMAIN msgs : j > i + 1 /\ msgs[j].what = "Process"
    <3>1. PICK j \in DOMAIN msgs : j > i + 1 /\ msgs[j].what = "Process"
      BY <2>2
    <3>2. i \in Nat /\ j \in Nat /\ j > 1 /\ j - 1 > i
      BY <1>2, <1>4, <3>1
    <3>3. j - 1 \in DOMAIN msgs' /\ msgs'[j - 1].what = "Process"
      BY <1>2, <3>1, <3>2
    <3>4. QED
      BY <3>2, <3>3 DEF BehindStart
  <2>3. QED
    BY <2>1, <2>2 DEF BehindStart
<1>6. StartedInv'
  BY <1>2, <1>5 DEF WakeInv, StartedInv
<1>7. ASSUME mRunning', mQueue # <<>> PROVE ProcessOnItsWay'
  <2>1. CASE Head(msgs).what = "Start"
    <3>1. BehindStart(1)
      BY <1>2, <1>7, <2>1 DEF WakeInv, StartedInv
    <3>2. CASE \E j \in DOMAIN msgs : j > 1 /\ msgs[j].what = "Process"
      BY <1>2, <3>2 DEF ProcessOnItsWay
    <3>3. CASE hasQueuedWork \/ PostsProcess
      BY <3>3 DEF ProcessOnItsWay, PostsProcess
    <3>4. QED
      BY <3>1, <3>2, <3>3 DEF BehindStart
  <2>2. CASE Head(msgs).what # "Start"
    <3>1. mRunning /\ Head(msgs).what # "Process" /\ ProcessOnItsWay
      BY <1>7, <2>2 DEF WakeInv, NoLostWakeup
    <3>2. QED
      BY <3>1, TailMessages DEF ProcessOnItsWay
  <2>3. QED
    BY <2>1, <2>2
<1>8. QED
  BY <1>6, <1>7 DEF WakeGoal, NoLostWakeup

\* what the looper sees of kWhatInit: the client waits, its queue cleared
LEMMA WakeInit ==
    ASSUME TypeInv, QuietInv, WakeInv, HandleInit
    PROVE  mQueue' = <<>>
<1> DEFINE M == [what : MsgKind, replyTo : Thread]
<1>1. /\ msgs # <<>> /\ Head(msgs).what = "Init" /\ mQueue' = mQueue
  BY DEF HandleInit, Receive, queueVars
<1>2. msgs \in Seq(M)
  BY DEF TypeInv, TypeOK, HandlerTypeOK
<1> HIDE DEF M
<1>3. 1 \in DOMAIN msgs /\ msgs[1].what = "Init" /\ "Init" \in AwaitKind
  BY <1>1, <1>2 DEF AwaitKind
<1>4. PICK c \in Client : TRUE
  BY <1>3 DEF TypeInv, TypeOK, HandlerTypeOK
<1>5. \A d \in Client : pc[d] = "await" /\ cmsg[d] = "Init"
  BY <1>3 DEF QuietInv, AwaitedInv, IsAwaited
<1>6. IsCleared
  BY <1>4, <1>5 DEF IsCleared, WakeInv, StartsInv
<1>7. QED
  BY <1>1, <1>6 DEF QuietInv, ClearedInv

\* every step shows it
LEMMA WakeStep ==
    ASSUME TypeInv, OneCaller, QuietInv, WakeInv, [Next]_vars
    PROVE  WakeGoal
<1>1. ASSUME NEW c \in Client, pc[c] # "send" PROVE ~PostsProcess
  BY <1>1 DEF OneCaller, PostsProcess
<1>2. ASSUME NEW c \in Client, ClientCall(c) PROVE WakeGoal
  <2>1. ~PostsProcess
    BY <1>1, <1>2 DEF ClientCall, SetListener, ClearListener, QueueCall, FlushCall, DrainCall,
       IfRunning, StartCall, StopCall, ResetCall, ReleaseCall, Call
  <2>2. UNCHANGED <<mQueue, msgs, mRunning, hasQueuedWork>>
    BY <1>2 DEF ClientCall, SetListener, ClearListener, QueueCall, FlushCall, DrainCall,
       IfRunning, StartCall, StopCall, ResetCall, ReleaseCall, queueVars, handlerVars, localVars
  <2>3. QED
    BY <2>1, <2>2, WakeKeep
<1>3. ASSUME NEW c \in Client, ClientStep(c) PROVE WakeGoal
  <2>1. CASE Push(c)
    BY <2>1, WakeEnqueue DEF Push
  <2>2. CASE MarkDrain(c)
    BY <2>2, WakeEnqueue DEF MarkDrain
  <2>3. CASE FlushQueue(c) \/ StopClear(c)
    BY <2>3, WakeEmpty DEF FlushQueue, StopClear, TakeAll
  <2>4. CASE Send(c)
    <3> DEFINE m == Message(cmsg[c], c)
    <3>1. /\ pc[c] = "send" /\ msgs' = Append(msgs, m) /\ m.what = cmsg[c]
          /\ UNCHANGED <<mQueue, mRunning, hasQueuedWork>>
      BY <2>4 DEF Send, Message, queueVars, handlerVars, localVars
    <3>2. m \in [what : MsgKind, replyTo : Thread]
      BY DEF Message, Thread, TypeInv, TypeOK, ClientTypeOK
    <3> HIDE DEF m
    <3>3. m.what = "Start" => mQueue = <<>>
      <4>1. m.what = "Start" => IsCleared
        BY <3>1 DEF WakeInv, StartsInv, IsCleared, OneCaller
      <4>2. QED
        BY <4>1 DEF QuietInv, ClearedInv
    <3>4. m.what = "Process" \/ ~PostsProcess
      BY <3>1 DEF PostsProcess, OneCaller
    <3>5. QED
      BY <3>1, <3>2, <3>3, <3>4, WakeAppend
  <2>5. CASE Answered(c) \/ StartCommit(c) \/ StopPool(c) \/ StopDrained(c)
    <3>1. ~PostsProcess
      BY <1>1, <2>5 DEF Answered, StartCommit, StopPool, StopDrained
    <3>2. QED
      BY <2>5, <3>1, WakeKeep
         DEF Answered, StartCommit, StopPool, StopDrained, queueVars, handlerVars, localVars
  <2>6. QED
    BY <1>3, <2>1, <2>2, <2>3, <2>4, <2>5 DEF ClientStep
<1>4. ASSUME UNCHANGED <<mQueue, msgs, mRunning, hasQueuedWork, cmsg>>,
             \A c \in Client : pc'[c] = pc[c]
      PROVE  WakeGoal
  BY <1>4, WakeKeep DEF PostsProcess
<1>5. ASSUME NEW t \in Thread, ThreadStep(t) PROVE WakeGoal
  BY <1>4, <1>5
     DEF ThreadStep, FinishPending, FinishOther, Deliver, notCodecVars, handlerVars, localVars,
         clientVars
<1>6. CASE LooperStep
  <2>1. CASE HandleUnset
    <3>1. ~mRunning
      BY <2>1 DEF HandleUnset, WakeInv, UnsetInv
    <3>2. QED
      BY <2>1, <3>1, WakeTail
         DEF HandleUnset, Receive, queueVars, handlerVars, localVars, clientVars
  <2>2. CASE HandleInit
    BY <2>2, WakeInit, WakeEmpty
  <2>3. CASE HandleStart
    BY <2>3, WakeTail DEF HandleStart, Receive, queueVars, localVars, clientVars
  <2>4. CASE HandleStop
    <3>1. mRunning' => mRunning
      BY <2>4 DEF HandleStop
    <3>2. QED
      BY <2>4, <3>1, WakeTail DEF HandleStop, Receive, queueVars, localVars, clientVars
  <2>5. CASE ProcessIgnored
    <3>1. CASE ~mRunning
      BY <2>5, <3>1, WakeTail
         DEF ProcessIgnored, Receive, queueVars, handlerVars, localVars, clientVars
    <3>2. CASE mQueue = <<>>
      BY <2>5, <3>2, WakeEmpty DEF ProcessIgnored, queueVars
    <3>3. QED
      BY <2>5, <3>1, <3>2 DEF ProcessIgnored
  <2>6. CASE PopFront
    <3>1. mQueue' # <<>> => hasQueuedWork'
      BY <2>6 DEF PopFront, StillQueued
    <3>2. QED
      BY <3>1 DEF WakeGoal, StartedInv, BehindStart, NoLostWakeup, ProcessOnItsWay
  <2>7. CASE OnFlush \/ FetchPool \/ Feed
    BY <1>4, <2>7, LooperGoto
       DEF OnFlush, FetchPool, Feed, queueVars, handlerVars, localVars, clientVars
  <2>8. CASE CodecReturns \/ ReturnWork \/ KeepPending
    BY <1>4, <2>8, LooperGoto
       DEF CodecReturns, ReturnWork, KeepPending, LastSection, queueVars, handlerVars, localVars,
           clientVars
  <2>9. CASE EndProcess
    <3> DEFINE m == Message("Process", Looper)
    <3>1. /\ msgs' = IF hasQueuedWork THEN Append(msgs, m) ELSE msgs
          /\ hasQueuedWork' = FALSE /\ UNCHANGED <<mQueue, mRunning, cmsg>>
          /\ \A c \in Client : pc'[c] = pc[c]
      BY <2>9, LooperGoto DEF EndProcess, queueVars, handlerVars, clientVars
    <3>2. m \in [what : MsgKind, replyTo : Thread] /\ m.what = "Process"
      BY DEF Message, Thread, MsgKind, AwaitKind
    <3> HIDE DEF m
    <3>3. CASE hasQueuedWork
      BY <3>1, <3>2, <3>3, WakeAppend
    <3>4. CASE ~hasQueuedWork
      <4>1. hasQueuedWork' = hasQueuedWork
        BY <3>1, <3>4 DEF TypeInv, TypeOK, LocalTypeOK
      <4>2. QED
        BY <1>4, <3>1, <3>4, <4>1
    <3>5. QED
      BY <3>3, <3>4
  <2>10. QED
    BY <1>6, <2>1, <2>2, <2>3, <2>4, <2>5, <2>6, <2>7, <2>8, <2>9 DEF LooperStep
<1>7. CASE UNCHANGED vars
  BY <1>4, <1>7 DEF vars, queueVars, handlerVars, localVars, clientVars
<1>8. QED
  BY <1>2, <1>3, <1>5, <1>6, <1>7 DEF Next, Done, Thread

\* If no client calls reset() or release(), or one client makes all the calls, a
\* handler with a non-empty queue has a kWhatProcess on its way, however
\* queue_nb, drain_nb, flush_sm, start, stop, reset and release interleave with
\* the looper.
THEOREM NoLostWakeupHolds ==
    ASSUME NoTeardown \/ OneCaller
    PROVE  Spec => []NoLostWakeup
<1>1. CASE NoTeardown
  <2>1. InductiveInv => NoLostWakeup
    BY <1>1 DEF InductiveInv, HandlerInv, NoLostWakeup
  <2>2. QED
    BY <2>1, InductiveInvHolds, PTL
<1>2. CASE OneCaller
  <2>1. Init => QuietInv /\ WakeInv
    <3> SUFFICES ASSUME Init PROVE WakeInv
      BY QuietInit
    <3>1. /\ execState = "UNINITIALIZED" /\ mQueue = <<>> /\ ~mRunning
          /\ \A c \in Client : pc[c] = "idle" /\ reply[c] = "none"
      BY ComponentAssumption DEF Init, ComponentAssumption, Thread
    <3>2. QED
      BY <3>1 DEF WakeInv, UnsetInv, StartsInv, StartedInv, NoLostWakeup
  <2>2. InductiveInv /\ QuietInv /\ WakeInv /\ [Next]_vars => QuietInv' /\ WakeInv'
    BY <1>2, QuietStep, UnsetStep, StartsStep, WakeStep DEF InductiveInv, WakeInv, WakeGoal
  <2>3. WakeInv => NoLostWakeup
    BY DEF WakeInv
  <2>4. QED
    BY <2>1, <2>2, <2>3, InductiveInvHolds, PTL DEF Spec
<1>3. QED
  BY <1>1, <1>2

-----------------------------------------------------------------------------
(* One caller: the listener and the initialisation.                         *)

\* what is in a thread's hand when it moves
LEMMA HandStep ==
    ASSUME TypeInv, HandInv, [Next]_vars
    PROVE  HandInv'
<1>1. /\ pc \in [Thread -> ClientPC \cup LooperPC] /\ hand \in [Thread -> Work \cup {Null, Fresh}]
      /\ Client \subseteq Thread /\ Looper \in Thread /\ Looper \notin Client
  BY ComponentAssumption DEF ComponentAssumption, TypeInv, TypeOK, ThreadTypeOK, Thread
<1>2. \A c \in Client : pc[c] \in ClientPC /\ pc[c] # "process"
  BY DEF TypeInv, TypeOK, ThreadTypeOK, ClientPC
<1>3. ASSUME NEW c \in Client, NEW p, Goto(c, p), pc[c] # "drain" \/ hand[c] = Null,
             hand' = hand
      PROVE  HandInv'
  BY <1>1, <1>3 DEF HandInv, Goto
<1>4. ASSUME NEW c \in Client, ClientCall(c) PROVE HandInv'
  <2>1. hand' = hand
    BY <1>4 DEF ClientCall, SetListener, ClearListener, QueueCall, FlushCall, DrainCall,
       IfRunning, StartCall, StopCall, ResetCall, ReleaseCall
  <2>2. pc[c] = "idle" /\ \E p : Goto(c, p)
    BY <1>4 DEF ClientCall, SetListener, ClearListener, QueueCall, FlushCall, DrainCall,
       IfRunning, StartCall, StopCall, ResetCall, ReleaseCall, Call
  <2>3. QED
    BY <1>3, <2>1, <2>2
<1>5. ASSUME NEW c \in Client, ClientStep(c) PROVE HandInv'
  <2>1. hand' = hand
    BY <1>5 DEF ClientStep, Push, MarkDrain, Enqueue, FlushQueue, Send, Answered, StartCommit,
       StopPool, StopDrained, StopClear
  <2>2. pc[c] # "drain" \/ hand[c] = Null
    BY <1>5 DEF ClientStep, Push, MarkDrain, FlushQueue, Send, Answered, StartCommit, StopPool,
       StopDrained, StopClear
  <2>3. \E p : Goto(c, p)
    BY <1>5 DEF ClientStep, Push, MarkDrain, Enqueue, FlushQueue, Send, Answered, StartCommit,
       StopPool, StopDrained, StopClear
  <2>4. QED
    BY <1>3, <2>1, <2>2, <2>3
<1>6. ASSUME NEW t \in Thread, ThreadStep(t) PROVE HandInv'
  <2>1. pc' = pc
    BY <1>6 DEF ThreadStep, FinishPending, FinishOther, Deliver, notCodecVars
  <2>2. \A u \in Thread : u # t => hand'[u] = hand[u]
    BY <1>1, <1>6 DEF ThreadStep, FinishPending, FinishOther, Deliver
  <2>3. hand'[t] # Null => hand[t] # Null \/ pc[t] \in {"process", "drain"}
    BY <1>1, <1>6 DEF ThreadStep, FinishPending, FinishOther, Deliver
  <2>4. hand'[Looper] # Null => pc[Looper] # "wait"
    BY <1>1, <2>2, <2>3 DEF HandInv
  <2>5. \A c \in Client : hand'[c] # Null => pc[c] = "drain"
    BY <1>1, <1>2, <2>2, <2>3 DEF HandInv
  <2>6. QED
    BY <2>1, <2>4, <2>5 DEF HandInv
<1>7. CASE LooperStep
  <2>1. ASSUME NEW p, p # "wait", Goto(Looper, p), \A c \in Client : hand'[c] = hand[c]
        PROVE  HandInv'
    BY <1>1, <2>1 DEF HandInv, Goto
  <2>2. CASE HandleUnset \/ HandleInit \/ HandleStart \/ HandleStop \/ ProcessIgnored
    BY <2>2 DEF HandleUnset, HandleInit, HandleStart, HandleStop, ProcessIgnored, HandInv
  <2>3. CASE PopFront \/ OnFlush \/ Feed \/ CodecReturns
    BY <2>1, <2>3 DEF PopFront, OnFlush, Feed, CodecReturns
  <2>4. CASE FetchPool
    BY <2>1, <2>4 DEF FetchPool
  <2>5. CASE ReturnWork \/ KeepPending
    <3>1. \A c \in Client : hand'[c] = hand[c]
      BY <1>1, <2>5 DEF ReturnWork, KeepPending
    <3>2. QED
      BY <2>1, <2>5, <3>1 DEF ReturnWork, KeepPending, LastSection
  <2>6. CASE EndProcess
    <3>1. hand[Looper] = Null /\ hand' = hand /\ Goto(Looper, "wait")
      BY <2>6 DEF EndProcess, At
    <3>2. QED
      BY <1>1, <3>1 DEF HandInv, Goto
  <2>7. QED
    BY <1>7, <2>2, <2>3, <2>4, <2>5, <2>6 DEF LooperStep
<1>8. CASE UNCHANGED vars
  BY <1>8 DEF vars, HandInv
<1>9. QED
  BY <1>4, <1>5, <1>6, <1>7, <1>8 DEF Next, Done, Thread

\* If one client makes all the calls, and gives no null listener with
\* C2_MAY_BLOCK, setListener_vb takes the listener away only from a component in
\* which nothing is under way or queued (the TODO of setListener_vb).
THEOREM ListenerLeavesWhenQuietHolds ==
    ASSUME OneCaller, \A c \in Client : "clearListenerMayBlock" \notin Ops[c]
    PROVE  Spec => ListenerLeavesWhenQuiet
<1>1. Init => HandInv
  BY ComponentAssumption DEF Init, HandInv, ComponentAssumption, Thread
<1>2. InductiveInv /\ HandInv /\ [Next]_vars => HandInv'
  BY HandStep DEF InductiveInv
<1>3. InductiveInv /\ QuietInv /\ [Next]_vars => QuietInv'
  BY QuietStep DEF InductiveInv
<1>4. QuietInv /\ HandInv /\ [Next]_vars =>
        [mListener /\ ~mListener' => /\ pc[Looper] = "wait" /\ mQueue = <<>>
                                     /\ \A t \in Thread : hand[t] = Null]_vars
  <2> SUFFICES ASSUME QuietInv, HandInv, [Next]_vars, mListener, ~mListener'
               PROVE  pc[Looper] = "wait" /\ mQueue = <<>> /\ \A t \in Thread : hand[t] = Null
    OBVIOUS
  <2>1. \E c \in Client : ClearListener(c)
    <3>1. ASSUME NEW c \in Client, ClientCall(c) PROVE ClearListener(c)
      BY <3>1 DEF ClientCall, SetListener, QueueCall, FlushCall, DrainCall, IfRunning, StartCall,
         StopCall, ResetCall, ReleaseCall, execVars
    <3>2. ASSUME NEW c \in Client, ClientStep(c) PROVE FALSE
      BY <3>2 DEF ClientStep, Push, MarkDrain, Enqueue, FlushQueue, Send, Answered, StartCommit,
         StopPool, StopDrained, StopClear, execVars
    <3>3. ASSUME NEW t \in Thread, ThreadStep(t) PROVE FALSE
      BY <3>3 DEF ThreadStep, FinishPending, FinishOther, Deliver, notCodecVars, execVars
    <3>4. ~LooperStep
      BY DEF LooperStep, HandleUnset, HandleInit, HandleStart, HandleStop, ProcessIgnored,
         PopFront, OnFlush, FetchPool, Feed, CodecReturns, ReturnWork, KeepPending, LastSection,
         EndProcess, execVars
    <3>5. ~UNCHANGED vars
      BY DEF vars, execVars
    <3>6. QED
      BY <3>1, <3>2, <3>3, <3>4, <3>5 DEF Next, Done, Thread
  <2>2. PICK c \in Client : ClearListener(c)
    BY <2>1
  <2>3. PICK o \in {"clearListener", "clearListenerMayBlock"} :
           Call(c, o, "idle") /\ mListener' = (mListener /\ ~MayClear(o))
    BY <2>2 DEF ClearListener
  <2>4. o # "clearListenerMayBlock" /\ pc[c] = "idle"
    BY <2>3 DEF Call
  <2>5. execState # "RUNNING"
    BY <2>3, <2>4 DEF MayClear
  <2>6. \A d \in Client : pc[d] = "idle"
    BY <2>4 DEF OneCaller
  <2>7. IsCleared /\ Settled
    BY <2>5, <2>6 DEF IsCleared, Settled, WaitsForStop
  <2>8. pc[Looper] = "wait" /\ mQueue = <<>>
    BY <2>7 DEF QuietInv, ClearedInv, SettledInv
  <2>9. QED
    BY <2>6, <2>8 DEF HandInv, Thread
<1>5. QED
  BY <1>1, <1>2, <1>3, <1>4, QuietInit, InductiveInvHolds, PTL
     DEF Spec, ListenerLeavesWhenQuiet

\* a step of the client that does not begin a start() and leaves the component's
\* state alone, unless it begins a reset()
LEMMA OnceKept ==
    ASSUME TypeInv, OneCaller, OnceInv, NEW c \in Client, NEW p, Goto(c, p),
           p \in {"send", "await"} /\ cmsg'[c] = "Init" =>
               execState' = "UNINITIALIZED" /\ op'[c] = "start",
           execState' = execState \/ execState' # "UNINITIALIZED"
               \/ StillInitialised(c)',
           StillInitialised(c) => StillInitialised(c)' \/ execState' # "UNINITIALIZED",
           initialised' = initialised, mThiz => mThiz'
    PROVE  OnceInv'
<1>1. \A d \in Client : d = c /\ pc'[d] = p
  BY OnlyGoto
<1>2. InitSentInv'
  BY <1>1 DEF InitSentInv
<1>3. ASSUME initialised', execState' = "UNINITIALIZED"
      PROVE  \A d \in Client : StillInitialised(d)'
  <2>1. StillInitialised(c)'
    BY <1>3 DEF OnceInv
  <2>2. QED
    BY <1>1, <2>1
<1>4. QED
  BY <1>2, <1>3 DEF OnceInv

\* every step keeps OnceInv
LEMMA OnceStep ==
    ASSUME TypeInv, OneCaller, QuietInv, OnceInv, [Next]_vars
    PROVE  OnceInv'
<1>1. /\ pc \in [Thread -> ClientPC \cup LooperPC] /\ Client \subseteq Thread
      /\ cmsg \in [Client -> MsgKind] /\ reply \in [Client -> {"none", "OK", "CORRUPTED"}]
      /\ op \in [Client -> OpName \cup {"none"}]
  BY DEF TypeInv, TypeOK, ThreadTypeOK, ClientTypeOK, HandlerTypeOK, Thread
<1>2. ASSUME NEW c \in Client, ClientCall(c) PROVE OnceInv'
  <2>1. pc[c] = "idle" /\ \E p : Goto(c, p)
    BY <1>2 DEF ClientCall, SetListener, ClearListener, QueueCall, FlushCall, DrainCall,
       IfRunning, StartCall, StopCall, ResetCall, ReleaseCall, Call
  <2>2. initialised' = initialised /\ (mThiz => mThiz')
    BY <1>2 DEF ClientCall, SetListener, ClearListener, QueueCall, FlushCall, DrainCall,
       IfRunning, StartCall, StopCall, ResetCall, ReleaseCall, ledgerVars, execVars
  <2>3. ~StillInitialised(c)
    BY <2>1 DEF StillInitialised, HasAnswer, WaitsForStop
  <2>4. CASE SetListener(c) \/ ClearListener(c)
    BY <2>2, <2>3, <2>4, OnceKept DEF SetListener, ClearListener, Call
  <2>5. CASE QueueCall(c) \/ FlushCall(c) \/ DrainCall(c)
    BY <2>2, <2>3, <2>5, OnceKept DEF QueueCall, FlushCall, DrainCall, IfRunning, Call, execVars
  <2>6. CASE StartCall(c)
    <3>1. /\ cmsg'[c] = "Init" => execState = "UNINITIALIZED"
          /\ op'[c] = "start" /\ execState' = execState
      BY <1>1, <2>6 DEF StartCall, NeedsInit, Call, execVars
    <3>2. QED
      BY <2>2, <2>3, <2>6, <3>1, OnceKept DEF StartCall, Call
  <2>7. CASE StopCall(c)
    <3>1. cmsg'[c] = "Stop" /\ (execState' = execState \/ execState' # "UNINITIALIZED")
      BY <1>1, <2>7 DEF StopCall
    <3>2. QED
      BY <2>2, <2>3, <2>7, <3>1, OnceKept DEF StopCall, Call
  <2>8. CASE ResetCall(c)
    <3>1. cmsg'[c] = "Reset" /\ pc'[c] = "pool" /\ Goto(c, "pool")
      BY <1>1, <2>8 DEF ResetCall, Call, Goto
    <3>2. StillInitialised(c)'
      BY <3>1 DEF StillInitialised
    <3>3. QED
      BY <2>2, <3>1, <3>2, OnceKept
  <2>9. CASE ReleaseCall(c)
    <3>1. cmsg'[c] = "Release" /\ execState' = execState
      BY <1>1, <2>9 DEF ReleaseCall, execVars
    <3>2. QED
      BY <2>2, <2>3, <2>9, <3>1, OnceKept DEF ReleaseCall, Call
  <2>10. QED
    BY <1>2, <2>4, <2>5, <2>6, <2>7, <2>8, <2>9 DEF ClientCall
<1>3. ASSUME NEW c \in Client, ClientStep(c) PROVE OnceInv'
  <2>1. initialised' = initialised /\ mThiz' = mThiz
    BY <1>3 DEF ClientStep, Push, MarkDrain, Enqueue, FlushQueue, Send, Answered, StartCommit,
       StopPool, StopDrained, StopClear, ledgerVars, execVars
  <2>2. CASE Push(c) \/ MarkDrain(c)
    <3>1. cmsg'[c] = "Process" /\ execState' = execState /\ pc[c] \in {"push", "mark"}
      BY <1>1, <2>2 DEF Push, MarkDrain, Enqueue, execVars
    <3>2. ~StillInitialised(c)
      BY <3>1 DEF StillInitialised, HasAnswer, WaitsForStop
    <3>3. QED
      BY <2>1, <2>2, <3>1, <3>2, OnceKept DEF Push, MarkDrain, Enqueue
  <2>3. CASE FlushQueue(c)
    <3>1. ~StillInitialised(c)
      BY <2>3 DEF FlushQueue, StillInitialised, HasAnswer, WaitsForStop
    <3>2. QED
      BY <2>1, <2>3, <3>1, OnceKept DEF FlushQueue, execVars
  <2>4. CASE StartCommit(c)
    BY <2>1, <2>4, OnceKept DEF StartCommit
  <2>5. CASE StopPool(c) \/ StopDrained(c)
    <3>1. /\ cmsg' = cmsg /\ execState' = execState /\ pc[c] \in {"pool", "drain"}
          /\ \E p \in {"drain", "clear"} : Goto(c, p) /\ pc'[c] = p
      BY <1>1, <2>5 DEF StopPool, StopDrained, Goto, execVars, clientVars
    <3>2. StillInitialised(c) => StillInitialised(c)'
      BY <3>1 DEF StillInitialised, HasAnswer, WaitsForStop
    <3>3. QED
      BY <2>1, <3>1, <3>2, OnceKept
  <2>6. CASE StopClear(c)
    <3>1. /\ cmsg' = cmsg /\ execState' = execState /\ pc[c] = "clear"
          /\ Goto(c, "send") /\ pc'[c] = "send"
      BY <1>1, <2>6 DEF StopClear, Goto, execVars, clientVars
    <3>2. StillInitialised(c) => StillInitialised(c)'
      BY <3>1 DEF StillInitialised, HasAnswer, WaitsForStop
    <3>3. cmsg[c] \in {"Stop", "Reset"}
      BY <3>1 DEF QuietInv, CallerInv
    <3>4. QED
      BY <2>1, <3>1, <3>2, <3>3, OnceKept
  <2>7. CASE Send(c)
    <3> DEFINE p == IF cmsg[c] \in AwaitKind THEN "await"
                    ELSE IF cmsg[c] = "Start" THEN "commit" ELSE "idle"
    <3>1. /\ cmsg' = cmsg /\ op' = op /\ execState' = execState /\ pc[c] = "send"
          /\ Goto(c, p) /\ pc'[c] = p /\ reply'[c] = "none"
      BY <1>1, <2>7 DEF Send, Goto, execVars, clientVars
    <3>2. StillInitialised(c) => StillInitialised(c)'
      BY <3>1 DEF StillInitialised, HasAnswer, WaitsForStop, AwaitKind
    <3> HIDE DEF p
    <3>3. QED
      BY <2>1, <3>1, <3>2, OnceKept DEF OnceInv, InitSentInv
  <2>8. CASE Answered(c)
    <3> DEFINE p == IF op[c] = "start" /\ reply[c] = "OK" THEN "commit" ELSE "idle"
    <3>1. /\ execState' = execState /\ pc[c] = "await" /\ reply[c] # "none"
          /\ Goto(c, p) /\ pc'[c] = p
      BY <1>1, <2>8 DEF Answered, Goto, execVars
    <3>2. StillInitialised(c) => StillInitialised(c)'
      BY <3>1 DEF StillInitialised, HasAnswer, WaitsForStop
    <3>3. p \notin {"send", "await"}
      OBVIOUS
    <3> HIDE DEF p
    <3>4. QED
      BY <2>1, <3>1, <3>2, <3>3, OnceKept
  <2>9. QED
    BY <1>3, <2>2, <2>3, <2>4, <2>5, <2>6, <2>7, <2>8 DEF ClientStep
<1>4. ASSUME UNCHANGED <<execState, mThiz, initialised, cmsg, op, reply>>,
             \A c \in Client : pc'[c] = pc[c]
      PROVE  OnceInv'
  BY <1>4 DEF OnceInv, InitSentInv, StillInitialised, HasAnswer, WaitsForStop
<1>5. ASSUME NEW t \in Thread, ThreadStep(t) PROVE OnceInv'
  BY <1>4, <1>5
     DEF ThreadStep, FinishPending, FinishOther, Deliver, notCodecVars, execVars, clientVars
<1>6. ASSUME msgs # <<>>, Head(msgs).what \in AwaitKind,
             NEW answer \in {"OK", "CORRUPTED"}, Reply(answer),
             initialised' => initialised \/ (Head(msgs).what = "Init" /\ answer = "OK"),
             Head(msgs).what = "Reset" => ~initialised',
             initialised' => mThiz', UNCHANGED <<execState, cmsg, op, pc>>
      PROVE  OnceInv'
  <2> DEFINE M == [what : MsgKind, replyTo : Thread]
  <2>1. msgs \in Seq(M)
    BY DEF TypeInv, TypeOK, HandlerTypeOK
  <2> HIDE DEF M
  <2>2. 1 \in DOMAIN msgs /\ Head(msgs) = msgs[1]
    BY <1>6, <2>1
  <2>3. \A c \in Client : /\ pc[c] = "await" /\ reply[c] = "none"
                          /\ cmsg[c] = Head(msgs).what
    BY <1>6, <2>2 DEF QuietInv, AwaitedInv, IsAwaited
  <2>4. Head(msgs).replyTo \in Client
    BY <1>6, <2>2 DEF TypeInv, TypeOK, HandlerTypeOK
  <2>5. \A c \in Client : reply'[c] = answer
    BY <1>1, <1>6, <2>4 DEF Reply, OneCaller
  <2>6. InitSentInv'
    BY <1>6 DEF OnceInv, InitSentInv
  <2>7. ASSUME initialised', execState' = "UNINITIALIZED"
        PROVE  \A c \in Client : StillInitialised(c)'
    <3>1. \A c \in Client : StillInitialised(c) <=> cmsg[c] = "Reset"
      BY <2>3 DEF StillInitialised, HasAnswer, WaitsForStop
    <3>2. initialised => Head(msgs).what = "Reset"
      BY <1>6, <2>3, <2>4, <2>7, <3>1 DEF OnceInv
    <3>3. Head(msgs).what = "Init" /\ answer = "OK"
      BY <1>6, <2>7, <3>2
    <3>4. \A c \in Client : HasAnswer(c)' /\ reply'[c] = "OK" /\ op'[c] = "start"
      BY <1>6, <2>3, <2>5, <3>3 DEF HasAnswer, OnceInv, InitSentInv
    <3>5. QED
      BY <3>4 DEF StillInitialised
  <2>8. QED
    BY <1>6, <2>6, <2>7 DEF OnceInv
<1>7. CASE LooperStep
  <2>1. CASE HandleUnset
    <3>1. ~initialised /\ initialised' = initialised
      BY <2>1 DEF HandleUnset, OnceInv, ledgerVars
    <3>2. CASE Head(msgs).what \in AwaitKind
      <4>1. ~initialised'
        BY <3>1
      <4>2. /\ Reply("CORRUPTED") /\ msgs # <<>>
            /\ UNCHANGED <<execState, cmsg, op, pc>>
        BY <2>1, <3>2 DEF HandleUnset, Receive, execVars, clientVars
      <4>3. QED
        BY <1>6, <3>2, <4>1, <4>2
    <3>3. CASE Head(msgs).what \notin AwaitKind
      BY <1>4, <2>1, <3>1, <3>3 DEF HandleUnset, execVars, clientVars
    <3>4. QED
      BY <3>2, <3>3
  <2>2. CASE HandleInit
    <3>1. Head(msgs).what = "Init" /\ msgs # <<>> /\ mThiz' /\ Head(msgs).what \in AwaitKind
      BY <2>2 DEF HandleInit, Receive, execVars, AwaitKind
    <3>2. QED
      BY <1>6, <2>2, <3>1 DEF HandleInit, execVars, clientVars
  <2>3. CASE HandleStop
    <3>1. /\ Head(msgs).what \in {"Stop", "Reset", "Release"} /\ msgs # <<>> /\ mThiz'
          /\ Head(msgs).what \in AwaitKind
      BY <2>3 DEF HandleStop, Receive, execVars, AwaitKind
    <3>2. QED
      BY <1>6, <2>3, <3>1 DEF HandleStop, execVars, clientVars
  <2>4. CASE HandleStart \/ ProcessIgnored
    BY <1>4, <2>4 DEF HandleStart, ProcessIgnored, execVars, clientVars, ledgerVars
  <2>5. CASE PopFront \/ OnFlush \/ Feed \/ CodecReturns
    BY <1>4, <2>5, LooperGoto
       DEF PopFront, OnFlush, Feed, CodecReturns, execVars, clientVars, ledgerVars
  <2>6. CASE FetchPool
    BY <1>4, <2>6, LooperGoto DEF FetchPool, execVars, clientVars
  <2>7. CASE ReturnWork \/ KeepPending \/ EndProcess
    BY <1>4, <2>7, LooperGoto
       DEF ReturnWork, KeepPending, LastSection, EndProcess, execVars, clientVars, ledgerVars
  <2>8. QED
    BY <1>7, <2>1, <2>2, <2>3, <2>4, <2>5, <2>6, <2>7 DEF LooperStep
<1>8. CASE UNCHANGED vars
  BY <1>4, <1>8 DEF vars, execVars, clientVars, ledgerVars
<1>9. QED
  BY <1>2, <1>3, <1>5, <1>7, <1>8 DEF Next, Done, Thread

\* If one client makes all the calls, onInit is called once between two resets:
\* what breaks InitOncePerReset is a second thread inside start().
THEOREM InitOncePerResetHolds ==
    ASSUME OneCaller
    PROVE  Spec => InitOncePerReset
<1>1. Init => OnceInv
  BY ComponentAssumption
     DEF Init, OnceInv, InitSentInv, ComponentAssumption, Thread
<1>2. InductiveInv /\ QuietInv /\ OnceInv /\ [Next]_vars => QuietInv' /\ OnceInv'
  BY QuietStep, OnceStep DEF InductiveInv
<1>3. InductiveInv /\ QuietInv /\ OnceInv => (HandleInit => ~initialised)
  <2> SUFFICES ASSUME TypeInv, QuietInv, OnceInv, HandleInit PROVE ~initialised
    BY DEF InductiveInv
  <2> DEFINE M == [what : MsgKind, replyTo : Thread]
  <2>1. msgs # <<>> /\ Head(msgs).what = "Init"
    BY DEF HandleInit, Receive
  <2>2. msgs \in Seq(M)
    BY DEF TypeInv, TypeOK, HandlerTypeOK
  <2> HIDE DEF M
  <2>3. 1 \in DOMAIN msgs /\ msgs[1].what = "Init" /\ "Init" \in AwaitKind
    BY <2>1, <2>2 DEF AwaitKind
  <2>4. PICK c \in Client : TRUE
    BY <2>3 DEF TypeInv, TypeOK, HandlerTypeOK
  <2>5. pc[c] = "await" /\ reply[c] = "none" /\ cmsg[c] = "Init"
    BY <2>3 DEF QuietInv, AwaitedInv, IsAwaited
  <2>6. execState = "UNINITIALIZED" /\ ~StillInitialised(c)
    BY <2>5 DEF OnceInv, InitSentInv, StillInitialised, HasAnswer, WaitsForStop
  <2>7. QED
    BY <2>6 DEF OnceInv
<1>4. InductiveInv /\ QuietInv /\ OnceInv /\ [Next]_vars => [HandleInit => ~initialised]_vars
  BY <1>3
<1>5. QED
  BY <1>1, <1>2, <1>4, QuietInit, InductiveInvHolds, PTL DEF Spec, InitOncePerReset

=============================================================================
