------------------------ MODULE ComponentTypeProofs ------------------------
(***************************************************************************)
(* The types of C2RKComponent's variables are kept by every step, and      *)
(* lemmas about the queues of works and messages that the other proofs     *)
(* cite.                                                                   *)
(***************************************************************************)
EXTENDS ComponentInv, TLAPS

\* an entry of a queue after an append
LEMMA AppendEntries ==
    ASSUME NEW S, NEW q \in Seq(S), NEW e \in S
    PROVE  /\ Append(q, e) \in Seq(S)
           /\ \A i \in DOMAIN Append(q, e) :
                 Append(q, e)[i] = e \/ (i \in DOMAIN q /\ Append(q, e)[i] = q[i])
<1>1. Append(q, e) \in Seq(S) /\ Len(Append(q, e)) = Len(q) + 1
  OBVIOUS
<1>2. ASSUME NEW i \in 1 .. Len(q) + 1
      PROVE  Append(q, e)[i] = e \/ (i \in 1 .. Len(q) /\ Append(q, e)[i] = q[i])
  <2>1. CASE i = Len(q) + 1
    BY <2>1
  <2>2. CASE i # Len(q) + 1
    BY <2>2
  <2>3. QED BY <2>1, <2>2
<1>3. QED BY <1>1, <1>2

\* the looper's message queue is well formed
MessagesOK(q) ==
    /\ q \in Seq([what : MsgKind, replyTo : Thread])
    /\ \A i \in DOMAIN q : q[i].what \in AwaitKind => q[i].replyTo \in Client

\* a well formed queue with one more message
LEMMA AppendMessage ==
    ASSUME NEW q, MessagesOK(q), NEW m \in [what : MsgKind, replyTo : Thread],
           m.what \in AwaitKind => m.replyTo \in Client
    PROVE  MessagesOK(Append(q, m))
<1> DEFINE M == [what : MsgKind, replyTo : Thread]
<1>1. q \in Seq(M) /\ m \in M
  BY DEF MessagesOK
<1> HIDE DEF M
<1>2. /\ Append(q, m) \in Seq(M)
      /\ \A i \in DOMAIN Append(q, m) : Append(q, m)[i] = m
            \/ (i \in DOMAIN q /\ Append(q, m)[i] = q[i])
  BY <1>1, AppendEntries
<1>3. QED BY <1>2 DEF M, MessagesOK

\* the entries of a queue without its head
LEMMA TailEntries ==
    ASSUME NEW S, NEW q \in Seq(S), q # <<>>
    PROVE  /\ Tail(q) \in Seq(S) /\ Head(q) \in S /\ 1 \in DOMAIN q /\ Head(q) = q[1]
           /\ \A i \in DOMAIN Tail(q) : i + 1 \in DOMAIN q /\ Tail(q)[i] = q[i + 1]
           /\ \A i \in DOMAIN q : i # 1 => i - 1 \in DOMAIN Tail(q) /\ Tail(q)[i - 1] = q[i]
OBVIOUS

\* works of the empty queue
LEMMA WorksEmpty == Works(<<>>) = {}
BY DEF Works

\* works of two queues put together
LEMMA WorksConcat ==
    ASSUME NEW S, NEW q \in Seq(S), NEW r \in Seq(S)
    PROVE  /\ q \o r \in Seq(S)
           /\ Works(q \o r) = Works(q) \cup Works(r)
<1>1. q \o r \in Seq(S) /\ Len(q \o r) = Len(q) + Len(r)
  OBVIOUS
<1>2. \A i \in 1 .. Len(q) : (q \o r)[i] = q[i]
  OBVIOUS
<1>3. \A i \in 1 .. Len(r) : (q \o r)[Len(q) + i] = r[i] /\ Len(q) + i \in 1 .. Len(q \o r)
  OBVIOUS
<1>4. \A i \in 1 .. Len(q \o r) : \/ i \in 1 .. Len(q) /\ (q \o r)[i] = q[i]
                                  \/ i - Len(q) \in 1 .. Len(r) /\ (q \o r)[i] = r[i - Len(q)]
  OBVIOUS
<1>5. Works(q \o r) \subseteq Works(q) \cup Works(r)
  BY <1>1, <1>4 DEF Works
<1>6. Works(q) \subseteq Works(q \o r)
  BY <1>1, <1>2 DEF Works
<1>7. Works(r) \subseteq Works(q \o r)
  <2> SUFFICES ASSUME NEW w \in Works(r) PROVE w \in Works(q \o r)
    OBVIOUS
  <2>1. PICK i \in 1 .. Len(r) : w = r[i] /\ w # Null
    BY DEF Works
  <2>2. Len(q) + i \in 1 .. Len(q \o r) /\ (q \o r)[Len(q) + i] = w
    BY <1>3, <2>1
  <2>3. QED BY <1>1, <2>1, <2>2 DEF Works
<1>8. QED BY <1>1, <1>5, <1>6, <1>7

\* no work is twice in two disjoint queues put together
LEMMA OnceConcat ==
    ASSUME NEW S, NEW q \in Seq(S), NEW r \in Seq(S), Once(q), Once(r),
           Works(q) \cap Works(r) = {}
    PROVE  Once(q \o r)
<1>1. q \o r \in Seq(S) /\ Len(q \o r) = Len(q) + Len(r)
  OBVIOUS
<1>4. \A i \in 1 .. Len(q \o r) : \/ i \in 1 .. Len(q) /\ (q \o r)[i] = q[i]
                                  \/ i - Len(q) \in 1 .. Len(r) /\ (q \o r)[i] = r[i - Len(q)]
  OBVIOUS
<1>5. ASSUME NEW i \in 1 .. Len(q), NEW j \in 1 .. Len(r), q[i] = r[j], q[i] # Null
      PROVE FALSE
  <2>1. q[i] \in Works(q) /\ r[j] \in Works(r)
    BY <1>5 DEF Works
  <2>2. QED BY <2>1, <1>5
<1>6. ASSUME NEW i \in 1 .. Len(q \o r), NEW j \in 1 .. Len(q \o r), 
         (q \o r)[i] = (q \o r)[j], (q \o r)[i] # Null
      PROVE i = j
  <2>1. CASE i \in 1 .. Len(q) /\ j \in 1 .. Len(q)
    BY <2>1, <1>6, <1>4 DEF Once
  <2>2. CASE i - Len(q) \in 1 .. Len(r) /\ j - Len(q) \in 1 .. Len(r)
    <3>1. i - Len(q) = j - Len(q)
      BY <2>2, <1>6, <1>4 DEF Once
    <3>2. QED BY <3>1
  <2>3. CASE i \in 1 .. Len(q) /\ j - Len(q) \in 1 .. Len(r)
    BY <2>3, <1>4, <1>5, <1>6
  <2>4. CASE i - Len(q) \in 1 .. Len(r) /\ j \in 1 .. Len(q)
    BY <2>4, <1>4, <1>5, <1>6
  <2>5. QED BY <1>4, <2>1, <2>2, <2>3, <2>4
<1>7. QED BY <1>1, <1>6 DEF Once

\* no work is twice in a tail, and the head has left it
LEMMA OnceTail ==
    ASSUME NEW S, NEW q \in Seq(S), q # <<>>, Once(q)
    PROVE  /\ Once(Tail(q))
           /\ Works(Tail(q)) = Works(q) \ {Head(q)}
<1>1. Once(Tail(q))
  BY TailEntries DEF Once
<1>2. Works(Tail(q)) \subseteq Works(q) \ {Head(q)}
  <2> SUFFICES ASSUME NEW w \in Works(Tail(q)) PROVE w \in Works(q) /\ w # Head(q)
    OBVIOUS
  <2>1. PICK i \in DOMAIN Tail(q) : w = Tail(q)[i] /\ w # Null
    BY DEF Works
  <2>2. i + 1 \in DOMAIN q /\ w = q[i + 1] /\ 1 \in DOMAIN q /\ Head(q) = q[1] /\ i + 1 # 1
    BY <2>1, TailEntries
  <2>3. QED BY <2>1, <2>2 DEF Works, Once
<1>3. Works(q) \ {Head(q)} \subseteq Works(Tail(q))
  <2> SUFFICES ASSUME NEW w \in Works(q), w # Head(q) PROVE w \in Works(Tail(q))
    OBVIOUS
  <2>1. PICK i \in DOMAIN q : w = q[i] /\ w # Null
    BY DEF Works
  <2>2. i - 1 \in DOMAIN Tail(q) /\ Tail(q)[i - 1] = w
    BY <2>1, TailEntries
  <2>3. QED BY <2>1, <2>2 DEF Works
<1>4. QED BY <1>1, <1>2, <1>3

-----------------------------------------------------------------------------
(* Types.                                                                  *)

\* the initial state has the types
LEMMA InitTypeInv == Init => TypeInv
<1> SUFFICES ASSUME Init PROVE TypeInv
    OBVIOUS
<1> USE ComponentAssumption DEF ComponentAssumption, Thread, Null, Fresh, Init
<1>1. ExecTypeOK
  BY DEF ExecTypeOK, ExecStates
<1>2. QueueTypeOK
  <2>1. mQueue \in Seq(Work \cup {Null})
    OBVIOUS
  <2>2. QED BY <2>1 DEF QueueTypeOK
<1>3. HandlerTypeOK
  <2>1. msgs \in Seq([what : MsgKind, replyTo : Thread])
    OBVIOUS
  <2>2. reply \in [Client -> {"none", "OK", "CORRUPTED"}]
    OBVIOUS
  <2>3. \A i \in DOMAIN msgs :
           msgs[i].what \in AwaitKind => msgs[i].replyTo \in Client
    OBVIOUS
  <2>4. QED BY <2>1, <2>2, <2>3 DEF HandlerTypeOK
<1>4. ThreadTypeOK
  BY DEF ThreadTypeOK, ClientPC, LooperPC
<1>5. LocalTypeOK
  <2>1. work \in Work \cup {Null} /\ generation \in Nat
    OBVIOUS
  <2>2. codec \subseteq Work
    OBVIOUS
  <2>3. QED BY <2>1, <2>2 DEF LocalTypeOK
<1>6. ClientTypeOK
  BY DEF ClientTypeOK, MsgKind, OpName
<1>7. LedgerTypeOK
  <2>1. acceptedIn \in [Work -> Nat] /\ fate \in [Work -> Fates]
    BY DEF Fates
  <2>2. QED BY <2>1 DEF LedgerTypeOK
<1>8. PhaseOK
  BY DEF PhaseOK
<1>9. QED
  BY <1>1, <1>2, <1>3, <1>4, <1>5, <1>6, <1>7, <1>8 DEF TypeOK, TypeInv

\* every step keeps the types
LEMMA NextTypeInv == TypeInv /\ [Next]_vars => TypeInv'
<1> SUFFICES ASSUME TypeInv, [Next]_vars PROVE TypeInv'
    OBVIOUS
<1> USE ComponentAssumption
    DEF ComponentAssumption, Thread, Null, Fresh, TypeInv, PhaseOK, TypeOK, ExecTypeOK,
        QueueTypeOK, HandlerTypeOK, ThreadTypeOK, LocalTypeOK, ClientTypeOK,
        LedgerTypeOK, execVars, queueVars, handlerVars, localVars, clientVars,
        ledgerVars, notCodecVars
<1>1. CASE UNCHANGED vars
  BY <1>1 DEF vars
<1>2. ASSUME NEW c \in Client, SetListener(c) PROVE TypeInv'
  BY <1>2 DEF SetListener, Call, OpName, Goto, ClientPC
<1>3. ASSUME NEW c \in Client, ClearListener(c) PROVE TypeInv'
  BY <1>3 DEF ClearListener, MayClear, Call, OpName, Goto, ClientPC
<1>4. ASSUME NEW c \in Client, QueueCall(c) PROVE TypeInv'
  <2>1. PICK n \in 0 .. MaxBatch :
          /\ nextWork + n <= NumWork + 1
          /\ IfRunning(c, "queue", "push")
          /\ items' = [items EXCEPT ![c] = IF execState = "RUNNING"
                          THEN [i \in 1 .. n |-> nextWork + i - 1] ELSE <<>>]
          /\ nextWork' = IF execState = "RUNNING" THEN nextWork + n ELSE nextWork
    BY <1>4 DEF QueueCall
  <2>2. n \in Nat /\ [i \in 1 .. n |-> nextWork + i - 1] \in Seq(Work)
    BY <2>1 DEF Work
  <2>3. items' \in [Client -> Seq(Work)] /\ nextWork' \in Nat \ {0}
        /\ nextWork' <= NumWork + 1
    BY <2>1, <2>2
  <2>4. QED BY <2>1, <2>3 DEF IfRunning, Call, OpName, Goto, ClientPC
<1>5. ASSUME NEW c \in Client, FlushCall(c) PROVE TypeInv'
  BY <1>5 DEF FlushCall, IfRunning, Call, OpName, Goto, ClientPC
<1>6. ASSUME NEW c \in Client, DrainCall(c) PROVE TypeInv'
  BY <1>6 DEF DrainCall, IfRunning, Call, OpName, Goto, ClientPC
<1>7. ASSUME NEW c \in Client, StartCall(c) PROVE TypeInv'
  BY <1>7 DEF StartCall, NeedsInit, Call, OpName, Goto, ClientPC, MsgKind,
     AwaitKind
<1>8. ASSUME NEW c \in Client, StopCall(c) PROVE TypeInv'
  BY <1>8 DEF StopCall, Call, OpName, Goto, ClientPC, MsgKind, AwaitKind,
     ExecStates
<1>9. ASSUME NEW c \in Client, ResetCall(c) PROVE TypeInv'
  BY <1>9 DEF ResetCall, Call, OpName, Goto, ClientPC, MsgKind, AwaitKind,
     ExecStates
<1>10. ASSUME NEW c \in Client, ReleaseCall(c) PROVE TypeInv'
  BY <1>10 DEF ReleaseCall, Call, OpName, Goto, ClientPC, MsgKind, AwaitKind
<1>11. ASSUME NEW c \in Client, Push(c) PROVE TypeInv'
  BY <1>11 DEF Push, Enqueue, Works, QueueWasEmpty, Goto, ClientPC, MsgKind,
     AwaitKind
<1>12. ASSUME NEW c \in Client, MarkDrain(c) PROVE TypeInv'
  BY <1>12 DEF MarkDrain, Enqueue, QueueWasEmpty, Goto, ClientPC, MsgKind,
     AwaitKind
<1>13. ASSUME NEW c \in Client, FlushQueue(c) PROVE TypeInv'
  BY <1>13 DEF FlushQueue, TakeAll, Queued, Works, Goto, ClientPC, Fates
<1>14. ASSUME NEW c \in Client, Send(c) PROVE TypeInv'
  <2>1. Message(cmsg[c], c) \in [what : MsgKind, replyTo : Thread]
    BY <1>14 DEF Message
  <2>2. HandlerTypeOK'
    BY <1>14, <2>1 DEF Send, Message, MsgKind, AwaitKind
  <2>3. ThreadTypeOK'
    BY <1>14 DEF Send, Goto, ClientPC
  <2>4. ExecTypeOK' /\ QueueTypeOK' /\ LocalTypeOK' /\ ClientTypeOK' /\ LedgerTypeOK'
    BY <1>14 DEF Send
  <2>5. PhaseOK'
    BY <1>14 DEF Send, Goto
  <2>6. QED BY <2>2, <2>3, <2>4, <2>5
<1>15. ASSUME NEW c \in Client, Answered(c) PROVE TypeInv'
  BY <1>15 DEF Answered, Goto, ClientPC
<1>16. ASSUME NEW c \in Client, StartCommit(c) PROVE TypeInv'
  BY <1>16 DEF StartCommit, Goto, ClientPC, ExecStates
<1>17. ASSUME NEW c \in Client, StopPool(c) PROVE TypeInv'
  BY <1>17 DEF StopPool, Goto, ClientPC
<1>18. ASSUME NEW c \in Client, StopDrained(c) PROVE TypeInv'
  BY <1>18 DEF StopDrained, Goto, ClientPC
<1>19. ASSUME NEW c \in Client, StopClear(c) PROVE TypeInv'
  BY <1>19 DEF StopClear, TakeAll, Queued, Works, Goto, ClientPC, Fates
<1>20. ASSUME NEW t \in Thread, FinishPending(t) PROVE TypeInv'
  BY <1>20 DEF FinishPending, ErasePending, Fates
<1>21. ASSUME NEW t \in Thread, FinishOther(t) PROVE TypeInv'
  BY <1>21 DEF FinishOther
<1>22. ASSUME NEW t \in Thread, Deliver(t) PROVE TypeInv'
  <2>1. ThreadTypeOK' /\ PhaseOK'
    BY <1>22 DEF Deliver
  <2>2. ExecTypeOK' /\ QueueTypeOK' /\ HandlerTypeOK' /\ LocalTypeOK'
        /\ ClientTypeOK' /\ LedgerTypeOK'
    BY <1>22 DEF Deliver
  <2>3. QED BY <2>1, <2>2
<1>23. CASE HandleUnset
  <2>1. HandlerTypeOK'
    <3>1. msgs' = Tail(msgs) /\ msgs # <<>>
      BY <1>23 DEF HandleUnset, Receive
    <3>2. msgs' \in Seq([what : MsgKind, replyTo : Thread])
          /\ \A i \in DOMAIN msgs' :
                msgs'[i].what \in AwaitKind => msgs'[i].replyTo \in Client
      BY <3>1
    <3>3. reply' \in [Client -> {"none", "OK", "CORRUPTED"}]
      BY <1>23, <3>1 DEF HandleUnset, Reply
    <3>4. QED BY <1>23, <3>2, <3>3 DEF HandleUnset
  <2>2. QED BY <1>23, <2>1 DEF HandleUnset
<1>24. CASE HandleInit
  BY <1>24 DEF HandleInit, Receive, Reply, AwaitKind
<1>25. CASE HandleStart
  BY <1>25 DEF HandleStart, Receive
<1>26. CASE HandleStop
  <2>1. HandlerTypeOK'
    <3>1. mRunning' \in BOOLEAN /\ mOutputBlockPool' \in BOOLEAN
      BY <1>26 DEF HandleStop
    <3>2. msgs' \in Seq([what : MsgKind, replyTo : Thread])
          /\ \A i \in DOMAIN msgs' :
                msgs'[i].what \in AwaitKind => msgs'[i].replyTo \in Client
      <4>1. msgs' = Tail(msgs) /\ msgs # <<>>
        BY <1>26 DEF HandleStop, Receive
      <4>2. QED BY <4>1
    <3>3. reply' \in [Client -> {"none", "OK", "CORRUPTED"}]
      BY <1>26 DEF HandleStop, Receive, Reply
    <3>4. QED BY <3>1, <3>2, <3>3
  <2>2. LocalTypeOK' /\ LedgerTypeOK'
    BY <1>26 DEF HandleStop, StopCodec
  <2>3. ExecTypeOK' /\ QueueTypeOK' /\ ThreadTypeOK' /\ ClientTypeOK'
    BY <1>26 DEF HandleStop
  <2>4. PhaseOK'
    BY <1>26 DEF HandleStop
  <2>5. QED BY <2>1, <2>2, <2>3, <2>4
<1>27. CASE ProcessIgnored
  BY <1>27 DEF ProcessIgnored, Receive
<1>28. CASE PopFront
  <2>1. mQueue' \in Seq(Work \cup {Null}) /\ work' \in Work \cup {Null}
    BY <1>28 DEF PopFront
  <2>2. QueueTypeOK' /\ LocalTypeOK'
    BY <1>28, <2>1 DEF PopFront, StillQueued
  <2>3. HandlerTypeOK' /\ ThreadTypeOK'
    BY <1>28 DEF PopFront, Receive, Goto, LooperPC
  <2>4. ExecTypeOK' /\ ClientTypeOK' /\ LedgerTypeOK'
    BY <1>28 DEF PopFront
  <2>5. PhaseOK'
    BY <1>28 DEF PopFront, Goto
  <2>6. QED BY <2>2, <2>3, <2>4, <2>5
<1>29. CASE OnFlush
  BY <1>29 DEF OnFlush, At, FlushPopped, Goto, LooperPC
<1>30. CASE FetchPool
  <2>1. LocalTypeOK' /\ LedgerTypeOK' /\ mOutputBlockPool' \in BOOLEAN
    BY <1>30 DEF FetchPool, Fates
  <2>2. ThreadTypeOK'
    BY <1>30 DEF FetchPool, Goto, LooperPC
  <2>3. ExecTypeOK' /\ QueueTypeOK' /\ HandlerTypeOK' /\ ClientTypeOK'
    BY <1>30, <2>1 DEF FetchPool
  <2>4. PhaseOK'
    BY <1>30 DEF FetchPool, At, Goto
  <2>5. QED BY <2>1, <2>2, <2>3, <2>4
<1>31. CASE Feed
  <2>1. codec' \subseteq Work
    BY <1>31 DEF Feed, At
  <2>2. QED BY <1>31, <2>1 DEF Feed, At, Goto, LooperPC
<1>32. CASE CodecReturns
  BY <1>32 DEF CodecReturns, At, Goto, LooperPC
<1>33. CASE ReturnWork
  BY <1>33 DEF ReturnWork, At, LastSection, SameGeneration, Goto, LooperPC,
     Fates
<1>34. CASE KeepPending
  <2> DEFINE unexpected == {w \in mPendingWork : FrameIndex[w] = FrameIndex[work]}
  <2>1. mPendingWork' = (mPendingWork \ unexpected) \cup {work} /\ work \in Work
    BY <1>34 DEF KeepPending, LastSection, At
  <2>2. mPendingWork' \subseteq Work
    BY <2>1
  <2>3. PICK v : /\ v \in Work \cup {Null}
                 /\ hand' = [hand EXCEPT ![Looper] = v]
    <3>1. hand' = [hand EXCEPT ![Looper] = IF unexpected = {} THEN Null
                                         ELSE CHOOSE w \in unexpected : TRUE]
      BY <1>34 DEF KeepPending
    <3>2. CASE unexpected = {}
      BY <3>1, <3>2
    <3>3. CASE unexpected # {}
      <4>1. (CHOOSE w \in unexpected : TRUE) \in unexpected
        BY <3>3
      <4>2. QED BY <3>1, <3>3, <4>1
    <3>4. QED BY <3>2, <3>3
  <2>4. fate' = [w \in Work |-> IF w \in unexpected THEN "corrupted" ELSE fate[w]]
    BY <1>34 DEF KeepPending
  <2>5. LedgerTypeOK'
    BY <1>34, <2>4 DEF KeepPending, LastSection, Fates
  <2>6. QED BY <1>34, <2>2, <2>3, <2>5 DEF KeepPending, LastSection, At, Goto,
     LooperPC
<1>35. CASE EndProcess
  <2>1. Message("Process", Looper) \in [what : MsgKind, replyTo : Thread]
    BY DEF Message, MsgKind, AwaitKind
  <2>2. HandlerTypeOK'
    <3>1. CASE ~hasQueuedWork
      BY <1>35, <3>1 DEF EndProcess
    <3>2. CASE hasQueuedWork
      <4>1. /\ msgs' = Append(msgs, Message("Process", Looper))
            /\ Message("Process", Looper).what \notin AwaitKind
        BY <1>35, <3>2 DEF EndProcess, Message, AwaitKind
      <4>2. MessagesOK(msgs')
        BY <2>1, <4>1, AppendMessage DEF MessagesOK
      <4>3. QED BY <1>35, <4>2 DEF EndProcess, MessagesOK
    <3>3. QED BY <3>1, <3>2
  <2>3. ThreadTypeOK'
    BY <1>35 DEF EndProcess, Goto, LooperPC
  <2>4. ExecTypeOK' /\ QueueTypeOK' /\ LocalTypeOK' /\ ClientTypeOK' /\ LedgerTypeOK'
    BY <1>35 DEF EndProcess
  <2>5. PhaseOK'
    BY <1>35 DEF EndProcess, Goto
  <2>6. QED BY <2>2, <2>3, <2>4, <2>5
<1>36. QED
  BY <1>1, <1>2, <1>3, <1>4, <1>5, <1>6, <1>7, <1>8, <1>9, <1>10, <1>11,
     <1>12, <1>13, <1>14, <1>15, <1>16, <1>17, <1>18, <1>19, <1>20, <1>21,
     <1>22, <1>23, <1>24, <1>25, <1>26, <1>27, <1>28, <1>29, <1>30, <1>31,
     <1>32, <1>33, <1>34, <1>35 DEF Next, LooperStep, ThreadStep, ClientCall,
     ClientStep, Done, vars

=============================================================================
