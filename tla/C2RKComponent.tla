--------------------------- MODULE C2RKComponent ---------------------------
(***************************************************************************)
(* The component base class (component/base/C2RKComponent.cpp): client     *)
(* threads call the C2Component interface while one ALooper thread serves  *)
(* the messages of WorkHandler and runs processQueue().  Two mutexes,      *)
(* mExecState and mWorkQueue, are taken one after the other and never      *)
(* together, so every locked section is one action here and everything     *)
(* between two sections can be interleaved with the other threads.         *)
(*                                                                         *)
(* The codec behind the virtual functions onInit, onStop, onReset,         *)
(* onRelease, onFlush_sm, process and drain is abstract: it holds works it *)
(* was fed, may keep them for as long as it likes, and gives output for    *)
(* any of them in any order, through the base class's finish().            *)
(*                                                                         *)
(* A definition named Mut... is a wrong version of the one after it.  No   *)
(* specification uses it; PROJECT.json says which property it breaks.      *)
(***************************************************************************)
EXTENDS Naturals, Sequences

CONSTANTS
    Client,             \* the threads that call the component's interface
    Looper,             \* the ALooper thread
    Ops,                \* Ops[c]: the calls client c makes
    MaxCalls,           \* bound: the number of calls of each client
    NumWork,            \* bound: the number of works the clients queue
    MaxBatch,           \* bound: the works of one queue_nb call
    FrameIndex,         \* FrameIndex[w]: work w's input.ordinal.frameIndex
    FlushClearsCodec    \* onFlush_sm empties the codec (decoder, not encoder)

Work == 1 .. NumWork
Null == 0               \* a null unique_ptr; in the queue, a drain entry
Fresh == NumWork + 1    \* a work the codec made itself for one output

OpName == {"setListener", "clearListener", "clearListenerMayBlock", "queue",
           "flush", "drain", "start", "stop", "reset", "release"}

Thread == Client \cup {Looper}

ASSUME ComponentAssumption ==
    /\ Looper \notin Client
    /\ Ops \in [Client -> SUBSET OpName]
    /\ NumWork \in Nat /\ MaxBatch \in Nat /\ MaxCalls \in Nat
    /\ FrameIndex \in [Work -> Nat]
    /\ FlushClearsCodec \in BOOLEAN

ExecStates == {"UNINITIALIZED", "STOPPED", "RUNNING"}
AwaitKind == {"Init", "Stop", "Reset", "Release"}  \* postAndAwaitResponse
MsgKind == AwaitKind \cup {"Process", "Start"}
ClientPC == {"idle", "push", "mark", "flush", "send", "await", "commit",
             "pool", "drain", "clear"}
LooperPC == {"wait", "flush", "pool", "feed", "process", "drain", "tail",
             "end"}
Fates == {"none", "done", "not_found", "corrupted", "flushed", "dropped",
          "lost"}

VARIABLES
    execState,          \* mExecState.mState
    mListener,          \* mExecState.mListener is not null
    mThiz,              \* WorkHandler::mThiz has been set
    mQueue,             \* WorkQueue::mQueue, works and drain entries (Null)
    mPendingWork,       \* WorkQueue::mPendingWork
    mFlush,             \* WorkQueue::mFlush
    mGeneration,        \* WorkQueue::mGeneration
    mRunning,           \* WorkHandler::mRunning
    mOutputBlockPool,   \* mOutputBlockPool is not null
    msgs,               \* the looper's message queue
    reply,              \* reply[c]: the answer to c's postAndAwaitResponse
    pc,                 \* where each thread is
    hand,               \* hand[t]: the work t is about to give the listener
    op, items, cmsg,    \* a client's call, its works, the message to post
    work, generation, isFlushPending, hasQueuedWork,  \* processQueue locals
    codec,              \* the works whose output the codec still holds
    nextWork, calls,    \* the next work the clients queue; the calls made
    acceptedIn, fate,   \* history: generation at queue_nb; how a work ended
    initialised         \* history: onInit succeeded, with no reset() since

execVars == <<execState, mListener, mThiz>>
queueVars == <<mQueue, mPendingWork, mFlush, mGeneration>>
handlerVars == <<mRunning, mOutputBlockPool>>
localVars == <<work, generation, isFlushPending, hasQueuedWork>>
clientVars == <<op, items, cmsg, nextWork, calls>>
ledgerVars == <<acceptedIn, fate, initialised>>
vars == <<execVars, queueVars, handlerVars, msgs, reply, pc, hand, localVars,
          clientVars, codec, ledgerVars>>

\* replyTo means something in awaited messages only
MutNoToken(kind, t) == [what |-> kind, replyTo |-> Looper]
Message(kind, t) ==
    [what |-> kind, replyTo |-> IF kind \in AwaitKind THEN t ELSE Looper]

Works(q) == {q[i] : i \in DOMAIN q} \ {Null}
Queued == Works(mQueue)

Init ==
    /\ execState = "UNINITIALIZED" /\ mListener = FALSE /\ mThiz = FALSE
    /\ mQueue = <<>> /\ mPendingWork = {} /\ mFlush = FALSE /\ mGeneration = 0
    /\ mRunning = FALSE /\ mOutputBlockPool = FALSE
    /\ msgs = <<>> /\ reply = [c \in Client |-> "none"]
    /\ pc = [t \in Thread |-> IF t = Looper THEN "wait" ELSE "idle"]
    /\ hand = [t \in Thread |-> Null]
    /\ op = [c \in Client |-> "none"]
    /\ items = [c \in Client |-> <<>>]
    /\ cmsg = [c \in Client |-> "Process"]
    /\ work = Null /\ generation = 0
    /\ isFlushPending = FALSE /\ hasQueuedWork = FALSE
    /\ codec = {}
    /\ nextWork = 1 /\ calls = [c \in Client |-> 0]
    /\ acceptedIn = [w \in Work |-> 0] /\ fate = [w \in Work |-> "none"]
    /\ initialised = FALSE

-----------------------------------------------------------------------------
(* Client threads.  Call(c, o, p) begins call o, whose next step is at p.   *)

Goto(t, p) == pc' = [pc EXCEPT ![t] = p]

Call(c, o, p) ==
    /\ pc[c] = "idle" /\ o \in Ops[c] /\ calls[c] < MaxCalls
    /\ calls' = [calls EXCEPT ![c] = @ + 1]
    /\ op' = [op EXCEPT ![c] = o]
    /\ Goto(c, p)

\* setListener_vb: the handler learns the component before the state is checked
SetListener(c) ==
    /\ Call(c, "setListener", "idle")
    /\ mThiz' = TRUE
    /\ mListener' = (mListener \/ execState # "RUNNING")
    /\ UNCHANGED <<execState, queueVars, handlerVars, msgs, reply, hand,
                   localVars, items, cmsg, nextWork, codec, ledgerVars>>

\* a null listener is refused with C2_BLOCKING while running, unless the caller
\* may block
MutMayAlwaysClear(o) == TRUE
MayClear(o) == execState # "RUNNING" \/ o = "clearListenerMayBlock"

ClearListener(c) ==
    /\ \E o \in {"clearListener", "clearListenerMayBlock"} :
          /\ Call(c, o, "idle")
          /\ mListener' = (mListener /\ ~MayClear(o))
    /\ mThiz' = TRUE
    /\ UNCHANGED <<execState, queueVars, handlerVars, msgs, reply, hand,
                   localVars, items, cmsg, nextWork, codec, ledgerVars>>

\* queue_nb, flush_sm and drain_nb look at the state and let the lock go
IfRunning(c, o, p) ==
    /\ Call(c, o, IF execState = "RUNNING" THEN p ELSE "idle")
    /\ UNCHANGED <<execVars, queueVars, handlerVars, msgs, reply, hand,
                   localVars, cmsg, codec, ledgerVars>>

QueueCall(c) ==
    \E n \in 0 .. MaxBatch :
        /\ nextWork + n <= NumWork + 1
        /\ IfRunning(c, "queue", "push")
        /\ items' = [items EXCEPT ![c] = IF execState = "RUNNING"
                        THEN [i \in 1 .. n |-> nextWork + i - 1] ELSE <<>>]
        /\ nextWork' = IF execState = "RUNNING" THEN nextWork + n ELSE nextWork

FlushCall(c) == IfRunning(c, "flush", "flush") /\ UNCHANGED <<items, nextWork>>
DrainCall(c) == IfRunning(c, "drain", "mark") /\ UNCHANGED <<items, nextWork>>

\* who finds the queue empty posts kWhatProcess
MutEmptyAfterPush == FALSE
QueueWasEmpty == mQueue = <<>>

Enqueue(c, entries) ==
    /\ mQueue' = mQueue \o entries
    /\ cmsg' = [cmsg EXCEPT ![c] = "Process"]
    /\ Goto(c, IF QueueWasEmpty THEN "send" ELSE "idle")
    /\ UNCHANGED <<execVars, mPendingWork, mFlush, mGeneration, handlerVars,
                   msgs, reply, hand, localVars, op, nextWork, calls, codec,
                   fate, initialised>>

Push(c) ==
    /\ pc[c] = "push"
    /\ Enqueue(c, items[c])
    /\ items' = [items EXCEPT ![c] = <<>>]
    /\ acceptedIn' = [w \in Work |-> IF w \in Works(items[c])
                                     THEN mGeneration ELSE acceptedIn[w]]

MarkDrain(c) ==
    /\ pc[c] = "mark"
    /\ Enqueue(c, <<Null>>)
    /\ UNCHANGED <<items, acceptedIn>>

\* the queue and the pending map are emptied and their works end as f
TakeAll(f) ==
    /\ mQueue' = <<>> /\ mPendingWork' = {}
    /\ fate' = [w \in Work |-> IF w \in Queued \cup mPendingWork
                               THEN f ELSE fate[w]]

FlushQueue(c) ==
    /\ pc[c] = "flush"
    /\ mGeneration' = mGeneration + 1 /\ mFlush' = TRUE
    /\ TakeAll("flushed")
    /\ Goto(c, "idle")
    /\ UNCHANGED <<execVars, handlerVars, msgs, reply, hand, localVars,
                   clientVars, codec, acceptedIn, initialised>>

\* post, or postAndAwaitResponse
Send(c) ==
    /\ pc[c] = "send"
    /\ msgs' = Append(msgs, Message(cmsg[c], c))
    /\ reply' = [reply EXCEPT ![c] = "none"]
    /\ Goto(c, IF cmsg[c] \in AwaitKind THEN "await"
               ELSE IF cmsg[c] = "Start" THEN "commit" ELSE "idle")
    /\ UNCHANGED <<execVars, queueVars, handlerVars, hand, localVars,
                   clientVars, codec, ledgerVars>>

\* start() goes on to RUNNING only if onInit succeeded
Answered(c) ==
    /\ pc[c] = "await" /\ reply[c] # "none"
    /\ Goto(c, IF op[c] = "start" /\ reply[c] = "OK" THEN "commit" ELSE "idle")
    /\ UNCHANGED <<execVars, queueVars, handlerVars, msgs, reply, hand,
                   localVars, clientVars, codec, ledgerVars>>

NeedsInit == execState = "UNINITIALIZED"

StartCall(c) ==
    /\ Call(c, "start", IF execState = "RUNNING" THEN "idle" ELSE "send")
    /\ cmsg' = [cmsg EXCEPT ![c] = IF NeedsInit THEN "Init" ELSE "Start"]
    /\ UNCHANGED <<execVars, queueVars, handlerVars, msgs, reply, hand,
                   localVars, items, nextWork, codec, ledgerVars>>

\* start() takes the lock again and does not look at the state a second time
StartCommit(c) ==
    /\ pc[c] = "commit"
    /\ execState' = "RUNNING"
    /\ Goto(c, "idle")
    /\ UNCHANGED <<mListener, mThiz, queueVars, handlerVars, msgs, reply,
                   hand, localVars, clientVars, codec, ledgerVars>>

StopCall(c) ==
    /\ Call(c, "stop", IF execState = "RUNNING" THEN "pool" ELSE "idle")
    /\ execState' = IF execState = "RUNNING" THEN "STOPPED" ELSE execState
    /\ cmsg' = [cmsg EXCEPT ![c] = "Stop"]
    /\ UNCHANGED <<mListener, mThiz, queueVars, handlerVars, msgs, reply,
                   hand, localVars, items, nextWork, codec, ledgerVars>>

ResetCall(c) ==
    /\ Call(c, "reset", "pool")
    /\ execState' = "UNINITIALIZED"
    /\ cmsg' = [cmsg EXCEPT ![c] = "Reset"]
    /\ UNCHANGED <<mListener, mThiz, queueVars, handlerVars, msgs, reply,
                   hand, localVars, items, nextWork, codec, ledgerVars>>

ReleaseCall(c) ==
    /\ Call(c, "release", "send")
    /\ cmsg' = [cmsg EXCEPT ![c] = "Release"]
    /\ UNCHANGED <<execVars, queueVars, handlerVars, msgs, reply, hand,
                   localVars, items, nextWork, codec, ledgerVars>>

\* stop() and reset() read the looper thread's mOutputBlockPool: with a pool
\* they call the codec's drain() themselves
StopPool(c) ==
    /\ pc[c] = "pool"
    /\ Goto(c, IF mOutputBlockPool THEN "drain" ELSE "clear")
    /\ UNCHANGED <<execVars, queueVars, handlerVars, msgs, reply, hand,
                   localVars, clientVars, codec, ledgerVars>>

StopDrained(c) ==
    /\ pc[c] = "drain" /\ hand[c] = Null
    /\ Goto(c, "clear")
    /\ UNCHANGED <<execVars, queueVars, handlerVars, msgs, reply, hand,
                   localVars, clientVars, codec, ledgerVars>>

\* WorkQueue::clear and pending().clear(): mFlush and mGeneration stay
StopClear(c) ==
    /\ pc[c] = "clear"
    /\ TakeAll("dropped")
    /\ Goto(c, "send")
    /\ UNCHANGED <<execVars, mFlush, mGeneration, handlerVars, msgs, reply,
                   hand, localVars, clientVars, codec, acceptedIn,
                   initialised>>

ClientStep(c) ==
    \/ Push(c) \/ MarkDrain(c) \/ FlushQueue(c) \/ Send(c) \/ Answered(c)
    \/ StartCommit(c) \/ StopPool(c) \/ StopDrained(c) \/ StopClear(c)

ClientCall(c) ==
    \/ SetListener(c) \/ ClearListener(c) \/ QueueCall(c) \/ FlushCall(c)
    \/ DrainCall(c) \/ StartCall(c) \/ StopCall(c) \/ ResetCall(c)
    \/ ReleaseCall(c)

-----------------------------------------------------------------------------
(* The codec's output, on whichever thread is inside process() or drain().  *)

notCodecVars == <<execVars, mQueue, mFlush, mGeneration, handlerVars, msgs, reply,
               pc, localVars, clientVars, acceptedIn, initialised>>

MutKeepPending(w) == UNCHANGED mPendingWork
ErasePending(w) == mPendingWork' = mPendingWork \ {w}

\* the output of work h takes the pending work with h's frame index
FinishPending(t) ==
    /\ pc[t] \in {"process", "drain"} /\ hand[t] = Null
    /\ \E h \in codec, w \in mPendingWork :
          /\ FrameIndex[w] = FrameIndex[h]
          /\ codec' = codec \ {h}
          /\ ErasePending(w)
          /\ hand' = [hand EXCEPT ![t] = w]
          /\ fate' = [fate EXCEPT ![w] = "done"]
    /\ UNCHANGED notCodecVars

\* no such pending work: the output fills the work being processed, or goes
\* out in a work of the codec's own, or is dropped as an unknown frame index
FinishOther(t) ==
    /\ pc[t] \in {"process", "drain"} /\ hand[t] = Null
    /\ \E h \in codec :
          /\ \A w \in mPendingWork : FrameIndex[w] # FrameIndex[h]
          /\ codec' = codec \ {h}
    /\ hand' \in {hand, [hand EXCEPT ![t] = Fresh]}
    /\ UNCHANGED <<notCodecVars, mPendingWork, fate>>

\* listener->onWorkDone_nb, with the listener read under mExecState's lock
Deliver(t) ==
    /\ hand[t] # Null
    /\ hand' = [hand EXCEPT ![t] = Null]
    /\ UNCHANGED <<notCodecVars, mPendingWork, codec, fate>>

-----------------------------------------------------------------------------
(* The looper thread: WorkHandler::onMessageReceived and processQueue.      *)

Receive(kinds) ==
    /\ pc[Looper] = "wait" /\ msgs # <<>> /\ Head(msgs).what \in kinds
    /\ msgs' = Tail(msgs)

MutForgetReply(answer) == UNCHANGED reply
Reply(answer) ==
    reply' = [reply EXCEPT ![Head(msgs).replyTo] = answer]

\* no component yet: only who waits gets an answer
HandleUnset ==
    /\ ~mThiz
    /\ Receive(MsgKind)
    /\ \/ Head(msgs).what \in AwaitKind /\ Reply("CORRUPTED")
       \/ Head(msgs).what \notin AwaitKind /\ UNCHANGED reply
    /\ UNCHANGED <<execVars, queueVars, handlerVars, pc, hand, localVars,
                   clientVars, codec, ledgerVars>>

\* kWhatInit falls through into kWhatStart, whatever onInit returned
HandleInit ==
    /\ mThiz
    /\ Receive({"Init"})
    /\ \E answer \in {"OK", "CORRUPTED"} :
          /\ Reply(answer)
          /\ initialised' = (initialised \/ answer = "OK")
    /\ mRunning' = TRUE
    /\ UNCHANGED <<execVars, queueVars, mOutputBlockPool, pc, hand, localVars,
                   clientVars, codec, acceptedIn, fate>>

HandleStart ==
    /\ mThiz
    /\ Receive({"Start"})
    /\ mRunning' = TRUE
    /\ UNCHANGED <<execVars, queueVars, mOutputBlockPool, reply, pc, hand,
                   localVars, clientVars, codec, ledgerVars>>

\* onStop, onReset and onRelease empty the codec; kWhatStop leaves mRunning
MutStopKeepsCodec == codec' = IF Head(msgs).what = "Release" THEN {} ELSE codec
StopCodec == codec' = {}

HandleStop ==
    /\ mThiz
    /\ Receive({"Stop", "Reset", "Release"})
    /\ StopCodec
    /\ mOutputBlockPool' = FALSE
    /\ mRunning' = IF Head(msgs).what = "Stop" THEN mRunning ELSE FALSE
    /\ initialised' = IF Head(msgs).what = "Reset" THEN FALSE ELSE initialised
    /\ Reply("OK")
    /\ UNCHANGED <<execVars, queueVars, pc, hand, localVars, clientVars,
                   acceptedIn, fate>>

ProcessIgnored ==
    /\ mThiz
    /\ Receive({"Process"})
    /\ ~mRunning \/ mQueue = <<>>
    /\ UNCHANGED <<execVars, queueVars, handlerVars, reply, pc, hand,
                   localVars, clientVars, codec, ledgerVars>>

\* processQueue's first locked section
MutNothingQueued == FALSE
StillQueued == Tail(mQueue) # <<>>

PopFront ==
    /\ mThiz
    /\ Receive({"Process"})
    /\ mRunning /\ mQueue # <<>>
    /\ generation' = mGeneration
    /\ isFlushPending' = mFlush /\ mFlush' = FALSE
    /\ work' = Head(mQueue) /\ mQueue' = Tail(mQueue)
    /\ hasQueuedWork' = StillQueued
    /\ Goto(Looper, "flush")
    /\ UNCHANGED <<execVars, mPendingWork, mGeneration, handlerVars, reply,
                   hand, clientVars, codec, ledgerVars>>

At(p) == pc[Looper] = p /\ hand[Looper] = Null

MutFlushReadAgain == mFlush
FlushPopped == isFlushPending

OnFlush ==
    /\ At("flush")
    /\ codec' = IF FlushPopped /\ FlushClearsCodec THEN {} ELSE codec
    /\ Goto(Looper, "pool")
    /\ UNCHANGED <<execVars, queueVars, handlerVars, msgs, reply, hand,
                   localVars, clientVars, ledgerVars>>

\* without a pool the work is destroyed: onError_nb, but no onWorkDone_nb
FetchPool ==
    /\ At("pool")
    /\ \/ /\ mOutputBlockPool' = TRUE
          /\ Goto(Looper, IF work = Null THEN "drain" ELSE "feed")
          /\ UNCHANGED <<work, fate>>
       \/ /\ ~mOutputBlockPool
          /\ fate' = [w \in Work |-> IF w = work THEN "lost" ELSE fate[w]]
          /\ work' = Null
          /\ Goto(Looper, "end")
          /\ UNCHANGED mOutputBlockPool
    /\ UNCHANGED <<execVars, queueVars, mRunning, msgs, reply, hand,
                   generation, isFlushPending, hasQueuedWork, clientVars,
                   codec, acceptedIn, initialised>>

\* process() begins: it feeds the codec, or refuses the work
Feed ==
    /\ At("feed")
    /\ codec' \in {codec, codec \cup {work}}
    /\ Goto(Looper, "process")
    /\ UNCHANGED <<execVars, queueVars, handlerVars, msgs, reply, hand,
                   localVars, clientVars, ledgerVars>>

\* process() or drain() returns
CodecReturns ==
    /\ At("process") \/ At("drain")
    /\ Goto(Looper, IF pc[Looper] = "process" THEN "tail" ELSE "end")
    /\ UNCHANGED <<execVars, queueVars, handlerVars, msgs, reply, hand,
                   localVars, clientVars, codec, ledgerVars>>

MutAnyGeneration == TRUE
SameGeneration == generation = mGeneration

\* processQueue's last locked section; the work in hand is then delivered
LastSection ==
    /\ At("tail")
    /\ work' = Null
    /\ Goto(Looper, "end")
    /\ UNCHANGED <<execVars, mQueue, mFlush, mGeneration, handlerVars, msgs,
                   reply, generation, isFlushPending, hasQueuedWork,
                   clientVars, codec, acceptedIn, initialised>>

ReturnWork ==
    /\ LastSection
    /\ hand' = [hand EXCEPT ![Looper] = work]
    /\ fate' = [fate EXCEPT ![work] = IF SameGeneration
                                      THEN "done" ELSE "not_found"]
    /\ UNCHANGED mPendingWork

\* workletsProcessed = 0: the work waits under its frame index, and a work
\* found there is returned as C2_CORRUPTED
KeepPending ==
    /\ LastSection
    /\ SameGeneration
    /\ LET unexpected == {w \in mPendingWork : FrameIndex[w] = FrameIndex[work]}
       IN /\ mPendingWork' = (mPendingWork \ unexpected) \cup {work}
          /\ fate' = [w \in Work |-> IF w \in unexpected THEN "corrupted"
                                     ELSE fate[w]]
          /\ hand' = [hand EXCEPT ![Looper] = IF unexpected = {} THEN Null
                                        ELSE CHOOSE w \in unexpected : TRUE]

\* processQueue returns; onMessageReceived posts kWhatProcess again
EndProcess ==
    /\ At("end")
    /\ Goto(Looper, "wait")
    /\ msgs' = IF hasQueuedWork
               THEN Append(msgs, Message("Process", Looper))
               ELSE msgs
    /\ hasQueuedWork' = FALSE
    /\ work' = Null
    /\ UNCHANGED <<execVars, queueVars, handlerVars, reply, hand, generation,
                   isFlushPending, clientVars, codec, ledgerVars>>

LooperStep ==
    \/ HandleUnset \/ HandleInit \/ HandleStart \/ HandleStop
    \/ ProcessIgnored \/ PopFront \/ OnFlush \/ FetchPool \/ Feed
    \/ CodecReturns \/ ReturnWork \/ KeepPending \/ EndProcess

ThreadStep(t) == FinishPending(t) \/ FinishOther(t) \/ Deliver(t)

\* the clients have made their calls and the looper has nothing to do
Done ==
    /\ \A c \in Client : pc[c] = "idle"
    /\ pc[Looper] = "wait" /\ msgs = <<>>
    /\ UNCHANGED vars

Next ==
    \/ LooperStep \/ ThreadStep(Looper)
    \/ \E c \in Client : ClientCall(c) \/ ClientStep(c) \/ ThreadStep(c)
    \/ Done

Fairness ==
    /\ WF_vars(LooperStep \/ ThreadStep(Looper))
    /\ \A c \in Client : WF_vars(ClientStep(c) \/ ThreadStep(c))

Spec == Init /\ [][Next]_vars
FairSpec == Spec /\ Fairness

-----------------------------------------------------------------------------
(* Properties.                                                              *)

\* Every variable of the component and of its callers has its type.
ExecTypeOK ==
    execState \in ExecStates /\ mListener \in BOOLEAN /\ mThiz \in BOOLEAN
QueueTypeOK ==
    /\ mQueue \in Seq(Work \cup {Null}) /\ mPendingWork \subseteq Work
    /\ mFlush \in BOOLEAN /\ mGeneration \in Nat
HandlerTypeOK ==
    /\ mRunning \in BOOLEAN /\ mOutputBlockPool \in BOOLEAN
    /\ msgs \in Seq([what : MsgKind, replyTo : Thread])
    /\ \A i \in DOMAIN msgs :
          msgs[i].what \in AwaitKind => msgs[i].replyTo \in Client
    /\ reply \in [Client -> {"none", "OK", "CORRUPTED"}]
ThreadTypeOK ==
    /\ pc \in [Thread -> ClientPC \cup LooperPC]
    /\ pc[Looper] \in LooperPC /\ \A c \in Client : pc[c] \in ClientPC
    /\ hand \in [Thread -> Work \cup {Null, Fresh}]
LocalTypeOK ==
    /\ work \in Work \cup {Null} /\ generation \in Nat
    /\ isFlushPending \in BOOLEAN /\ hasQueuedWork \in BOOLEAN
    /\ codec \subseteq Work
ClientTypeOK ==
    /\ op \in [Client -> OpName \cup {"none"}]
    /\ items \in [Client -> Seq(Work)]
    /\ cmsg \in [Client -> MsgKind]
    /\ nextWork \in Nat \ {0} /\ nextWork <= NumWork + 1
    /\ calls \in [Client -> Nat]
LedgerTypeOK ==
    /\ acceptedIn \in [Work -> Nat] /\ fate \in [Work -> Fates]
    /\ initialised \in BOOLEAN
TypeOK ==
    /\ ExecTypeOK /\ QueueTypeOK /\ HandlerTypeOK /\ ThreadTypeOK
    /\ LocalTypeOK /\ ClientTypeOK /\ LedgerTypeOK

\* no work is twice in queue q
Once(q) == \A i, j \in DOMAIN q : q[i] = q[j] /\ q[i] # Null => i = j

\* The works the component answers for.
Held == Queued \cup mPendingWork \cup ({work} \ {Null})

\* No work is lost or given back twice: a work that queue_nb accepted is in
\* exactly one of the queue, the pending map and processQueue's hands, once,
\* until it ends in exactly one way (queue_nb, flush_sm, stop, reset, finish
\* and processQueue move it between them under two locks and no lock).
OneOwner ==
    /\ Once(mQueue)
    /\ Queued \cap mPendingWork = {} /\ work \notin Queued \cup mPendingWork
    /\ \A w \in Work :
          w \in Held <=> /\ w < nextWork /\ fate[w] = "none"
                         /\ \A c \in Client : w \notin Works(items[c])

\* A work that was in the component when flush_sm ran is never returned as
\* done by a decision taken after the flush, however the flush falls between
\* processQueue's two locked sections: only works of the present generation
\* end as done or corrupted.
NoStaleSuccess ==
    [][\A w \in Work : fate[w] = "none" /\ fate'[w] \in {"done", "corrupted"}
                       => acceptedIn[w] = mGeneration]_vars

\* flush_sm returns every work of the component except the one inside
\* processQueue, and that one is the only work of an older generation.
OneStaleWork ==
    \A w \in Held : w # work => acceptedIn[w] = mGeneration

\* A work is never fed to a codec that still holds works from before a flush:
\* mFlush, left by flush_sm on the client's thread, reaches onFlush_sm on the
\* looper thread before the first process() of the new generation.
CodecHoldsOneGeneration ==
    pc[Looper] \in {"feed", "process"} =>
        \A h \in codec : acceptedIn[h] = acceptedIn[work]

\* While the handler runs, a queue with entries always has a kWhatProcess on
\* its way: in the looper's queue, about to be posted by the client that found
\* the queue empty, or by the looper when processQueue returns.
ProcessOnItsWay ==
    \/ \E i \in DOMAIN msgs : msgs[i].what = "Process"
    \/ hasQueuedWork
    \/ \E c \in Client : pc[c] = "send" /\ cmsg[c] = "Process"
NoLostWakeup == mRunning /\ mQueue # <<>> => ProcessOnItsWay

\* When stop() or reset() has returned, the looper is idle, the queue is empty
\* and the codec holds no work, though the handler does not stop running and
\* works went on being processed during the call; at most one kWhatProcess that
\* will find nothing, and in the pending map the one work that was being
\* processed, are left.
StoppedIsQuiet ==
    execState # "RUNNING" /\ (\A c \in Client : pc[c] = "idle") =>
        /\ pc[Looper] = "wait" /\ mQueue = <<>> /\ codec = {}
        /\ Len(msgs) <= 1 /\ \A i \in DOMAIN msgs : msgs[i].what = "Process"
        /\ \A v, w \in mPendingWork : v = w

\* setListener_vb(null) without C2_MAY_BLOCK takes the listener away only when
\* no callback is under way or can still come of what was queued, so no thread
\* calls onWorkDone_nb of a null listener.
ListenerLeavesWhenQuiet ==
    [][mListener /\ ~mListener' =>
          /\ pc[Looper] = "wait" /\ mQueue = <<>>
          /\ \A t \in Thread : hand[t] = Null]_vars

\* onInit is called by start() only at the first invocation or after reset(),
\* as its declaration says: never on a component it has already initialised.
InitOncePerReset == [][HandleInit => ~initialised]_vars

\* Every call returns as long as the codec's process() and drain() do, which
\* fairness takes for granted of the thread inside them: no message that a client
\* waits for goes unanswered.  (drain(DRAIN_COMPONENT_WITH_EOS) of the decoder and
\* a drain of the encoder may not return: CallsEnd of MpiDec, README.)
CallsReturn == \A c \in Client : pc[c] # "idle" ~> pc[c] = "idle"

\* Every work in the queue leaves it, and the looper comes back for more, with
\* the same condition: as long as the codec's process() and drain() return.
QueueIsServed == \A w \in Work : w \in Queued ~> w \notin Queued

=============================================================================
