---------------------------- MODULE ComponentInv ----------------------------
(***************************************************************************)
(* The inductive invariant of C2RKComponent: what must be known of a state *)
(* for every step to keep the properties.  C2RKComponentProofs proves it,  *)
(* the runs of MCComponent check it.                                       *)
(***************************************************************************)
EXTENDS ComponentLedger

\* what processQueue's position says about its locals
PhaseOK ==
    /\ pc[Looper] \in {"feed", "process", "tail"} => work # Null
    /\ pc[Looper] \in {"wait", "drain", "end"} => work = Null
    /\ pc[Looper] = "wait" => ~hasQueuedWork

TypeInv == TypeOK /\ PhaseOK

\* the works a client is about to push are its own, once, new to the component
ItemsHeld == \A c \in Client : pc[c] # "push" => items[c] = <<>>
ItemsOnce == \A c \in Client : Once(items[c])
ItemsOwn ==
    \A c, d \in Client : c # d => Works(items[c]) \cap Works(items[d]) = {}
ItemsNew ==
    \A c \in Client : \A w \in Works(items[c]) : w < nextWork /\ fate[w] = "none"
CodecAccepted ==
    \A w \in codec : w < nextWork /\ \A c \in Client : w \notin Works(items[c])
FutureNew == \A w \in Work : w >= nextWork => fate[w] = "none"

ItemsOK ==
    /\ ItemsHeld /\ ItemsOnce /\ ItemsOwn /\ ItemsNew /\ CodecAccepted
    /\ FutureNew

OwnerInv == OneOwner /\ ItemsOK

\* queue and pending map hold works of the present generation; processQueue
\* holds one of the generation it noted, and mFlush is set from the flush that
\* made that generation old until the next pop
GenerationInv ==
    /\ OneStaleWork
    /\ work # Null => acceptedIn[work] = generation
    /\ generation <= mGeneration
    /\ generation # mGeneration => mFlush

\* the codec holds works of the generation processQueue noted last, unless it
\* is just about to be flushed
CodecInv ==
    \/ pc[Looper] = "flush" /\ isFlushPending
    \/ \A h \in codec : acceptedIn[h] = generation

\* the pending map has one work under each frame index
PendingIsMap ==
    \A v, w \in mPendingWork : FrameIndex[v] = FrameIndex[w] => v = w

\* With no reset and no release, the handler runs from the first start on.
NoTeardown == \A c \in Client : Ops[c] \cap {"reset", "release"} = {}

HandlerInv ==
    /\ \A c \in Client : cmsg[c] \notin {"Reset", "Release"}
    /\ \A i \in DOMAIN msgs : msgs[i].what \notin {"Reset", "Release"}
    /\ mRunning => mThiz
    /\ execState # "UNINITIALIZED" => mRunning
    /\ \A i \in DOMAIN msgs : msgs[i].what \in {"Stop", "Start"} => mRunning
    /\ \A c \in Client :
          /\ pc[c] \in {"push", "mark", "flush", "commit", "pool", "drain",
                        "clear"} => mRunning
          /\ pc[c] = "send" /\ cmsg[c] # "Init" => mRunning
          /\ pc[c] = "await" /\ reply[c] = "OK" => mRunning
    /\ mQueue # <<>> => mRunning /\ ProcessOnItsWay

\* Between any two locked sections of queue_nb, flush_sm, stop, finish and
\* processQueue, each work has one owner, everything outside processQueue is of
\* the present generation, mFlush announces every flush processQueue has not
\* seen, and the pending map has one work per frame index.  Every step keeps
\* this, whatever state of this shape it starts from.
InductiveInv ==
    /\ TypeInv /\ OwnerInv /\ GenerationInv /\ PendingIsMap
    /\ FlushClearsCodec => CodecInv
    /\ NoTeardown => HandlerInv

\* With one thread that calls the component, a call begins when the one before
\* it has returned.
OneCaller == \A c, d \in Client : c = d

\* stop() and reset() have cleared the queue; they wait for the looper's answer
IsCleared ==
    /\ execState # "RUNNING"
    /\ \A c \in Client : pc[c] \notin {"pool", "drain", "clear"}
WaitsForStop(c) ==
    /\ cmsg[c] \in {"Stop", "Reset"}
    /\ pc[c] = "send" \/ (pc[c] = "await" /\ reply[c] = "none")
HasAnswer(c) == pc[c] = "await" /\ reply[c] # "none"
Settled == IsCleared /\ \A c \in Client : ~WaitsForStop(c)

\* what is queued, flushed and marked finds the component running, and a
\* handler that does not know its component has done nothing
CallerInv ==
    /\ \A c \in Client :
          /\ pc[c] \in {"push", "mark", "flush"} => execState = "RUNNING"
          /\ pc[c] = "send" /\ cmsg[c] = "Process" => execState = "RUNNING"
          /\ pc[c] \in {"pool", "drain", "clear"} => cmsg[c] \in {"Stop", "Reset"}
    /\ ~mThiz => pc[Looper] = "wait" /\ codec = {}

\* the one message that is awaited is that of the call under way
IsAwaited(i) == msgs[i].what \in AwaitKind
AwaitedInv ==
    /\ \A i \in DOMAIN msgs : IsAwaited(i) =>
          \A c \in Client : /\ pc[c] = "await" /\ reply[c] = "none"
                            /\ msgs[i].what = cmsg[c]
    /\ \A i, j \in DOMAIN msgs : IsAwaited(i) /\ IsAwaited(j) => i = j

\* The queue stays empty once it is cleared; the work that was being processed
\* may still come to the pending map, and the one kWhatProcess that follows it
\* behind the message of stop() or reset().
ClearedInv == IsCleared =>
    /\ mQueue = <<>>
    /\ \A v, w \in mPendingWork : v = w
    /\ work # Null => mPendingWork = {}
    /\ \A i \in DOMAIN msgs : IsAwaited(i) =>
          /\ Len(msgs) <= i + 1
          /\ hasQueuedWork => i = Len(msgs)
          /\ \A j \in DOMAIN msgs : j > i => msgs[j].what = "Process"

\* When the looper has answered, it is idle and its codec empty.
SettledInv == Settled =>
    /\ pc[Looper] = "wait" /\ codec = {}
    /\ (\A c \in Client : pc[c] \in {"idle", "send"} \/ HasAnswer(c)) =>
          Len(msgs) <= 1 /\ \A i \in DOMAIN msgs : msgs[i].what = "Process"

QuietInv == CallerInv /\ AwaitedInv /\ ClearedInv /\ SettledInv

\* Nor is a wakeup lost by a component that is released or reset: the handler
\* begins to run with an empty queue, or at a kWhatStart behind which the
\* kWhatProcess of what is in the queue comes.
UnsetInv == ~mThiz =>
    /\ execState = "UNINITIALIZED" /\ mQueue = <<>> /\ ~mRunning
    /\ \A c \in Client : /\ reply[c] # "OK" /\ pc[c] \notin {"push", "mark", "commit"}
                         /\ pc[c] = "send" => cmsg[c] \notin {"Start", "Process"}
StartsInv ==
    \A c \in Client : pc[c] \in {"send", "await"} /\ cmsg[c] \in {"Init", "Start"}
                     => execState # "RUNNING"
PostsProcess == \E c \in Client : pc[c] = "send" /\ cmsg[c] = "Process"
BehindStart(i) ==
    \/ hasQueuedWork \/ PostsProcess
    \/ \E j \in DOMAIN msgs : j > i /\ msgs[j].what = "Process"
StartedInv ==
    \A i \in DOMAIN msgs : msgs[i].what = "Start" /\ mQueue # <<>> => BehindStart(i)

WakeInv == UnsetInv /\ StartsInv /\ StartedInv /\ NoLostWakeup

\* a thread has a work for the listener in hand only inside processQueue(), or
\* inside the drain() of stop() and reset()
HandInv ==
    /\ hand[Looper] # Null => pc[Looper] # "wait"
    /\ \A c \in Client : hand[c] # Null => pc[c] = "drain"

\* onInit has succeeded when the component is UNINITIALIZED: start() is about to
\* commit RUNNING, or reset() has still to be answered
InitSentInv ==
    \A c \in Client : pc[c] \in {"send", "await"} /\ cmsg[c] = "Init" =>
                          execState = "UNINITIALIZED" /\ op[c] = "start"
StillInitialised(c) ==
    \/ pc[c] = "commit"
    \/ HasAnswer(c) /\ reply[c] = "OK" /\ op[c] = "start"
    \/ cmsg[c] = "Reset" /\ (pc[c] \in {"pool", "drain", "clear"} \/ WaitsForStop(c))
OnceInv ==
    /\ InitSentInv
    /\ initialised => mThiz
    /\ initialised /\ execState = "UNINITIALIZED" =>
          \A c \in Client : StillInitialised(c)

=============================================================================
