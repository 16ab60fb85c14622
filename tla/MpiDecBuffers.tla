--------------------------- MODULE MpiDecBuffers ---------------------------
(***************************************************************************)
(* The decoder's output buffers when it decodes to a surface               *)
(* (component/mpi/C2RKMpiDec.cpp, include/C2RKMpiDec.h): mOutBuffers, the  *)
(* table of slots the decoder has given to MPP or taken back with a frame  *)
(* in it.  A block goes around: the surface's queue gives a free slot,     *)
(* ensureDecoderState() imports it into MPP's buffer group or puts it back *)
(* there, MPP decodes into it, getoutframe() takes the frame, finishWork() *)
(* gives the block to the client, who shows it and frees the slot.         *)
(*                                                                         *)
(* process() and drain() both repeat: ensureDecoderState, getoutframe,     *)
(* finishWork; that loop is what a thread does here.  The looper also      *)
(* flushes.  The thread inside stop() drains too, beside the looper.       *)
(*                                                                         *)
(* MPP (external) counts references to a buffer: one for each frame it has *)
(* decoded, one while the buffer is a reference picture, one for C2 after  *)
(* mpp_buffer_inc_ref.  A buffer without references is on the group's      *)
(* unused list, and MPP decodes into the head of that list.                *)
(***************************************************************************)
EXTENDS Integers, Sequences, FiniteSets, FiniteSetsExt

CONSTANTS
    Looper,                     \* the thread that processes and flushes
    Drainer,                    \* threads inside stop() or reset(): drain()
    Slot,                       \* slots of the surface's buffer queue
    Buf,                        \* MppBuffer handles, numbers
    NoOne,                      \* nobody holds mPoolMutex
    None,                       \* no buffer, no block
    Info,                       \* a frame that announces a new resolution
    kMaxReferenceCount,
    kMaxGegerationClearCount,   \* sic
    Word,                       \* 2^32: the number of values of a uint32_t
    MaxHeld,                    \* bound: reference pictures MPP keeps
    MaxSurface,                 \* bound: surfaces set one after the other
    MaxInfo,                    \* bound: changes of resolution
    MaxFlush                    \* bound: flushes

Thread == {Looper} \cup Drainer
Generation == 1 .. MaxSurface
Block == [slot : Slot, generation : Generation]

ASSUME BuffersAssumption ==
    /\ Looper \notin Drainer /\ NoOne \notin Thread
    /\ Buf \subseteq Nat /\ None \notin Buf \cup Block /\ Info \notin Buf
    /\ kMaxReferenceCount \in Nat \ {0}
    /\ kMaxGegerationClearCount \in Nat
    /\ Word \in Nat /\ kMaxReferenceCount < Word
    /\ MaxSurface \in Nat \ {0}

OutBuffer == [index : Slot, generation : Generation, mppBuffer : Buf,
              site : {"MPI", "C2"}]

VARIABLES
    mOutBuffers,            \* the table, a sequence of OutBuffer
    mGeneration,            \* generation of the last block, 0: none
    mGenerationChange,      \* blocks of an older generation may be left
    mGenerationCount,       \* commits of this generation
    mPoolMutex,             \* the thread that holds it
    pc,                     \* where each thread is
    left,                   \* left[t]: turns of ensureDecoderState's loop
    frame,                  \* frame[t]: the buffer of the frame in hand
    outblock,               \* outblock[t]: the block finishWork will give
    ref,                    \* MPP: ref[b], references to b
    group,                  \* MPP: the buffers in mFrmGrp
    unused,                 \* MPP: buffers it may decode into, first first
    frames,                 \* MPP: frames decoded and not yet taken
    held,                   \* MPP: reference pictures
    waiting,                \* MPP waits for MPP_DEC_SET_INFO_CHANGE_READY
    memory,                 \* memory[b]: the block whose memory b is
    surface,                \* generation of the current surface
    free,                   \* slots the surface's queue can give
    shown,                  \* blocks the client has
    current,                \* blocks given out since the last flush began
    infos, flushes,         \* how many so far
    keptOver                \* history: buffers that held a reference picture
                            \* when a block of a newer surface was committed

decVars == <<mOutBuffers, mGeneration, mGenerationChange, mGenerationCount>>
threadVars == <<pc, left, frame, outblock>>
mppVars == <<ref, group, unused, frames, held, waiting, memory>>
clientVars == <<surface, free, shown, current>>
history == <<infos, flushes, keptOver>>
vars == <<decVars, mPoolMutex, threadVars, mppVars, clientVars, history>>

Elements(s) == {s[i] : i \in DOMAIN s}
Goto(t, place) == pc' = [pc EXCEPT ![t] = place]

Init ==
    /\ mOutBuffers = <<>> /\ mGeneration = 0
    /\ mGenerationChange = FALSE /\ mGenerationCount = 0
    /\ mPoolMutex = NoOne
    /\ pc = [t \in Thread |-> "idle"] /\ left = [t \in Thread |-> 0]
    /\ frame = [t \in Thread |-> None] /\ outblock = [t \in Thread |-> None]
    /\ ref = [b \in Buf |-> 0] /\ group = {} /\ unused = <<>>
    /\ frames = <<>> /\ held = {} /\ waiting = FALSE
    /\ memory = [b \in Buf |-> None]
    /\ surface = 1 /\ free = Slot /\ shown = {} /\ current = {}
    /\ infos = 0 /\ flushes = 0 /\ keptOver = {}

(***************************************************************************)
(* The buffer group (external): mpp_buffer_put and what follows from it.   *)
(***************************************************************************)

\* One reference less for each buffer at a place of s, which has no buffer
\* twice: those left with none go to the tail of the unused list, in order.
Put(s, places) ==
    LET puts == {s[i] : i \in places}
        freed == {i \in places : ref[s[i]] = 1 /\ s[i] \in group}
    IN /\ ref' = [b \in Buf |-> IF b \in puts THEN ref[b] - 1 ELSE ref[b]]
       /\ \E order \in [1 .. Cardinality(freed) -> freed] :
             /\ \A i, j \in DOMAIN order : i < j => order[i] < order[j]
             /\ unused' = unused \o [i \in DOMAIN order |-> s[order[i]]]
       /\ memory' = [b \in Buf |-> IF ref'[b] <= 0 /\ b \notin group
                                    THEN None ELSE memory[b]]

PutOne(b) == Put(<<b>>, {1})

\* mpp_buffer_group_clear: unused buffers are released now, the others when
\* their last reference goes.
GroupClear ==
    /\ group' = {}
    /\ unused' = <<>>
    /\ memory' = [b \in Buf |-> IF ref[b] = 0 THEN None ELSE memory[b]]

\* Handles no buffer has; which of them the next buffer gets is immaterial.
Unborn == {b \in Buf : memory[b] = None /\ ref[b] = 0}

-----------------------------------------------------------------------------
(***************************************************************************)
(* The operations on mOutBuffers.                                          *)
(***************************************************************************)

First(places) == IF places = {} THEN 0 ELSE Min(places)

\* The place of the first entry for a slot, or for an MppBuffer, or 0.
FindIndex(s, slot) == First({i \in DOMAIN s : s[i].index = slot})
FindBuffer(s, b) == First({i \in DOMAIN s : s[i].mppBuffer = b})

OwnedByMpi(s) == Cardinality({i \in DOMAIN s : s[i].site = "MPI"})

\* clearOutBuffers puts every buffer C2 has.  The blocks MPP had are dropped
\* and their slots go back to the surface's queue.  The loop holds no lock; here
\* it is one step, right only where no two threads clear at once: in the code a
\* drain of stop() and the looper may put one reference twice.
MutPutAll(s) == DOMAIN s
PutOnClear(s) == {i \in DOMAIN s : s[i].site # "MPI"}

ClearOutBuffers ==
    LET kept == {e \in Elements(mOutBuffers) : e.site = "MPI"}
    IN /\ Put([i \in DOMAIN mOutBuffers |-> mOutBuffers[i].mppBuffer],
              PutOnClear(mOutBuffers))
       /\ free' = free \cup {e.index : e \in {x \in kept :
                                                x.generation = surface}}
       /\ mOutBuffers' = <<>>

\* clearOldGenerationOutBuffers deletes from the front, and puts nothing.
ClearOldGeneration(s, generation) ==
    LET i == First({j \in DOMAIN s : s[j].generation = generation})
    IN IF i = 0 THEN <<>> ELSE SubSeq(s, i, Len(s))

-----------------------------------------------------------------------------
(***************************************************************************)
(* ensureDecoderState: give MPP blocks until it has kMaxReferenceCount.    *)
(***************************************************************************)

Idle(t) == pc[t] = "idle"

Begin(t) ==
    /\ Idle(t)
    /\ Goto(t, "ensure")
    /\ UNCHANGED <<decVars, mPoolMutex, left, frame, outblock, mppVars,
                   clientVars, history>>

\* count = kMaxReferenceCount - getOutBufferCountOwnByMpi(), unsigned.
MutMissing(s) == kMaxReferenceCount
Missing(s) == (kMaxReferenceCount - OwnedByMpi(s)) % Word

EnsureBegin(t) ==
    /\ pc[t] = "ensure"
    /\ mPoolMutex = NoOne
    /\ mPoolMutex' = t
    /\ left' = [left EXCEPT ![t] = Missing(mOutBuffers)]
    /\ Goto(t, "fetch")
    /\ UNCHANGED <<decVars, frame, outblock, mppVars, clientVars, history>>

\* An existing entry of this generation goes back to MPP.
CommitAgain(s, i) ==
    /\ mOutBuffers' = [s EXCEPT ![i].site = "MPI"]
    /\ PutOne(s[i].mppBuffer)
    /\ UNCHANGED group

\* A block seen for the first time is imported into the group, unused.
Import(s, slot) ==
    \E b \in {x \in Unborn : \A y \in Unborn : x <= y} :
        /\ mOutBuffers' = Append(s, [index |-> slot, generation |-> surface,
                                     mppBuffer |-> b, site |-> "MPI"])
        /\ group' = group \cup {b}
        /\ unused' = Append(unused, b)
        /\ memory' = [memory EXCEPT ![b] = [slot |-> slot,
                                            generation |-> surface]]
        /\ UNCHANGED ref

\* A wrong SameGeneration: a slot is taken for the one of the last surface.
MutSameGeneration(s, i) == i # 0
SameGeneration(s, i) == i # 0 /\ s[i].generation = surface

MutMayClearOld(count, change) == change
MayClearOld(count, change) == count > kMaxGegerationClearCount /\ change

\* commitBufferToMpp.  The count is only compared with the clear count, so
\* it stops one above it.
Commit(slot) ==
    LET change == mGenerationChange \/ mGeneration \notin {0, surface}
        count == IF mGeneration # surface THEN 1
                 ELSE IF mGenerationCount > kMaxGegerationClearCount
                      THEN mGenerationCount ELSE mGenerationCount + 1
        clear == MayClearOld(count, change)
        s == IF clear THEN ClearOldGeneration(mOutBuffers, surface)
                      ELSE mOutBuffers
        i == FindIndex(s, slot)
    IN /\ mGeneration' = surface
       /\ mGenerationCount' = count
       /\ mGenerationChange' = (change /\ ~clear)
       /\ \/ SameGeneration(s, i) /\ CommitAgain(s, i)
          \/ ~SameGeneration(s, i) /\ Import(s, slot)

OfOlderSurface(block) == block # None /\ block.generation # surface

\* One turn of the loop; it blocks while the queue has no free slot.
Fetch(t) ==
    /\ pc[t] = "fetch" /\ left[t] > 0
    /\ \E slot \in free : free' = free \ {slot} /\ Commit(slot)
    /\ left' = [left EXCEPT ![t] = @ - 1]
    /\ keptOver' = {b \in keptOver \cup held : OfOlderSurface(memory'[b])}
    /\ UNCHANGED <<mPoolMutex, pc, frame, outblock, frames, held, waiting,
                   surface, shown, current, infos, flushes>>

Leave(t) ==
    /\ mPoolMutex' = IF mPoolMutex = t THEN NoOne ELSE mPoolMutex
    /\ left' = [left EXCEPT ![t] = 0]
    /\ UNCHANGED <<decVars, frame, outblock, mppVars, clientVars, history>>

EnsureEnd(t) ==
    /\ pc[t] = "fetch" /\ left[t] = 0
    /\ Leave(t)
    /\ Goto(t, "get")

\* The pool reports an error: process() may give up, drain() goes on.
FetchFails(t) ==
    /\ pc[t] = "fetch" /\ left[t] > 0
    /\ Leave(t)
    /\ \E place \in {"get", "idle"} : Goto(t, place)

-----------------------------------------------------------------------------
(***************************************************************************)
(* getoutframe and finishWork.                                             *)
(***************************************************************************)

NoFrame(t) ==
    /\ pc[t] = "get" /\ frames = <<>>
    /\ Goto(t, "idle")
    /\ UNCHANGED <<decVars, mPoolMutex, left, frame, outblock, mppVars,
                   clientVars, history>>

\* decode_get_frame: the frame's reference passes to the caller.
GetFrame(t) ==
    /\ pc[t] = "get" /\ frames # <<>>
    /\ frames' = Tail(frames)
    /\ IF Head(frames) = Info
       THEN Goto(t, "clear") /\ UNCHANGED frame
       ELSE Goto(t, "find") /\ frame' = [frame EXCEPT ![t] = Head(frames)]
    /\ UNCHANGED <<decVars, mPoolMutex, left, outblock, ref, group, unused,
                   held, waiting, memory, clientVars, history>>

Found(t) == FindBuffer(mOutBuffers, frame[t])

\* A wrong TakeBlock: the block is forgotten.
MutTakeNoBlock(t) ==
    /\ pc[t] = "find" /\ Found(t) # 0
    /\ mOutBuffers' = [mOutBuffers EXCEPT ![Found(t)].site = "C2"]
    /\ frame' = [frame EXCEPT ![t] = None]
    /\ Goto(t, "finish")
    /\ UNCHANGED <<mGeneration, mGenerationChange, mGenerationCount,
                   mPoolMutex, left, outblock, mppVars, clientVars, history>>

\* mpp_buffer_inc_ref adds C2's reference, mpp_frame_deinit drops the
\* frame's.
TakeBlock(t) ==
    LET e == mOutBuffers[Found(t)] IN
    /\ pc[t] = "find" /\ Found(t) # 0
    /\ mOutBuffers' = [mOutBuffers EXCEPT ![Found(t)].site = "C2"]
    /\ outblock' = [outblock EXCEPT ![t] = [slot |-> e.index,
                                            generation |-> e.generation]]
    /\ frame' = [frame EXCEPT ![t] = None]
    /\ Goto(t, "finish")
    /\ UNCHANGED <<mGeneration, mGenerationChange, mGenerationCount,
                   mPoolMutex, left, mppVars, clientVars, history>>

\* An unknown buffer: the frame is dropped and the next one is tried.
DropFrame(t) ==
    /\ pc[t] = "find" /\ Found(t) = 0
    /\ PutOne(frame[t])
    /\ frame' = [frame EXCEPT ![t] = None]
    /\ Goto(t, "get")
    /\ UNCHANGED <<decVars, mPoolMutex, left, outblock, group, frames, held,
                   waiting, clientVars, history>>

FinishWork(t) ==
    /\ pc[t] = "finish"
    /\ shown' = shown \cup {outblock[t]}
    /\ current' = current \cup {outblock[t]}
    /\ outblock' = [outblock EXCEPT ![t] = None]
    /\ Goto(t, "ensure")
    /\ UNCHANGED <<decVars, mPoolMutex, left, frame, mppVars, surface, free,
                   history>>

\* A change of resolution: MPP waits until the old buffers are gone.
InfoChangeClear(t) ==
    /\ pc[t] = "clear"
    /\ ClearOutBuffers
    /\ Goto(t, "ready")
    /\ UNCHANGED <<mGeneration, mGenerationChange, mGenerationCount,
                   mPoolMutex, left, frame, outblock, group, frames, held,
                   waiting, surface, shown, current, history>>

\* A wrong InfoChangeReady: the group keeps the old buffers.
MutInfoChangeReady(t) ==
    /\ pc[t] = "ready"
    /\ waiting' = FALSE
    /\ Goto(t, "ensure")
    /\ UNCHANGED <<decVars, mPoolMutex, left, frame, outblock, ref, group,
                   unused, memory, frames, held, clientVars, history>>

\* mpp_buffer_group_clear and MPP_DEC_SET_INFO_CHANGE_READY; if MPP refuses
\* the caller gives up.
InfoChangeReady(t) ==
    /\ pc[t] = "ready"
    /\ GroupClear
    /\ \/ waiting' = FALSE /\ Goto(t, "ensure")
       \/ UNCHANGED waiting /\ Goto(t, "idle")
    /\ UNCHANGED <<decVars, mPoolMutex, left, frame, outblock, ref, frames,
                   held, clientVars, history>>

-----------------------------------------------------------------------------
(***************************************************************************)
(* onFlush_sm, on the looper.  MPP's own thread runs until the reset.      *)
(***************************************************************************)

FlushClear ==
    /\ Idle(Looper) /\ flushes < MaxFlush
    /\ mGeneration' = 0
    /\ ClearOutBuffers
    /\ current' = {}
    /\ flushes' = flushes + 1
    /\ Goto(Looper, "flush group")
    /\ UNCHANGED <<mGenerationChange, mGenerationCount, mPoolMutex, left,
                   frame, outblock, group, frames, held, waiting, surface,
                   shown, infos, keptOver>>

FlushGroup ==
    /\ pc[Looper] = "flush group"
    /\ GroupClear
    /\ Goto(Looper, "flush reset")
    /\ UNCHANGED <<decVars, mPoolMutex, left, frame, outblock, ref, frames,
                   held, waiting, clientVars, history>>

\* A wrong FlushReset: MPP is not reset.
MutFlushReset ==
    /\ pc[Looper] = "flush reset"
    /\ Goto(Looper, "idle")
    /\ UNCHANGED <<decVars, mPoolMutex, left, frame, outblock, mppVars,
                   clientVars, history>>

\* reset (external) discards all frames and reference pictures.
FlushReset ==
    /\ pc[Looper] = "flush reset"
    /\ LET Lost(b) == Cardinality({i \in DOMAIN frames : frames[i] = b})
                      + (IF b \in held THEN 1 ELSE 0)
       IN ref' = [b \in Buf |-> ref[b] - Lost(b)]
    /\ memory' = [b \in Buf |-> IF ref'[b] = 0 /\ b \notin group THEN None
                                                               ELSE memory[b]]
    /\ LET freed == {b \in group : ref[b] > 0 /\ ref'[b] = 0}
       IN \E order \in [1 .. Cardinality(freed) -> freed] :
             /\ \A i, j \in DOMAIN order : order[i] = order[j] => i = j
             /\ unused' = unused \o order
    /\ frames' = <<>> /\ held' = {} /\ waiting' = FALSE
    /\ Goto(Looper, "idle")
    /\ UNCHANGED <<decVars, mPoolMutex, left, frame, outblock, group,
                   clientVars, history>>

-----------------------------------------------------------------------------
(***************************************************************************)
(* MPP's decoding thread, the surface and its client (external).           *)
(***************************************************************************)

\* A picture is decoded into the first unused buffer and may stay as a
\* reference picture.
MppDecode ==
    /\ ~waiting /\ unused # <<>>
    /\ LET b == Head(unused) IN
       /\ frames' = Append(frames, b)
       /\ \/ /\ ref' = [ref EXCEPT ![b] = 1]
             /\ UNCHANGED held
          \/ /\ Cardinality(held) < MaxHeld
             /\ ref' = [ref EXCEPT ![b] = 2]
             /\ held' = held \cup {b}
    /\ unused' = Tail(unused)
    /\ UNCHANGED <<decVars, mPoolMutex, threadVars, group, waiting, memory,
                   clientVars, history>>

MppRelease ==
    /\ \E b \in held : held' = held \ {b} /\ PutOne(b)
    /\ UNCHANGED <<decVars, mPoolMutex, threadVars, group, frames, waiting,
                   clientVars, history>>

MppInfoChange ==
    /\ ~waiting /\ held = {} /\ infos < MaxInfo
    /\ waiting' = TRUE
    /\ frames' = Append(frames, Info)
    /\ infos' = infos + 1
    /\ UNCHANGED <<decVars, mPoolMutex, threadVars, ref, group, unused, held,
                   memory, clientVars, flushes, keptOver>>

\* The client has shown or dropped a block; the slot of an older surface is
\* gone with it.
ClientReturns ==
    /\ \E k \in shown :
          /\ shown' = shown \ {k}
          /\ current' = current \ {k}
          /\ free' = free \cup IF k.generation = surface THEN {k.slot} ELSE {}
    /\ UNCHANGED <<decVars, mPoolMutex, threadVars, mppVars, surface, history>>

\* A new surface has a queue of its own.
NewSurface ==
    /\ surface < MaxSurface
    /\ surface' = surface + 1
    /\ free' = Slot
    /\ UNCHANGED <<decVars, mPoolMutex, threadVars, mppVars, shown, current,
                   history>>

-----------------------------------------------------------------------------
InCall(t) ==
    \/ EnsureBegin(t) \/ Fetch(t) \/ EnsureEnd(t)
    \/ NoFrame(t) \/ GetFrame(t) \/ TakeBlock(t) \/ DropFrame(t)
    \/ FinishWork(t) \/ InfoChangeClear(t) \/ InfoChangeReady(t)

ThreadNext(t) == Begin(t) \/ InCall(t) \/ FetchFails(t)

FlushNext == FlushClear \/ FlushGroup \/ FlushReset

EnvironmentNext ==
    \/ MppDecode \/ MppRelease \/ MppInfoChange \/ ClientReturns \/ NewSurface

Next == (\E t \in Thread : ThreadNext(t)) \/ FlushNext \/ EnvironmentNext

Spec == Init /\ [][Next]_vars

\* The threads go on inside a call, the client gives blocks back.  Nobody may
\* count on the pool's errors.
FairSpec ==
    /\ Spec
    /\ \A t \in Thread : WF_vars(InCall(t))
    /\ WF_vars(FlushGroup \/ FlushReset)
    /\ WF_vars(ClientReturns)

-----------------------------------------------------------------------------
(***************************************************************************)
(* Properties.                                                             *)
(***************************************************************************)

\* The values of the variables.
TypeOK ==
    /\ mOutBuffers \in Seq(OutBuffer)
    /\ mGeneration \in Generation \cup {0}
    /\ mGenerationChange \in BOOLEAN /\ mGenerationCount \in Nat
    /\ mPoolMutex \in Thread \cup {NoOne}
    /\ pc \in [Thread -> {"idle", "ensure", "fetch", "get", "find", "finish",
                          "clear", "ready", "flush group", "flush reset"}]
    /\ left \in [Thread -> Nat]
    /\ frame \in [Thread -> Buf \cup {None}]
    /\ outblock \in [Thread -> Block \cup {None}]
    /\ ref \in [Buf -> Int] /\ group \subseteq Buf
    /\ unused \in Seq(Buf) /\ frames \in Seq(Buf \cup {Info})
    /\ held \subseteq Buf /\ waiting \in BOOLEAN
    /\ memory \in [Buf -> Block \cup {None}]
    /\ surface \in Generation /\ free \subseteq Slot
    /\ shown \subseteq Block /\ current \subseteq shown
    /\ infos \in Nat /\ flushes \in Nat /\ keptOver \subseteq Buf

\* MPP never has more than kMaxReferenceCount buffers of ours, so the
\* unsigned difference in ensureDecoderState does not wrap, also when stop()
\* drains beside the looper (each use of the table being one step).
OwnedAtMostMax == OwnedByMpi(mOutBuffers) <= kMaxReferenceCount

MppRefs(b) == Cardinality({i \in DOMAIN frames : frames[i] = b})
              + Cardinality({t \in Thread : frame[t] = b})
              + (IF b \in held THEN 1 ELSE 0)
C2Refs(b) == Cardinality({i \in DOMAIN mOutBuffers :
                            /\ mOutBuffers[i].mppBuffer = b
                            /\ mOutBuffers[i].site = "C2"})

\* Every holder of a buffer has a reference of its own: no mpp_buffer_put
\* takes a reference that belongs to MPP or to a frame in hand.  That is for the
\* looper alone; see ClearOutBuffers.
RefsCovered == \A b \in Buf : ref[b] >= MppRefs(b) + C2Refs(b)

\* MPP may decode into a buffer that is unused, unless it waits.
Writable == IF waiting THEN {} ELSE {memory[b] : b \in Elements(unused)}

\* MPP cannot decode into a block the client was given since the last flush,
\* nor into one about to be given.
NotOverwritten ==
    /\ Writable \cap current = {}
    /\ \A t \in Thread : outblock[t] \notin Writable

\* MPP never has the memory of one block under two buffers.
OneBufferPerBlock ==
    LET has == Elements(unused) \cup held \cup (Elements(frames) \ {Info})
    IN \A a, b \in has : memory[a] = memory[b] => a = b

\* getoutframe() finds the buffer of every frame, so it drops none, although
\* commitBufferToMpp() forgets older buffers that MPP may still have.  Not for a
\* buffer in which MPP still kept a reference picture when the first block of a
\* newer surface came: no clear count is high enough for that.
FrameFound ==
    \A t \in Thread : pc[t] = "find" /\ frame[t] \notin keptOver => Found(t) # 0

\* A thread that waits for slots in ensureDecoderState() gets them.
EnsureReturns == \A t \in Thread : pc[t] = "fetch" ~> pc[t] # "fetch"
=============================================================================
