# Verification of the Rockchip Codec2 components

This directory holds TLA+ models of the Codec2 components in this repository,
the TLC configurations that check them on small instances, and proofs, checked
by the TLA+ proof system, of what holds for every size. Paths below are
relative to the repository.

## 1. The system

A Codec2 service process (`services/vendor.cpp`) publishes a component store
(`services/C2RKComponentStore.cpp`). For each codec name the store loads a
factory (`component/C2RKComponentFactory.cpp`) that makes a decoder or an
encoder. Both derive from `C2RKComponent`, which owns the threads, queues and
life cycle, and drive the vendor library MPP through `MppApi`.

| Component | State it keeps | Operations | Talks to |
|---|---|---|---|
| Component base (`component/base/C2RKComponent.cpp`) | `mExecState` (state, listener), `mWorkQueue` (queue, pending map, flush flag, generation), `WorkHandler` (`mThiz`, `mRunning`), `mOutputBlockPool`, the looper's messages | `setListener_vb`, `queue_nb`, `flush_sm`, `drain_nb`, `start`, `stop`, `reset`, `release`; `onMessageReceived`, `processQueue`, `finish` | clients (listener callbacks), the codec (virtual functions) |
| Decoder (`component/mpi/C2RKMpiDec.cpp`) | started/flushed/EOS/error flags, size and stride, output buffer slots and their generation, the block being output | `onInit`, `onStop`, `onReset`, `onRelease`, `onFlush_sm`, `process`, `drain`, and the helpers that feed MPP, take frames and give MPP buffers | the base class (`finish`), MPP, block pool |
| Encoder (`component/mpi/C2RKMpiEnc.cpp`) | started/EOS flags, frame counters, spare block, DMA buffer, per-session configuration | same virtual functions; configuration of rate control, QP, temporal layers | base class, MPP, RGA |
| MLVEC layer (`C2RKMlvecLegacy.cpp`) | encoder handle, layer configuration | configuration calls | encoder library |
| Codec mapper (`C2RKCodecMapper.cpp`), interface (`C2RKInterface.cpp`, `C2RKExtendParam.cpp`) | tables, parameter declarations | look-ups | framework |
| Store (`services/C2RKComponentStore.cpp`) | weak singletons, allocator map, block pool cache, weak component modules | create component, fetch allocator, create pool, load and unload modules | framework, `dlopen`ed codec library |
| Platform helpers (`osal/`) | chip and environment look-ups | alignments, FBC offsets, colour tables | kernel, properties |

### What is hard

* *Two mutexes, never held together.* `mExecState` and `mWorkQueue` are taken
  one after the other, so every public call is two or three separate steps
  that other threads come between.
* *Wakeups.* The looper runs only when somebody posts `kWhatProcess`; who
  posts is decided under the lock and done after it.
* *Generations.* `flush_sm` runs on a client's thread while `processQueue`
  has a work in hand; `mGeneration` and `mFlush` are all that tells the looper.
* *Ownership.* A work moves between queue, pending map, `processQueue`'s local
  and the listener; outputs arrive in any order and for any pending work.
* *Teardown.* `stop` and `reset` call the codec's `drain` on the client's
  thread, concurrently with the looper, then wait for the looper's answer.
* *The decoder's buffers.* Slots are shared with MPP, and a change of
  resolution makes a new generation of them while old ones are out.

`PROJECT.json` lists each hazard at its line with the property that covers it.

## 2. Modules

| Module | What it is |
|---|---|
| `C2RKComponent` | the component base class: clients, looper, locks, queues, messages |
| `WorkLedger` | abstract specification: what a component promises about works |
| `ComponentLedger` | the refinement mapping from the first to the second |
| `ComponentInv` | the inductive invariant |
| `ComponentTypeProofs`, `ComponentOwnerProofs`, `C2RKComponentProofs` | proofs |
| `MpiDecBuffers` | the decoder's output buffers when it decodes to a surface: who owns a block |
| `MpiDecBuffersProofs` | proofs about its references, its blocks and what MPP may decode into |
| `MpiDec` | the decoder's session: `process`, `drain`, flush, release over MPP's packet and frame queues |
| `MpiEnc` | the encoder's session: frames in, packets out, end of stream, sync frames, `stop` beside it |
| `MpiDecProofs`, `MpiEncProofs` | proofs about the two sessions |
| `C2RKComponentStore` | allocator stores, block pools and component modules under several binder threads |
| `C2RKComponentStoreProofs` | proofs of its five safety properties |
| `Configuration` | one component from its name to its session: composes the next three |
| `ComponentTable` | names, the factory, the parameters of every component |
| `EncConfig` | what the encoder tells MPP: `initEncoder`, the bitrate, the description of each input |
| `DecConfig` | what the decoder asks of MPP and gralloc: `initDecoder`, geometry of blocks, info changes, colour aspects |
| `EncParams`, `DecParams`, `ColorAspects` | the codecs' parameters, setters and dependencies |
| `CodecTables`, `TemporalLayers`, `Platform` | tables and functions: profiles and levels, reference structures, the device |
| `ConfigurationProofs` | proofs about colour aspects, bitrate, description of inputs, temporal layers, level and the geometry of blocks |
| `MCComponent`, `MCBuffers`, `MCConfiguration` | instances for TLC; `MpiDec`, `MpiEnc` and `C2RKComponentStore` are instantiated by their configurations alone |

How they compose: `Configuration` makes a decoder or an encoder from a name and
a device and runs its half; both halves read `Platform`. `C2RKComponent` has an
abstract codec, of which `MpiDec` and `MpiEnc` are the two there are: the calls
that come from its looper and from `stop` are theirs. They are checked apart,
because the product is out of reach; what passes between them is the return of
works, which `WorkLedger` states.

### C2RKComponent

The state is the code's state under the code's names, plus the program counter
`pc[t]` of each client and of the looper, the work `hand[t]` a thread has taken
and not yet given to the listener, and history variables (`acceptedIn`, `fate`,
`initialised`) that only properties read.

Each locked section is one action. A call that takes the state lock, drops it,
takes the queue lock and then posts is three actions: for `queue_nb`,
`QueueCall` (state check), `Push` (queue section), `Send` (post). `flush_sm` is
`FlushCall` and `FlushQueue`; `drain_nb` is `DrainCall`, `MarkDrain`, `Send`;
`start` is `StartCall`, `Send`, `Answered`, `StartCommit`; `stop` and `reset`
are `StopCall`/`ResetCall`, `StopPool`, `StopDrained`, `StopClear`, `Send`,
`Answered`. `onMessageReceived` is `HandleUnset`, `HandleInit`, `HandleStart`,
`HandleStop` and the process message; `processQueue` is `PopFront`, `OnFlush`,
`FetchPool`, `Feed`, `CodecReturns`, `ReturnWork`/`KeepPending`, `EndProcess`.

A queue entry is a work number, or `Null` for a drain mark. The codec behind the
virtual functions is abstract: a set of works it was fed. Whenever a thread is
inside `process()` or `drain()` it may give output for any of them through
`finish()`: for the pending work with that frame index (`FinishPending`) or, if
there is none, in a work of its own or not at all (`FinishOther`).
`FlushClearsCodec` tells the decoder, whose `onFlush_sm` resets MPP, from the
encoder, whose `onFlush_sm` does nothing. The drain mode, configuration updates
and buffers are data no property looks at.

### MpiDecBuffers

`mOutBuffers` is the sequence of entries the code keeps, searched from the
front (`FindIndex`, `FindBuffer`) as `findOutBuffer` does. A thread repeats what
the loops of `process` and `drainInternal` repeat: `ensureDecoderState`
(`EnsureBegin` takes `mPoolMutex` and computes the unsigned count; one `Fetch`
for each turn, with `commitBufferToMpp` in `Commit`; `EnsureEnd`, `FetchFails`),
`getoutframe` (`NoFrame`, `GetFrame`, then `TakeBlock` or `DropFrame` for a
frame and `InfoChangeClear`, `InfoChangeReady` for a change of resolution), and
`finishWork`. `onFlush_sm` is `FlushClear`, `FlushGroup`, `FlushReset`: MPP's
thread runs between them. `mGenerationCount` is only compared with
`kMaxGegerationClearCount`, so the model stops counting one above it.

MPP, the surface and the client are external, and the assumptions on them are
in `MppDecode`, `MppRelease`, `MppInfoChange`, `Put`, `GroupClear`,
`FlushReset`, `ClientReturns`, `NewSurface`: buffers are reference counted, one
without references goes to the tail of its group's list of unused buffers and
MPP decodes into the head; MPP announces a new resolution when it keeps no
reference picture and then waits for `MPP_DEC_SET_INFO_CHANGE_READY`; a new
surface has a queue and a generation of its own. An access to `mOutBuffers` is
atomic here, and so is the loop of puts and deletes in `clearOutBuffers`; in the
code, outside `mPoolMutex`, they are a data race when `stop` drains beside the
looper, and two clears at once may put one reference twice. That is listed as a
hazard, and what is said of references is said for the looper alone.

### MpiDec

Here the buffers are out of sight and a frame is the timestamp of its packet.
The program counter follows the labels of `process`: `EnsureFirst`, `inPacket`
(`SendPacket`, `SendTimesOut`), `outframe` (`GetPicture`, `GetInfo` and `Config`,
`NoPicture`), `Finish`, and for the end of stream the loop of `drainInternal`
(`Drain...`), which `drain()` also runs, on the looper or inside `stop`.
`outcome[w]` is what `process` makes of work `w`: `done` and `corrupted` set
`workletsProcessed`, `bad_value` and `unsent` leave it 0, `cut` is a work with
the end of stream that is returned as done though its packet was never sent.
MPP decodes packets in order and gives frames in order; it may say that the
resolution changes and waits. The waits of `sendpacket`, `getoutframe` and
`drainInternal` are bounded in time: `prompt` says that MPP does all it can
before one times out, otherwise they may time out at once. `MayFail` lists the
calls that may fail. A picture that cannot be copied (buffer mode) is an error in
`process` (`GetFails`); `drainInternal` ignores it, and the frame is lost
(`DrainCopyFails`, `lost`). `raced` and `drained` remember whether a drain of
`stop` or `reset` overlapped the last flush, or came after it. A drain before the first work calls MPP through a null
pointer and is left out.

### MpiEnc

A frame is the index of its work. `Prepare` to `After` follow `process`:
`initEncoder` and the request for the headers, the buffer of the input, the
layer and sync requests (read, unset and forced under separate locks: `SendFrame`, `ClearSync`, `ForceIdr`),
`encode_put_frame` and `mInputCount`, then `encode_get_packet`,
`mOutputCount` and `finishWork`. A work the session cannot take (`InitFails`, an
error before) is refused; when `initEncoder` cannot allocate its temporary buffer
it returns `C2_OK` all the same (`C2RKMpiEnc.cpp:1703-1710`), and the work goes on
without an MPP context until `encode_put_frame` fails (`AllocFails`): its codec data
then count as sent. Before MPP's table has been fetched once (`mMppMpi`), that is a
call through a null pointer and left out. MPP is set to block (`MPP_POLL_BLOCK`), so the
packet is waited for. `Drain` and `Stop` run `drainInternal` on the looper or on
a client's thread; `StopClear` and `Release` are the rest of `stop`. The counters are not
reset by `Release`, as in the code. `MayFail` names the calls that may fail.

`DrainEnds` states the same comment as the decoder's finding
(`C2RKComponent.h:103`) for the encoder. No run checks it. It does not hold:
`drainInternal` leaves only at a packet that is empty (the end of stream among
them) or at a failure, and when a work with the end of stream fails, or a `stop`
drains while the looper holds a packet it has not counted, none comes.
The other half of the comment, that all pending work has been drained, does not
hold either: the empty packet of a frame without a buffer, or of one that rate
control dropped, ends the drain with frames still in MPP. `EosIsComplete` is about
ends of stream whose drain went on until MPP gave the end of stream; `cut` marks
the others.

### C2RKComponentStore

Objects behind a `shared_ptr` live while a thread, a client or another object
refers to them; a `weak_ptr` finds them while they live. Each mutex that is held
over another access is in `lock` or `loading`. `MapperIsCurrent` is about the usage mapper
of the linear allocator, `PoolsAreFound` about `_C2BlockPoolCache`,
`FactoryOutlives` about `ComponentLoader` and the deleters of components,
`ListComplete` about `visitComponents`.

### Configuration, EncConfig, DecConfig

Parameters are records. A client's `EncConfigure` or `DecConfigure` runs the
setter of the parameter and of those that depend on it, between any two steps of
the looper. The failed allocation of `initEncoder` is `AllocFails` here too: `process` reaches its
input with nothing told, and sends nothing. `told` and `dmpp` are what MPP was told; `mEncCfg` keeps what a setup
wrote when the control that should have told it fails. A picture, a stream and a block
are their geometry, their format and their colour aspects.
`BlockFits` relates the request made of gralloc (`StrideOfBlock` is what gralloc
makes of it) to the rows MPP writes. A decoder in buffer mode whose last fetch failed copies its
next frame through a null block: behaviours end there (`dpc = "crashed"`).

A text that is searched for a chip's name is the set of names in it. A chip no
text knows has no record; the encoder's constructor reads it unguarded, so
`Configuration` is for devices that name their chip.

A definition named `Mut...` is a wrong version of the definition after it; no
specification uses it. `PROJECT.json` says which property each one breaks, which
shows that the property is about the code.

## 3. Runs

| Run | Instance | Checks |
|---|---|---|
| `OneClient.cfg` | one client, every call, 7 calls, 2 works, batches to 2 | types, ownership, wakeups, quiet after stop, listener |
| `TwoClients.cfg` | one client starts, queues, drains; another flushes, stops, clears the listener; 4 calls each, 3 works (two of one frame index), batches of one | generations, refinement of `WorkLedger` |
| `Liveness.cfg` | the same two clients, 3 calls each, fair | every call returns, every queue entry is served |
| `TwoStarters.cfg` | two clients that start | violation: `onInit` twice |
| `OneSurface.cfg` | looper, 3 slots, 2 of them with MPP, 2 changes of resolution, 2 flushes, 1 reference picture | owners, references, no picture overwritten, no block twice with MPP, `ensureDecoderState` returns |
| `TwoSurfaces.cfg` | the same with a second surface, no change of resolution, 1 flush, 1 reference picture, old entries cleared one commit earlier | no picture overwritten, no frame lost over generations |
| `Session.cfg` | looper and a thread in `stop`, 3 works, 1 flush, 1 change of resolution, drains, low latency or not, MPP in time or not, all failures | order, end of stream, no input given up, skipped flushes, calls return |
| `Unsent.cfg` | looper, 3 works, MPP in time | violation: a last packet is not sent |
| `DrainWithEos.cfg` | looper, `drain_nb(DRAIN_COMPONENT_WITH_EOS)` | violation: `drain` never returns |
| `EncSession.cfg` | looper and a thread in `stop`, 3 works with or without a buffer, 0 or 2 layers, 2 sync requests, all failures | skipped drains, end of stream, sync requests, `process` gets its packet |
| `Store.cfg` | two binder threads, 4 calls and drops, two names of which one has no factory, one preferred store | the five store properties, and that every call returns |
| `Config.cfg` | the device and name pairs of `MCConfiguration`, two parameters set, one change of stream, failures of the allocation in `initEncoder`, `mpp_init`, SET_CFG, layers, fetch, info change | temporal layers, level, input description, bitrate, geometry, colour aspects |

*Bounds.* Two works are enough for a work in `processQueue` and one behind it,
and for two works under one frame index. Seven calls of a single client reach
`setListener`, `start`, `queue`, `flush`, `queue`, `stop`/`reset`, `start`; four
calls of each of two clients reach a flush and a stop during a queue and a
drain. `MaxCalls` bounds calls in the guard of `Call`, `NumWork` works in the
guard of `QueueCall`, `MaxBatch` the size of a `queue_nb` list. `mGeneration` is
bounded by the calls to `flush_sm`.

In `MpiDecBuffers` three slots and two with MPP leave one that the client can
hold while MPP works, and both more and fewer blocks than MPP wants; two
changes of resolution or flushes let a block from before the first meet the
second; two surfaces are one change of generation, and a clear count of 1 or 2
(`kMaxGegerationClearCount`, 100 in the code) puts the deletion of old entries
between commits. `MaxInfo`, `MaxFlush`,
`MaxSurface` and `MaxHeld` are guards of `MppInfoChange`, `FlushClear`,
`NewSurface` and `MppDecode`; the handles in `Buf` are more than any run uses at
a time; `Word` stands for 2^32 and is above `kMaxReferenceCount`. In `MpiDec`
queues of one or two packets and two frames fill up within the works there are
(`NumWork`), and six rounds of `drainInternal` (`kMaxRetryNum`, 20 in the code)
are more than MPP can then hold, as the code relies on. In `MpiEnc` three works
are one in hand, one whose packet lags behind and the end of stream; a period of
two layers (`Period`) passes between two requests. In `C2RKComponentStore` four
calls are a preference, two creations and a drop between them; `MaxCalls` is the
guard of `Call` and `Drop`. In `Configuration` two changed parameters
(`EncMaxChange`, `DecMaxChange`) cover a pair that depends on another in either
order and a change inside and after the set-up, and one change of stream
(`MaxInfo`) leads between any two sizes, depths and aspects of `MCStreams`, on
each side of 1080p, with widths that 64, 128 and 256 align in different ways; MPP
aligns rows to 64 or to odd multiples of 256 (`Strides`). The five devices are one on each
side of every test of the code: gralloc 4, compression, RK3588, a chip only
`cpuinfo` or only the device tree names. `UintMax` stands for 2^32 - 1: TLC's
integers end at 2^31, and no product of `MCEncOffers` reaches it.

The runs of `MpiDec` and `MpiEnc` do not check deadlock because works and
flushes are bounded, so the system ends; `Store.cfg` because calls are, and there
`CallsReturn` finds a deadlock; `Config.cfg` because parameters are bounded and
because of the crash above. `C2RKComponent` and `MpiDecBuffers` are checked for it.

*What the environments leave out.* `OneBufferPerBlock` holds on one surface.
After a change of surface an entry of the old generation hides the new one of the
same slot, the block is imported again, and MPP has its memory twice until the
old entries go. A reference picture kept over the change can outlive its entry,
so `FrameFound` excuses the buffers of `keptOver`, in which MPP kept one when a
block of the newer surface was committed.
`NotOverwritten` is about blocks given since the last flush
began, and about the looper alone. `NothingToFlush` covers the drains that
`stop` and `reset` make on the client's thread before they come to `onStop` and
`onReset`; only one that overlaps the last flush breaks it (it may take a frame
with the end of stream after the flags were reset). `InOrder`, `LoopSends` and the decoder's
`EosIsComplete` end where such a drain takes frames beside the looper, until a
flush. The decoder's `EosIsComplete` also excuses the frames a drain could not copy, and
its run has queues within `kMaxRetryNum`: with longer ones, or a slow MPP, a stream is
cut. The encoder's excuses drains that an empty packet ended (`cut`). `FrameFound` is not checked with
a drain in `stop` beside a flush either: the table is unprotected there and a
frame is lost. In low-latency mode `process` asks
until a frame comes, so `CallsEnd` is checked there for an MPP that gives one
for each packet, without a drain beside it. `FrameComesBack` is for a `process`
beside which no `stop` drains.

The level is in step except for a client that leaves the frame rate at 1, of
which `setupFrameRate` makes 30 while the level was computed from 1, and except
where no row of the table fits: then AVC is told 5 and HEVC 4.1. `InputDescribed`
ends with the first RGBA picture that is taken as it is (the format is not put
back) and with the first SET_CFG that fails (its keys stay in `mEncCfg` and are
told by the next one). `BlockFits` is not stated when a `stop` and a `start` change
the mode under an MPP that is kept, nor in buffer mode for an MPP that gives
strides only with the stream. VP9 has 8 bits here. `DecConfig` leaves the end of stream to `MpiDec`. Frame
rates are whole numbers, sync periods are in milliseconds, and bitrates are below
2^32/17: `setupBitRate` computes `bitrate * 17 / 16` in 32 bits, which wraps above.
MPP may start an IDR at any frame. The hazards say where each bites.

Seen while reading, and no property: `rgbToNv12` and `nv12Copy` return true
without copying when the source stride is no multiple of 4
(`osal/C2RKRgaDef.cpp:73,121`), so such a picture is encoded from old memory; an info
change to an odd size makes the size parameter's setter fail and the session with it
(`C2RKMpiDec.cpp:1039`); compression is also used in buffer mode for one transfer
(`C2RKMpiDec.cpp:725` says otherwise); a sync period of 0 becomes a gop of 30.

*Why two environments.* The code does not protect `start`, `reset` and
`release` against calls on other threads (see the findings and hazards), so
properties that need the life-cycle calls to be sequential are checked with one
client that may make any call, and the properties about concurrent data calls
with two clients, one of which also stops.

*Fairness.* In `C2RKComponent`, weak fairness of the looper and of each client inside a call: an
`ALooper` thread runs while it has messages, a client that entered a call goes
on with it. It also says that `process()`, `drain()` and the listener's
callbacks return: `CallsReturn` and `QueueIsServed` are conditional on that, and
say that no message goes unanswered and no work stays in the queue. The codecs do
not guarantee it: a codec call that waits for ever for an output buffer
(`BlockingBlockPool`, line 139), the decoder's drain of the findings and the
encoder's drains of `DrainEnds` are outside. Starting a call is not fair. In `MpiDecBuffers` the looper goes on
inside a call and the client gives each block back in the end, as a renderer
does; the pool's error is not counted on. In `MpiDec` the threads go on inside
a call and MPP's own thread goes on. In `MpiEnc` the
threads go on inside a call and MPP goes on, and no failure is counted on. In
`C2RKComponentStore` a thread inside a call goes on when its mutex is free: in
this model no thread takes a mutex that stays wanted by another for ever, so weak
fairness is enough. `Configuration` states no liveness.

*Findings.* `C2RKComponent.h:62-63` says that `onInit` is called "only at the
first invocation or after reset()". `start()` drops the state lock between its
decision and its commit, so two overlapping `start()` calls both initialise:
the run `two_starters` shows it.

`C2RKMpiDec.cpp:988` says that `sendpacket` blocks until the packet is enqueued.
It gives up after its tries, because MPP cannot take a packet while its frames
wait; `process` sends again after a frame, but not a work with the end of
stream, which goes to `drainInternal` unsent: its frame is lost (`unsent`).

`drain(DRAIN_COMPONENT_WITH_EOS)` runs `drainInternal` without a work, and both
exits of the loop need a work or the other mode (`drain_with_eos`).

## 4. Proofs

`InductiveInv` (module `ComponentInv`) is the inductive invariant. The safety
properties are not inductive alone: `OneOwner` needs the clients' unpushed works
to be new and disjoint (`ItemsOK`) and `processQueue`'s locals to agree with its
position (`PhaseOK`); `OneStaleWork` needs that an old generation in
`processQueue` means `mFlush` is set (`GenerationInv`), from which
`CodecHoldsOneGeneration` follows with `CodecInv`; `NoLostWakeup` needs to know
which program counters imply a running handler (`HandlerInv`); the refinement
needs the pending map to have one work per frame index (`PendingIsMap`).

* `ComponentTypeProofs`: lemmas about the queues, and that every step keeps
  `TypeInv`.
* `ComponentOwnerProofs`: every step keeps `OwnerInv`. Each way a work can move
  has a lemma; the rest of the actions touch nothing it speaks of.
* `C2RKComponentProofs`: the other parts of the invariant and the theorems; one
  lemma for each action that is a step of `WorkLedger`; then what needs calls to
  be made by one client.

Proved from `ComponentAssumption` alone, for any number of clients, calls, works
and any frame indices: `TypeOK`, `OneOwner`, `OneStaleWork`, `NoStaleSuccess`,
`InductiveInv` and `ImplementsLedger`. `CodecHoldsOneGeneration` is proved under
`FlushClearsCodec` (the decoder).

*One caller.* The rest is proved under `OneCaller`, the environment of
`OneClient.cfg` (section 3 says why), on top of `InductiveInv`:

* `StoppedIsQuiet` from `QuietInv`. The looper's answer could be to an earlier
  message: `AwaitedInv` says that the one message waited for is that of the call
  under way. `SettledInv` says what is at rest once it has been handled, and
  `ClearedInv` that the queue stays empty from `stop`'s clear to its end, with at
  most one `kWhatProcess` behind the message.
* `NoLostWakeup`, for clients that reset and release (`WakeInv`). It is also
  proved for any number of clients without those calls (`NoTeardown`): then the
  handler never stops running, and `HandlerInv` is enough.
* `ListenerLeavesWhenQuiet`, when the client does not say `C2_MAY_BLOCK`
  (`HandInv`: a work in a thread's hand is one the component still runs for).
* `InitOncePerReset` (`OnceInv`): what `two_starters` refutes is the second
  thread and nothing else.

*Buffers.* `MpiDecBuffersProofs` has three layers over `BuffersAssumption`, each
for any number of slots, buffers and changes of resolution:

* `OwnedInv`, with any threads that drain beside the looper: MPP never has more
  than `kMaxReferenceCount` blocks, so the unsigned count in
  `ensureDecoderState` never wraps. A thread in the loop holds `mPoolMutex`
  (`FetchHoldsMutex`) and the turns it has left fit under the maximum
  (`RoomLeft`); lemmas say what each operation on the table does to the count.
* `HoldInv`, with the same threads, gives the types, and `RefsCovered`, which is
  stated for the looper alone: the proof does not need that, the code does, for
  `clearOutBuffers` is one step of the model. A holder
  has a buffer once (`HolderInv`), `ref` counts at least the holders, and exactly
  them on one surface (`RefInv`), what is unused is not referred to
  (`UnusedInv`), a block is in one place (`TokenInv`).
* `SafeInv`, for the looper alone (`Drainer = {}`; TLC refutes both properties
  with a thread in `stop`), gives `NotOverwritten`: MPP waits after a change of
  size (`InfoInv`), the table is empty until the group has been cleared
  (`DirtyInv`), an entry has a buffer and a memory of its own (`EntryInv`), and a
  buffer MPP has or gets back without a put has a block nobody else has
  (`HasInv`). On one surface `OnceInv` adds that each memory has one buffer, and
  gives `OneBufferPerBlock`; with two, an older entry hides the newer one of its
  slot and the block is imported again.
* `KnownInv`, on top of `SafeInv`, gives `FrameFound` when
  `kMaxReferenceCount <= kMaxGegerationClearCount + 1` (the code has 16 and 100,
  `TwoSurfaces.cfg` 2 and 1): each buffer MPP will bring back has its entry
  (`KnownEntries`). `commitBufferToMpp` could only forget it by clearing the old
  generation, and while such a buffer is left all blocks of the new one are
  behind it in MPP's queues (`OldFirst`, `After`), so they are with MPP, at most
  `kMaxReferenceCount - 1` with room for one more (`RoomLeft`), too few for the
  count to pass the clear count. Without that relation of the two constants
  it is not true: with 3 and 1 TLC finds a frame that is dropped.

*The decoder's session.* `MpiDecProofs` proves `TypeOK`, `InOrder`, `LoopSends`,
`NothingToFlush` and `EosIsComplete` for any works, capacities, modes, failures
and threads. `SessionInv` is its invariant: the frame given last, the one in
hand, those queued, the packets and the works not yet sent are in the order of
the works (`OrderInv`); nothing follows the end of stream, and a frame beyond
MPP's capacity is that one (`LastInv`); a work whose packet was refused waits for
a frame that will come (`LoopInv`); a change of size is the last frame, and MPP
waits with its packet (`WaitInv`); where `mFlushed` is set nothing is left, unless
a drain overlapped the flush (`FlushInv`). `SkippedFlush` proves `NothingToFlush` for
every drain mode. `EosIsComplete` assumes
`PacketCap + FrameCap + MaxInfo <= kMaxRetryNum`: `drainInternal` gives up after
that many rounds, and `RoundsInv` says that each of them empties MPP by one.
`KeptInv` says where a work that was fed is until its frame is given or lost.

*The encoder's session.* `MpiEncProofs` proves `TypeOK`, `NothingSkipped`,
`EosIsComplete` and `SyncServed` from `SessionInv`: MPP gives no more packets than
it took frames, of which there are no more than works (`CountsInv`), and gives
them in the order of the works (`MppInv`); until an end of stream is answered, a
frame with one is that of the work in `process` (`EosInv`), and what is left in
MPP afterwards is of later works (`CompleteInv`), unless that answer's drain was over
before MPP gave the end of stream (`cut`) or a `stop` takes packets. `CompleteInv`
rests on the order of the packets: failures may have left any number of them
behind, and the drain takes them all before it sees the end of stream. A sync request that is owed for
more than one frame has waited no longer than the frames since the last base
layer (`SyncInv`).

*The store.* `C2RKComponentStoreProofs` proves the five safety properties from
`StoreAssumption` alone, for any number of threads, names and calls. `PlacesInv`
and `LockInv` say who is where and holds what; `PoolsInv`, `ModulesInv`,
`ListInv` are about the pool cache, the loaders and `visitComponents`.
`MapperIsCurrent` needs four: a thread that is to tell an object about the
preferred store keeps that object alive (`AliveInv`), one thread sets it at a
time (`SettingInv`), a thread that would set an older value is not the last
(`WantInv`), and nobody being about to set it, it is set (`CurrentInv`).

*The configuration.* `ConfigurationProofs` is about any requests, parameters,
streams, pictures, failures and numbers of changes. A step is of one half and
leaves the other alone, so each invariant is about one half.

* `AspectsInv` gives `AspectsFollow`: the interface's coded aspects are those of
  the decoder's cache (`CacheCurrent`), its aspects are computed from them and
  from the defaults (`AspectsComputed`), a frame on its way to `finishWork` is
  the one the cache is of (`FrameInCache`). It rests on `DecConfigAssumption`:
  the client does not set the aspects of the stream itself, and those MPP
  reports fit a byte.
* `FitInv` gives `BlockFits`: the members are what MPP was told or has reported
  (`InfoAdopted`), the table has blocks of the members' geometry only and of a
  surface (`BlocksInv`), and the block of buffer mode, which may be older, has
  MPP's rows for its own width, so it fits where its size does (`HeldInv`).
  `GeometryFits` is the case analysis of `BlockWidth` and `getStrideUsage`;
  it needs that a row which is aligned stays as it is when it is aligned again
  (`RowAgain`), and, from `DecConfigAssumption`, that MPP aligns to 16, 64, 128
  or 256: for another alignment `getStrideUsage` has no usage.
* `RateInv` gives `RateFollows`: what is written and what is told agree outside
  the handling of a bitrate, and the object marked as handled is the newest only
  where MPP has its value (`ToldIsWritten`), MPP being set up
  (`NotYetStarted`); a target that is written and not
  yet told is that of the object read, or newer (`Written`); stamps count up
  (`Stamps`). No assumption is needed.
* `InputInv` gives `InputDescribed`: the strides of the members, the description
  in `mEncCfg` and the one MPP has are one (`PrepWritten`). It uses
  `EncConfigAssumption`: a stride that a handle gives is that of its layout.
* `LayersInv` gives `LayersDecodable`: where MPP can be in each of the four
  structures of `setupTemporalLayers` and what its references are there
  (`ReachedIn`), a finite set whatever the length of the session.
* `LevelInv` gives `LevelCovers`: the interface's level covers its size, frame
  rate and bitrate (`ParamsLevel`: the limits of both tables grow from row to row,
  so a row after a feasible one is feasible), and until a parameter is set, what
  was written and told is what the interface has (`WrittenSoFar`). The theorem
  assumes that the levels a client sets are names of its codec
  (`LevelsOffered`; the code declares such lists at `C2RKMpiEnc.cpp:228` and does
  not check them): of any other, `getMppH264Level` makes 4.1, which may be too low.

*Only model-checked.* Liveness (`CallsReturn`, `QueueIsServed`, `EnsureReturns`,
`CallsEnd`, `FrameComesBack`), which is out of the prover's reach.
`InitOncePerReset` with two clients, `EveryWorkSent` and `CallsEnd` with
`DRAIN_COMPONENT_WITH_EOS` are the violations of section 3.

## 5. Not modelled, and the plan

*Not modelled*:

* `vendor.cpp`: registration with the service manager.
* `C2RKMlvecLegacy.cpp`: its object is only made in `setupMlvecIfNeccessary`,
  which is under `#if 0`; the parameters a client sets for it are in `EncParams`.
* `C2RKExtendParam.*` and the template part of `C2RKInterface.*`: descriptors and
  forwarding for the framework's helper, without state of their own.
* Contents of buffers, the conversions of pixels, reading files and properties,
  logging, the vendored headers, seccomp policies.
* The product of the base class with a codec: too many states for TLC. The base
  class's abstract codec may do whatever the codecs do with works.
* The race on the decoder's table outside `mPoolMutex`: accesses are atomic.
