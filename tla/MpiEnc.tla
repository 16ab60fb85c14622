------------------------------- MODULE MpiEnc -------------------------------
(***************************************************************************)
(* The encoder's session (component/mpi/C2RKMpiEnc.cpp): process(),        *)
(* drain() and the release of stop(), over an MPP context that takes       *)
(* frames and gives one packet for each on a thread of its own.            *)
(*                                                                         *)
(* The looper runs process(), drain() and releaseEncoder().  A thread      *)
(* inside stop() is in drain() at the same time, then asks the looper to   *)
(* release.  A work is its frame index, from 0.  encode_get_packet waits:  *)
(* initEncoder() sets MPP_POLL_BLOCK.                                      *)
(***************************************************************************)
EXTENDS Naturals, Sequences, Functions

CONSTANTS
    Looper,         \* the thread that runs the component's messages
    Stopper,        \* threads that call stop()
    NumWork,        \* bound: works given to process()
    Inputs,         \* what a work may hold: no buffer, NV12 (or what is converted
                    \* to it), RGBA that MPP takes as it is
    Layers,         \* temporal layer counts the client may have configured
    MayFail,        \* calls that may fail
    MaxStop,        \* bound: calls of stop()
    MaxAsk          \* bound: requests of a sync frame

Thread == {Looper} \cup Stopper
Work == 0 .. NumWork - 1
NoWork == NumWork
NoPacket == [pts |-> NoWork, eos |-> FALSE, data |-> FALSE]
Packet == [pts : Work, eos : BOOLEAN, data : BOOLEAN]
Outcome == {"none", "busy", "back"}

ASSUME EncAssumption ==
    /\ Looper \notin Stopper
    /\ NumWork \in Nat /\ MaxStop \in Nat /\ MaxAsk \in Nat
    /\ Inputs \subseteq {"none", "nv12", "rgba"}
    /\ Layers \subseteq {0, 2, 3, 4}
    /\ MayFail \subseteq {"init", "alloc", "layers", "map", "csd", "config", "buffer",
                          "import", "put", "get", "block"}

VARIABLES
    mStarted, mSpsPpsHeaderReceived, mSawInputEOS, mOutputEOS, mSignalledError,
    mMppMpi,            \* MPP's table of calls has been fetched
    mInputCount, mOutputCount, mCurLayerCount,
    mInputMppFmt, format,   \* what frames are said to be, what MPP is set up for
    request,            \* the value of the sync request parameter
    changed,            \* its object is not mRequestSync, the one last handled
    pc,                 \* where each thread is
    entry,              \* entry[t]: the packet in hand
    draining,           \* draining[t]: it is in the loop of drainInternal
    work, input, eos,   \* the work in process(), or NoWork
    processed,          \* its workletsProcessed is not 0
    outcome,            \* outcome[w]: "busy" in process() and in the pending map
    frames, packets,    \* MPP: its input and its output
    ended,              \* history: the last work when the client got the session's
                        \* first end of stream, or NoWork
    cut,                \* history: the drain of a work with the end of stream was
                        \* over before MPP had given it
    owed,               \* a sync frame is owed, for how many frames; 0 is none
    stops, asks         \* how many so far

signals == <<mSawInputEOS, mOutputEOS, mSignalledError>>
flags == <<mStarted, mSpsPpsHeaderReceived, signals>>
counts == <<mInputCount, mOutputCount>>
config == <<mMppMpi, mCurLayerCount, mInputMppFmt, format>>
sync == <<request, changed, owed, asks>>
locals == <<work, input, eos, processed>>
mpp == <<frames, packets>>
history == <<ended, cut>>
vars == <<flags, counts, config, sync, pc, entry, draining, locals, outcome, mpp, history, stops>>

Init ==
    /\ mStarted = FALSE /\ mSpsPpsHeaderReceived = FALSE /\ mSawInputEOS = FALSE
    /\ mOutputEOS = FALSE /\ mSignalledError = FALSE /\ mMppMpi = FALSE
    /\ mInputCount = 0 /\ mOutputCount = 0 /\ mCurLayerCount = 0
    /\ mInputMppFmt = "nv12" /\ format = "nv12"
    /\ request = FALSE /\ changed = FALSE
    /\ pc = [t \in Thread |-> "idle"] /\ entry = [t \in Thread |-> NoPacket]
    /\ work = NoWork /\ input = "none" /\ eos = FALSE /\ processed = FALSE
    /\ outcome = [w \in Work |-> "none"]
    /\ frames = <<>> /\ packets = <<>>
    /\ ended = NoWork /\ cut = FALSE
    /\ draining = [t \in Thread |-> FALSE]
    /\ owed = 0 /\ stops = 0 /\ asks = 0

Goto(t, place) == pc' = [pc EXCEPT ![t] = place]
Idle(t) == pc[t] = "idle"
Fails(call) == call \in MayFail

-----------------------------------------------------------------------------
(***************************************************************************)
(* MPP's encoding thread (external), and the client's sync requests.       *)
(***************************************************************************)

\* A packet without data for a frame without a buffer, or one that rate control
\* drops.
MppEncode ==
    /\ frames # <<>>
    /\ frames' = Tail(frames)
    /\ \E data \in {Head(frames).data, FALSE} :
          packets' = Append(packets, [Head(frames) EXCEPT !.data = data])
    /\ UNCHANGED <<flags, counts, config, sync, pc, entry, draining, locals, outcome, history, stops>>

\* initEncoder() took the request that is set for one it has seen.
Adopted == request /\ ~changed

\* The parameter's object changes only if its value does.
Ask ==
    /\ asks < MaxAsk
    /\ asks' = asks + 1
    /\ request' = TRUE /\ changed' = (changed \/ ~request)
    /\ owed' = IF mStarted /\ owed = 0 /\ ~Adopted THEN 1 ELSE owed
    /\ UNCHANGED <<flags, counts, config, pc, entry, draining, locals, outcome, mpp, history, stops>>

-----------------------------------------------------------------------------
(***************************************************************************)
(* process().                                                              *)
(***************************************************************************)

LastWork == CHOOSE w \in Work : outcome[w] # "none" /\ \A v \in Work : v > w => outcome[v] = "none"

\* process() returns.  A work whose workletsProcessed is 0 stays, pending.
End(done, failed) ==
    /\ outcome' = [outcome EXCEPT ![work] = IF done THEN "back" ELSE "busy"]
    /\ ended' = IF ended = NoWork /\ eos /\ done /\ ~failed THEN LastWork ELSE ended
    /\ work' = NoWork /\ input' = "none" /\ eos' = FALSE /\ processed' = FALSE
    /\ Goto(Looper, "idle")

\* releaseEncoder(): the counts, the layers, the format and the table stay.
ReleaseEncoder ==
    /\ mStarted' = FALSE /\ mSpsPpsHeaderReceived' = FALSE /\ mSawInputEOS' = FALSE
    /\ mOutputEOS' = FALSE /\ mSignalledError' = FALSE
    /\ frames' = <<>> /\ packets' = <<>>
    /\ ended' = NoWork /\ cut' = FALSE /\ owed' = 0

\* initEncoder() at the first work.  A layering MPP refuses, or none at all,
\* leaves mCurLayerCount as it was; a request that is already set counts as seen.
InitEncoder ==
    /\ mStarted' = TRUE /\ mMppMpi' = TRUE
    /\ \/ \E layers \in Layers \ {0} : mCurLayerCount' = layers
       \/ (0 \in Layers \/ Fails("layers")) /\ UNCHANGED mCurLayerCount
    /\ format' = "nv12"
    /\ changed' = FALSE
    /\ UNCHANGED <<mInputMppFmt, signals, mSpsPpsHeaderReceived, mpp, history, owed>>

\* MPP cannot be set up: initEncoder() says so.
InitFails ==
    /\ Fails("init")
    /\ ReleaseEncoder
    /\ mMppMpi' \in {mMppMpi, TRUE}
    /\ changed' = FALSE
    /\ UNCHANGED <<mCurLayerCount, mInputMppFmt, format>>

\* The temporary buffer cannot be allocated: initEncoder() returns C2_OK all the
\* same, and process() goes on without an MPP context.  Before MPP's table has been
\* fetched once, that is a call through a null pointer: left out.
AllocFails ==
    /\ Fails("alloc") /\ mMppMpi
    /\ ReleaseEncoder
    /\ changed' = FALSE
    /\ UNCHANGED config

\* A work the session cannot take is not processed, and stays pending.
Refuse == UNCHANGED <<pc, locals>>

Accept(w) ==
    /\ work' = w /\ input' \in Inputs /\ eos' \in BOOLEAN
    /\ Goto(Looper, "prepare")
    /\ UNCHANGED processed

Begin ==
    /\ Idle(Looper) /\ \A t \in Stopper : pc[t] # "release"
    /\ \E w \in Work :
          /\ outcome[w] = "none" /\ \A v \in Work : v < w => outcome[v] # "none"
          /\ outcome' = [outcome EXCEPT ![w] = "busy"]
          /\ \/ /\ mStarted
                /\ IF mSignalledError THEN Refuse ELSE Accept(w)
                /\ UNCHANGED <<flags, config, changed, mpp, history, owed>>
             \/ /\ ~mStarted /\ InitEncoder
                /\ IF mSignalledError THEN Refuse ELSE Accept(w)
             \/ ~mStarted /\ InitFails /\ Refuse
             \/ ~mStarted /\ AllocFails /\ Accept(w)
    /\ UNCHANGED <<counts, request, asks, entry, draining, stops>>

\* A wrong Corrupted: process() goes on after an error.
MutCorrupted ==
    /\ mSignalledError' = TRUE
    /\ Goto(Looper, "get") /\ UNCHANGED <<outcome, ended, locals>>

Corrupted ==
    /\ mSignalledError' = TRUE
    /\ End(TRUE, TRUE)

\* getInBufferFromWork: an RGBA input sets MPP up for it, if MPP agrees and the frames
\* are not said to be RGBA already.  (Without the temporary buffer an input that
\* has to be converted is a read through a null pointer: left out.)
TakeInput ==
    \/ /\ input = "rgba" /\ mInputMppFmt # "rgba" /\ mStarted
       /\ mInputMppFmt' = "rgba" /\ format' = "rgba"
    \/ /\ input = "rgba" /\ mInputMppFmt # "rgba" => Fails("config") \/ ~mStarted
       /\ UNCHANGED <<mInputMppFmt, format>>

\* The view of the input and its size; the codec data, once: a first work without a
\* buffer is done then; the input itself.
Prepare ==
    /\ pc[Looper] = "prepare"
    /\ \/ /\ Fails("map") /\ input # "none"
          /\ Corrupted
          /\ UNCHANGED <<mSawInputEOS, mSpsPpsHeaderReceived, mInputMppFmt, format>>
       \/ /\ Fails("csd") /\ ~mSpsPpsHeaderReceived
          /\ mSawInputEOS' = eos
          /\ End(TRUE, TRUE)
          /\ UNCHANGED <<mSpsPpsHeaderReceived, mSignalledError, mInputMppFmt, format>>
       \/ /\ mSawInputEOS' = eos /\ mSpsPpsHeaderReceived' = TRUE
          /\ \/ /\ ~mSpsPpsHeaderReceived /\ input = "none"
                /\ End(TRUE, FALSE)
                /\ UNCHANGED <<mSignalledError, mInputMppFmt, format>>
             \/ /\ Fails("buffer") /\ input # "none"
                /\ Corrupted /\ UNCHANGED <<mInputMppFmt, format>>
             \/ /\ mSpsPpsHeaderReceived \/ input # "none"
                /\ TakeInput
                /\ Goto(Looper, "send") /\ UNCHANGED <<mSignalledError, outcome, ended, locals>>
    /\ UNCHANGED <<mStarted, mOutputEOS, counts, mMppMpi, mCurLayerCount, sync, entry, draining, mpp,
                   cut, stops>>

\* How many frames the layers take to come round.
Period == IF mCurLayerCount >= 2 THEN 2 ^ (mCurLayerCount - 1) ELSE 1

\* A wrong HandleSync: a request between two base layers counts as seen.
MutHandleSync ==
    IF changed
    THEN IF mInputCount % Period = 0 /\ request
         THEN UNCHANGED changed /\ Goto(Looper, "clear")
         ELSE changed' = FALSE /\ Goto(Looper, "put")
    ELSE UNCHANGED changed /\ Goto(Looper, "put")

\* handleRequestSyncFrame, at layer 0 only.
HandleSync ==
    IF mInputCount % Period = 0 /\ changed
    THEN IF request
         THEN UNCHANGED changed /\ Goto(Looper, "clear")
         ELSE changed' = FALSE /\ Goto(Looper, "put")
    ELSE UNCHANGED changed /\ Goto(Looper, "put")

\* sendframe: the buffer, then the request.
SendFrame ==
    /\ pc[Looper] = "send"
    /\ \/ /\ Fails("import") /\ input # "none"
          /\ Corrupted /\ UNCHANGED changed
       \/ HandleSync /\ UNCHANGED <<mSignalledError, outcome, ended, locals>>
    /\ UNCHANGED <<mStarted, mSpsPpsHeaderReceived, mSawInputEOS, mOutputEOS, counts, config,
                   request, owed, asks, entry, draining, mpp, cut, stops>>

\* The request is unset first, so that the next one shows.
ClearSync ==
    /\ pc[Looper] = "clear"
    /\ request' = FALSE /\ changed' = TRUE
    /\ Goto(Looper, "force")
    /\ UNCHANGED <<flags, counts, config, owed, asks, entry, draining, locals, outcome, mpp, history,
                   stops>>

\* MPP_ENC_SET_IDR_FRAME.  mRequestSync is now the request that was read: another
\* object than the parameter, which has been unset since.
ForceIdr ==
    /\ pc[Looper] = "force"
    /\ owed' = 0 /\ changed' = TRUE
    /\ Goto(Looper, "put")
    /\ UNCHANGED <<flags, counts, config, request, asks, entry, draining, locals, outcome, mpp,
                   history, stops>>

\* encode_put_frame, which fails without a context.
PutFrame ==
    /\ pc[Looper] = "put"
    /\ \/ /\ Fails("put") \/ ~mStarted
          /\ Corrupted /\ UNCHANGED <<frames, owed>>
       \/ /\ mStarted
          /\ frames' = Append(frames, [pts |-> work, eos |-> eos, data |-> input # "none"])
          /\ owed' = IF owed = 0 THEN 0 ELSE owed + 1
          /\ Goto(Looper, "count") /\ UNCHANGED <<mSignalledError, outcome, ended, locals>>
    /\ UNCHANGED <<mStarted, mSpsPpsHeaderReceived, mSawInputEOS, mOutputEOS, counts, config,
                   request, changed, asks, entry, draining, packets, cut, stops>>

CountInput ==
    /\ pc[Looper] = "count"
    /\ mInputCount' = mInputCount + 1
    /\ Goto(Looper, "get")
    /\ UNCHANGED <<flags, mOutputCount, config, sync, entry, draining, locals, outcome, mpp,
                   history, stops>>

-----------------------------------------------------------------------------
(***************************************************************************)
(* getoutpacket() and finishWork(), in process() and in drainInternal().   *)
(* Only the looper's drain at the end of process() has a work.             *)
(***************************************************************************)

\* A wrong HasWork: stop() drains for the work in process() too.
MutHasWork(t) == work # NoWork
HasWork(t) == t = Looper /\ work # NoWork

\* drainInternal is over.
EndDrain(t) ==
    IF HasWork(t)
    THEN End(TRUE, mSignalledError)
    ELSE /\ Goto(t, IF t = Looper THEN "idle" ELSE "clear")
         /\ UNCHANGED <<outcome, ended, locals>>

\* getoutpacket gives nothing to finish: process() fills an empty work, a drain
\* is over, whatever MPP may still hold.
Nothing(t) ==
    IF draining[t]
    THEN /\ draining' = [draining EXCEPT ![t] = FALSE]
         /\ cut' = (cut \/ (HasWork(t) /\ ~mOutputEOS'))
         /\ EndDrain(t)
    ELSE /\ processed' = TRUE
         /\ Goto(t, "after")
         /\ UNCHANGED <<draining, cut, outcome, ended, work, input, eos>>

\* encode_get_packet: waits until there is one.
GetPacket(t) ==
    /\ pc[t] = "get" /\ mStarted /\ packets # <<>>
    /\ entry' = [entry EXCEPT ![t] = Head(packets)]
    /\ packets' = Tail(packets)
    /\ Goto(t, "got")
    /\ UNCHANGED <<flags, counts, config, sync, draining, locals, outcome, frames, history,
                   stops>>

\* MPP fails, or there is no context any more.
GetFails(t) ==
    /\ pc[t] = "get"
    /\ Fails("get") \/ ~mStarted
    /\ UNCHANGED <<flags, counts, config, sync, entry, mpp, stops>>
    /\ Nothing(t)

\* A packet with the end of stream and timestamp 0 counts as empty.
Empty(packet) == ~packet.data \/ (packet.eos /\ packet.pts = 0)

\* A wrong GivesEos: the flag of the input is taken for that of the packet.
MutGivesEos(packet) == mSawInputEOS
GivesEos(packet) == packet.eos

CountOutput(t) ==
    /\ pc[t] = "got"
    /\ mOutputCount' = mOutputCount + 1
    /\ mOutputEOS' = (mOutputEOS \/ GivesEos(entry[t]))
    /\ IF Empty(entry[t])
       THEN /\ entry' = [entry EXCEPT ![t] = NoPacket]
            /\ Nothing(t)
       ELSE /\ Goto(t, "finish")
            /\ UNCHANGED <<entry, draining, cut, outcome, ended, locals>>
    /\ UNCHANGED <<mStarted, mSpsPpsHeaderReceived, mSawInputEOS, mSignalledError, mInputCount,
                   config, sync, mpp, stops>>

Pending(w) == outcome[w] = "busy" /\ w # work

Flags(w) == mSawInputEOS /\ w = work

\* The work in process() returns when process() does, a pending one now.  A
\* packet of neither is dropped.  Without a work, a failure to get a block is a
\* write through a null pointer: left out.
FinishWork(t) ==
    LET w == entry[t].pts
    IN /\ pc[t] = "finish"
       /\ \/ /\ Fails("block") /\ HasWork(t)
             /\ processed' = TRUE /\ mSignalledError' = TRUE
             /\ UNCHANGED <<outcome, ended>>
          \/ /\ UNCHANGED mSignalledError
             /\ processed' = (processed \/ (HasWork(t) /\ w = work))
             /\ outcome' = IF Pending(w) THEN [outcome EXCEPT ![w] = "back"] ELSE outcome
             /\ ended' = IF Pending(w) /\ Flags(w) /\ ended = NoWork THEN LastWork ELSE ended
       /\ entry' = [entry EXCEPT ![t] = NoPacket]
       /\ Goto(t, IF draining[t] THEN "get" ELSE "after")
       /\ UNCHANGED <<mStarted, mSpsPpsHeaderReceived, mSawInputEOS, mOutputEOS, counts, config,
                      sync, draining, cut, work, input, eos, mpp, stops>>

\* A wrong Drained: one packet behind is not counted.
MutDrained == mInputCount <= mOutputCount + 1

\* No drain is needed.
Drained == mInputCount = mOutputCount

\* The end of process().
After ==
    /\ pc[Looper] = "after"
    /\ LET done == processed \/ (~mSawInputEOS /\ input = "none")
       IN IF mSawInputEOS /\ ~mOutputEOS /\ ~Drained
          THEN /\ processed' = done
               /\ draining' = [draining EXCEPT ![Looper] = TRUE]
               /\ Goto(Looper, "get") /\ UNCHANGED <<outcome, ended, work, input, eos>>
          ELSE End(done, mSignalledError) /\ UNCHANGED draining
    /\ UNCHANGED <<flags, counts, config, sync, cut, entry, mpp, stops>>

-----------------------------------------------------------------------------
(***************************************************************************)
(* drain(), stop() and releaseEncoder().                                   *)
(***************************************************************************)

\* drain_nb: a drain that is not needed changes nothing.
Drain ==
    /\ Idle(Looper) /\ ~Drained /\ mStarted
    /\ \A t \in Stopper : pc[t] # "release"
    /\ draining' = [draining EXCEPT ![Looper] = TRUE]
    /\ Goto(Looper, "get")
    /\ UNCHANGED <<flags, counts, config, sync, entry, locals, outcome, mpp, history, stops>>

\* stop() drains on the client's thread ...
Stop(t) ==
    /\ \A u \in Stopper : Idle(u)
    /\ stops < MaxStop /\ stops' = stops + 1
    /\ IF Drained
       THEN Goto(t, "clear") /\ UNCHANGED draining
       ELSE Goto(t, "get") /\ draining' = [draining EXCEPT ![t] = TRUE]
    /\ UNCHANGED <<flags, counts, config, sync, entry, locals, outcome, mpp, history>>

\* ... drops the pending works, and asks the looper to release the encoder.
StopClear(t) ==
    /\ pc[t] = "clear"
    /\ outcome' = [w \in Work |-> IF Pending(w) THEN "back" ELSE outcome[w]]
    /\ Goto(t, "release")
    /\ UNCHANGED <<flags, counts, config, sync, draining, entry, locals, mpp, history, stops>>

\* onStop() releases the encoder.
Release(t) ==
    /\ pc[t] = "release" /\ Idle(Looper)
    /\ ReleaseEncoder
    /\ Goto(t, "idle")
    /\ UNCHANGED <<counts, config, request, changed, asks, draining, entry, locals,
                   outcome, stops>>

-----------------------------------------------------------------------------
ProcessNext ==
    \/ Prepare \/ SendFrame \/ ClearSync \/ ForceIdr \/ PutFrame \/ CountInput \/ After

PacketNext(t) == GetPacket(t) \/ GetFails(t) \/ CountOutput(t) \/ FinishWork(t)
StopNext(t) == StopClear(t) \/ Release(t)

Next ==
    \/ Begin \/ ProcessNext \/ Drain \/ Ask \/ MppEncode
    \/ \E t \in Thread : PacketNext(t)
    \/ \E t \in Stopper : Stop(t) \/ StopNext(t)

Spec == Init /\ [][Next]_vars

\* The threads go on inside a call, and so does MPP.  Nothing says that MPP fails.
FairSpec ==
    /\ Spec
    /\ WF_vars(ProcessNext) /\ WF_vars(MppEncode)
    /\ \A t \in Thread : WF_vars(GetPacket(t) \/ CountOutput(t) \/ FinishWork(t))
    /\ \A t \in Stopper : WF_vars(StopNext(t))

-----------------------------------------------------------------------------
(***************************************************************************)
(* Properties.                                                             *)
(***************************************************************************)

\* The values of the variables.
TypeOK ==
    /\ {request, changed, mStarted, mMppMpi, mSpsPpsHeaderReceived, mSawInputEOS, mOutputEOS,
        mSignalledError, eos, processed, cut} \subseteq BOOLEAN
    /\ mInputCount \in 0 .. NumWork /\ mOutputCount \in 0 .. NumWork
    /\ mCurLayerCount \in Layers \cup {0}
    /\ {mInputMppFmt, format} \subseteq {"nv12", "rgba"}
    /\ \A t \in Thread : entry[t] \in Packet \cup {NoPacket}
    /\ \A t \in Thread : pc[t] \in {"got", "finish"} <=> entry[t] # NoPacket
    /\ draining \in [Thread -> BOOLEAN]
    /\ work \in Work \cup {NoWork} /\ input \in Inputs \cup {"none"}
    /\ ended \in Work \cup {NoWork} /\ outcome \in [Work -> Outcome]
    /\ frames \in Seq(Packet) /\ packets \in Seq(Packet)
    /\ owed \in Nat /\ stops \in 0 .. MaxStop /\ asks \in 0 .. MaxAsk

\* A drain that is not needed is really not: when the counts are equal, and no
\* thread is between a call of MPP and its count, MPP holds nothing.  The counts
\* are never reset, errors and restarts included.
NothingSkipped ==
    Drained /\ pc[Looper] # "count" /\ (\A t \in Thread : pc[t] # "got") =>
        frames = <<>> /\ packets = <<>>

\* When the client gets the first end of stream of a session, MPP has answered every
\* frame up to it that had a buffer: also when failures and earlier drains have left
\* the packets behind the works, so that the end of stream has to be drained.  Two
\* conditions: the drain went on until MPP gave the end of stream (the code ends it at
\* any packet that is empty and at any failure, and answers the end of stream all the
\* same: what MPP still holds comes too late); and no stop() takes packets.
EosIsComplete ==
    ended # NoWork /\ ~cut /\ (\A t \in Stopper : Idle(t)) =>
        \A p \in Range(frames) \cup Range(packets) : p.data => p.pts > ended

\* A sync frame the client asks for while the encoder runs is forced before the
\* layers come round once more, however the request, the reading and the unsetting
\* of the parameter interleave.
SyncServed == owed <= Period + 1

\* After a frame is sent, process() gets its packet, unless a drain begins to take
\* packets too: its own, or that of a stop(), which may leave it waiting for ever.
FrameComesBack ==
    pc[Looper] = "get" ~> pc[Looper] # "get" \/ draining[Looper]
                          \/ \E t \in Stopper : ~Idle(t)

\* "The component has drained all pending output work" (C2RKComponent.h, line 103,
\* of drain() that returns C2_OK): a drain that has begun returns.
DrainEnds == \A t \in Thread : draining[t] ~> ~draining[t]
=============================================================================
