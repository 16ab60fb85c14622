------------------------------- MODULE MpiDec -------------------------------
(***************************************************************************)
(* The decoder's session (component/mpi/C2RKMpiDec.cpp): process(),        *)
(* drain(), onFlush_sm() and onRelease() over an MPP context that takes    *)
(* packets and gives frames on a thread of its own.  The buffers the       *)
(* frames are in are the subject of MpiDecBuffers; here a frame is the     *)
(* timestamp of the packet it comes from.                                  *)
(*                                                                         *)
(* The looper runs process(), drain(), flush and release one after the     *)
(* other.  A thread inside stop() or reset() may be in drain() at the same *)
(* time.  A work is its timestamp: works come in order, one each.          *)
(***************************************************************************)
EXTENDS Naturals, Sequences

CONSTANTS
    Looper,             \* the thread that runs the component's messages
    Drainer,            \* threads inside stop() or reset()
    NumWork,            \* bound: works given to process()
    DrainModes,         \* modes the client asks drain_nb for
    MayFail,            \* what may fail: init, view, fetch, info, config, copy
    LowLatency,         \* values mLowLatencyMode may have
    kMaxRetryNum,       \* rounds drainInternal waits for the end of stream
    PacketCap,          \* packets MPP's input holds
    FrameCap,           \* frames MPP has output buffers for
    MaxInfo,            \* bound: changes of resolution in the stream
    MaxFlush,           \* bound: flushes
    Prompt              \* values prompt may have

Thread == {Looper} \cup Drainer
Work == 1 .. NumWork
NoWork == 0
NoFrame == [kind |-> "none", pts |-> 0]
Packet == [pts : Work, eos : BOOLEAN]
\* "last" is a picture with the end-of-stream flag, "eos" the flag alone.
Frame == [kind : {"picture", "last", "eos", "info"}, pts : Work]
Outcome == {"none", "busy", "bad_value", "corrupted", "unsent", "cut",
            "done"}

ASSUME DecAssumption ==
    /\ Looper \notin Drainer
    /\ NumWork \in Nat /\ kMaxRetryNum \in Nat
    /\ MaxInfo \in Nat /\ MaxFlush \in Nat
    /\ PacketCap \in Nat \ {0} /\ FrameCap \in Nat \ {0}
    /\ DrainModes \subseteq {"NO_EOS", "WITH_EOS"}
    /\ MayFail \subseteq {"init", "view", "fetch", "info", "config", "copy"}
    /\ LowLatency \subseteq BOOLEAN /\ Prompt \subseteq BOOLEAN

VARIABLES
    mStarted, mFlushed, mOutputEos, mSignalledInputEos, mSignalledError,
    mLowLatencyMode,    \* as the client had configured it at initDecoder()
    mMppMpi,            \* the API table has been fetched from MPP
    pc,                 \* where each thread is
    entry,              \* entry[t]: the OutWorkEntry in hand
    mode,               \* mode[t]: what its drainInternal is called for
    retry,              \* retry[t]: rounds of drainInternal so far
    work,               \* the work in process(), or NoWork
    eos,                \* it has FLAG_END_OF_STREAM
    sendPacketFlag, needGetFrame, gotFrame,     \* locals of process()
    outcome,            \* outcome[w]: how process(w) ended
    packets,            \* MPP: its input queue
    frames,             \* MPP: its output queue
    waiting,            \* MPP waits for MPP_DEC_SET_INFO_CHANGE_READY
    prompt,             \* MPP (never changes): it does what it can before a wait
                        \* for it times out, refuses nothing, and gives a frame for
                        \* every packet
    fed, given, lost, ended,
                        \* history since the last flush: packets MPP took,
                        \* frames given to the client, frames a drain could
                        \* not copy, end of stream given
    raced,              \* history: a stop() or reset() drained during the
                        \* last flush
    drained,            \* history: one has drained since the last flush that
                        \* none drained during
    infos, flushes      \* how many so far

life == <<mStarted, mFlushed, mLowLatencyMode, mMppMpi>>
signals == <<mSignalledInputEos, mSignalledError>>
flags == <<life, mOutputEos, signals>>
drain == <<mode, retry>>
locals == <<work, eos, sendPacketFlag, needGetFrame, gotFrame>>
bounds == <<infos, flushes, prompt>>
mpp == <<packets, frames, waiting>>
stops == <<raced, drained>>
history == <<fed, given, lost, ended, stops>>
vars == <<flags, pc, entry, drain, locals, outcome, mpp, history, bounds>>

Goto(t, place) == pc' = [pc EXCEPT ![t] = place]
Idle(t) == pc[t] = "idle"
Fails(call) == call \in MayFail

Init ==
    /\ mStarted = FALSE /\ mFlushed = FALSE /\ mOutputEos = FALSE
    /\ mSignalledInputEos = FALSE /\ mSignalledError = FALSE
    /\ mMppMpi = FALSE /\ mLowLatencyMode = FALSE
    /\ pc = [t \in Thread |-> "idle"] /\ entry = [t \in Thread |-> NoFrame]
    /\ mode = [t \in Thread |-> "work"] /\ retry = [t \in Thread |-> 0]
    /\ work = NoWork /\ eos = FALSE
    /\ sendPacketFlag = FALSE /\ needGetFrame = FALSE /\ gotFrame = FALSE
    /\ outcome = [w \in Work |-> "none"]
    /\ packets = <<>> /\ frames = <<>> /\ waiting = FALSE /\ prompt \in Prompt
    /\ fed = {} /\ given = <<>> /\ lost = {} /\ ended = FALSE
    /\ raced = FALSE /\ drained = FALSE
    /\ infos = 0 /\ flushes = 0

-----------------------------------------------------------------------------
(***************************************************************************)
(* MPP's decoding thread (external).                                       *)
(***************************************************************************)

CanDecode == packets # <<>> /\ ~waiting /\ Len(frames) < FrameCap

\* A packet gives a frame or, if not prompt, none; the last one may end the
\* stream with the picture's flag or with an empty frame after it.
MppDecode ==
    /\ CanDecode
    /\ packets' = Tail(packets)
    /\ LET p == Head(packets)
           F(kind) == [kind |-> kind, pts |-> p.pts]
       IN \/ ~p.eos /\ frames' = Append(frames, F("picture"))
          \/ p.eos /\ frames' = Append(frames, F("last"))
          \/ p.eos /\ frames' = frames \o <<F("picture"), F("eos")>>
          \/ ~p.eos /\ ~prompt /\ UNCHANGED frames
    /\ UNCHANGED <<drain, flags, pc, entry, locals, outcome, waiting, history,
                   bounds>>

\* The next packet has another size: MPP says so, and waits.
MppInfoChange ==
    /\ CanDecode /\ infos < MaxInfo
    /\ infos' = infos + 1
    /\ waiting' = TRUE
    /\ frames' = Append(frames, [kind |-> "info", pts |-> Head(packets).pts])
    /\ UNCHANGED <<drain, flags, pc, entry, locals, outcome, packets, history,
                   flushes, prompt>>

\* MPP refuses MPP_DEC_SET_INFO_CHANGE_READY.
RefusesInfo == Fails("info") /\ ~prompt

\* A loop that waits for MPP gives up.
TimesOut == prompt => ~CanDecode

-----------------------------------------------------------------------------
(***************************************************************************)
(* process().                                                              *)
(***************************************************************************)

MayProcess == ~(mSignalledInputEos \/ mSignalledError)

End(result) ==
    /\ outcome' = [outcome EXCEPT ![work] = result]
    /\ work' = NoWork
    /\ eos' = FALSE /\ sendPacketFlag' = FALSE /\ needGetFrame' = FALSE
    /\ gotFrame' = FALSE
    /\ Goto(Looper, "idle")

\* mFlushed is reset first: this work will leave something to flush.  The
\* work goes no further if the session has ended or its buffer has no view.
Process ==
    /\ Idle(Looper)
    /\ \E w \in Work :
          /\ outcome[w] = "none"
          /\ \A v \in Work : v < w => outcome[v] # "none"
          /\ mFlushed' = FALSE
          /\ \/ /\ ~mStarted /\ Fails("init")
                /\ outcome' = [outcome EXCEPT ![w] = "bad_value"]
                /\ \/ mMppMpi' = TRUE \/ UNCHANGED mMppMpi
                /\ UNCHANGED <<mStarted, mLowLatencyMode, pc, locals>>
             \/ /\ mStarted' = TRUE /\ mMppMpi' = TRUE
                /\ mLowLatencyMode' \in IF mStarted THEN {mLowLatencyMode}
                                                    ELSE LowLatency
                /\ \/ /\ MayProcess
                      /\ outcome' = [outcome EXCEPT ![w] = "busy"]
                      /\ work' = w /\ eos' \in BOOLEAN
                      /\ Goto(Looper, "ensure")
                      /\ UNCHANGED <<sendPacketFlag, needGetFrame, gotFrame>>
                   \/ /\ ~MayProcess \/ Fails("view")
                      /\ outcome' = [outcome EXCEPT ![w] = "bad_value"]
                      /\ UNCHANGED <<pc, locals>>
    /\ UNCHANGED <<drain, mOutputEos, signals, entry, mpp, history, bounds>>

Corrupted ==
    /\ mSignalledError' = TRUE
    /\ End("corrupted")

\* The first ensureDecoderState of process(): a failure is an error.
EnsureFirst ==
    /\ pc[Looper] = "ensure"
    /\ \/ /\ Fails("fetch") /\ Corrupted
       \/ /\ Goto(Looper, "send")
          /\ UNCHANGED <<mSignalledError, locals, outcome>>
    /\ UNCHANGED <<drain, life, mOutputEos, mSignalledInputEos, entry, mpp,
                   history, bounds>>

\* The end of stream is drained, whether its packet was sent or not.
AfterSend ==
    IF eos THEN /\ mode' = [mode EXCEPT ![Looper] = "work"]
                /\ Goto(Looper, "drain_get")
           ELSE UNCHANGED mode /\ Goto(Looper, "out")

\* sendpacket: MPP takes the packet.
SendPacket ==
    /\ pc[Looper] = "send"
    /\ Len(packets) < PacketCap
    /\ packets' = Append(packets, [pts |-> work, eos |-> eos])
    /\ fed' = fed \cup {work}
    /\ sendPacketFlag' = TRUE /\ needGetFrame' = FALSE
    /\ AfterSend
    /\ UNCHANGED <<flags, entry, retry, work, eos, gotFrame, outcome, frames,
                   waiting, given, lost, ended, stops, bounds>>

\* Its queue stayed full for all the tries: a frame has to go first.
SendTimesOut ==
    /\ pc[Looper] = "send"
    /\ Len(packets) = PacketCap /\ TimesOut
    /\ sendPacketFlag' = FALSE /\ needGetFrame' = TRUE
    /\ AfterSend
    /\ UNCHANGED <<flags, entry, retry, work, eos, gotFrame, outcome, mpp,
                   history, bounds>>

Is(kinds) == frames # <<>> /\ Head(frames).kind \in kinds

\* getoutframe gives a picture.  A frame with the end of stream cannot come
\* here: its packet was the last one, and drainInternal waits for it.
GetPicture ==
    /\ pc[Looper] = "out" /\ Is({"picture"})
    /\ entry' = [entry EXCEPT ![Looper] = Head(frames)]
    /\ frames' = Tail(frames)
    /\ needGetFrame' = FALSE /\ gotFrame' = TRUE
    /\ Goto(Looper, "finish")
    /\ UNCHANGED <<drain, flags, work, eos, sendPacketFlag, outcome, packets,
                   waiting, history, bounds>>

InfoChange(t) ==
    /\ Is({"info"})
    /\ frames' = Tail(frames)
    /\ waiting' = FALSE

\* C2_NO_MEMORY: the size has changed.
GetInfo ==
    /\ pc[Looper] = "out"
    /\ InfoChange(Looper)
    /\ Goto(Looper, "config")
    /\ UNCHANGED <<drain, flags, entry, locals, outcome, packets, history,
                   bounds>>

\* getoutframe fails: MPP refuses to go on with the new size, or the picture
\* cannot be copied into the client's block (in buffer mode).
GetFails ==
    /\ pc[Looper] = "out"
    /\ (RefusesInfo /\ Is({"info"})) \/ (Fails("copy") /\ Is({"picture"}))
    /\ frames' = Tail(frames)
    /\ Corrupted
    /\ UNCHANGED <<drain, life, mOutputEos, mSignalledInputEos, entry, packets,
                   waiting, history, bounds>>

\* The new size goes into a configUpdate.
Config ==
    /\ pc[Looper] = "config"
    /\ \/ Fails("config") /\ Corrupted
       \/ /\ Goto(Looper, "out")
          /\ UNCHANGED <<mSignalledError, locals, outcome>>
    /\ UNCHANGED <<drain, life, mOutputEos, mSignalledInputEos, entry, mpp,
                   history, bounds>>

\* No frame: process() ends, unless low latency makes it ask again.  A work
\* MPP did not take ends too, not processed.
NoPicture ==
    /\ pc[Looper] = "out" /\ frames = <<>>
    /\ needGetFrame => TimesOut
    /\ gotFrame \/ ~mLowLatencyMode
    /\ End(IF sendPacketFlag THEN "done" ELSE "unsent")
    /\ UNCHANGED <<drain, flags, entry, mpp, history, bounds>>

\* finishWork, shared with drainInternal.
Give(t) ==
    /\ given' = Append(given, entry[t].pts)
    /\ entry' = [entry EXCEPT ![t] = NoFrame]

\* Wrong versions of AfterFinish: the packet is sent after every frame, or
\* is not sent again.
MutAfterFinish == "send"
MutAfterFinishOut == "out"
AfterFinish == IF sendPacketFlag THEN "out" ELSE "send"

Finish ==
    /\ pc[Looper] = "finish"
    /\ Give(Looper)
    /\ Goto(Looper, AfterFinish)
    /\ UNCHANGED <<drain, flags, locals, outcome, mpp, fed, lost, ended, stops,
                   bounds>>

-----------------------------------------------------------------------------
(***************************************************************************)
(* drainInternal().  Mode "work" is the end of process() for a work with   *)
(* the end of stream; "NO_EOS" and "WITH_EOS" are drain(), without one.    *)
(***************************************************************************)

Draining(t) == pc[t] = "drain_get"
IsDrain(t, m) == mode[t] = m

\* Before the first work decode_get_frame is a call through a null pointer;
\* such a drain is left out.
DrainBegin(t, m) ==
    /\ Idle(t)
    /\ mMppMpi
    /\ mode' = [mode EXCEPT ![t] = m]
    /\ Goto(t, "drain_get")
    /\ drained' = (drained \/ t # Looper)
    /\ raced' = (raced \/ (t # Looper /\ pc[Looper] = "flush"))
    /\ UNCHANGED <<flags, entry, retry, locals, outcome, mpp, fed, given, lost,
                   ended, bounds>>

\* ensureDecoderState fails: only a work makes it an error.
DrainEnsureFails ==
    /\ Draining(Looper) /\ IsDrain(Looper, "work") /\ Fails("fetch")
    /\ mSignalledInputEos' = TRUE
    /\ Corrupted
    /\ retry' = [retry EXCEPT ![Looper] = 0]
    /\ UNCHANGED <<mode, life, mOutputEos, entry, mpp, history, bounds>>

Pictures == {"picture", "last"}

DrainPicture(t) ==
    /\ Draining(t) /\ Is(Pictures)
    /\ entry' = [entry EXCEPT ![t] = Head(frames)]
    /\ frames' = Tail(frames)
    /\ mOutputEos' = (mOutputEos \/ Head(frames).kind = "last")
    /\ Goto(t, "drain_give")
    /\ UNCHANGED <<drain, life, signals, locals, outcome, packets, waiting,
                   history, bounds>>

DrainGive(t) ==
    /\ pc[t] = "drain_give"
    /\ Give(t)
    /\ Goto(t, "drain_round")
    /\ UNCHANGED <<drain, flags, locals, outcome, mpp, fed, lost, ended, stops,
                   bounds>>

\* No picture came: drain(NO_EOS) is over, the others go round again.
DrainNothing(t) ==
    IF IsDrain(t, "NO_EOS")
    THEN Goto(t, "idle") /\ retry' = [retry EXCEPT ![t] = 0]
    ELSE Goto(t, "drain_round") /\ UNCHANGED retry

DrainEmptyEos(t) ==
    /\ Draining(t) /\ Is({"eos"})
    /\ frames' = Tail(frames)
    /\ mOutputEos' = TRUE
    /\ DrainNothing(t)
    /\ UNCHANGED <<mode, life, signals, entry, locals, outcome, packets,
                   waiting, history, bounds>>

\* A change of size while draining goes into no configUpdate.
DrainInfo(t) ==
    /\ Draining(t)
    /\ InfoChange(t)
    /\ DrainNothing(t)
    /\ UNCHANGED <<mode, flags, entry, locals, outcome, packets, history,
                   bounds>>

DrainInfoFails(t) ==
    /\ Draining(t) /\ RefusesInfo /\ Is({"info"})
    /\ frames' = Tail(frames)
    /\ DrainNothing(t)
    /\ UNCHANGED <<mode, flags, entry, locals, outcome, packets, waiting,
                   history, bounds>>

\* A picture that cannot be copied is no error here: it is lost, and the
\* drain goes on as if none had come.
DrainCopyFails(t) ==
    /\ Draining(t) /\ Is(Pictures) /\ Fails("copy")
    /\ frames' = Tail(frames)
    /\ lost' = lost \cup {Head(frames).pts}
    /\ mOutputEos' = (mOutputEos \/ Head(frames).kind = "last")
    /\ DrainNothing(t)
    /\ UNCHANGED <<mode, life, signals, entry, locals, outcome, packets,
                   waiting, fed, given, ended, stops, bounds>>

\* Only a drain that goes round again waits for MPP.
DrainEmpty(t) ==
    /\ Draining(t) /\ frames = <<>>
    /\ IsDrain(t, "NO_EOS") \/ TimesOut
    /\ DrainNothing(t)
    /\ UNCHANGED <<mode, flags, entry, locals, outcome, mpp, history, bounds>>

\* A wrong GaveUp: it never does.
MutGaveUp(t) == FALSE
\* Another one: a round too many is enough.
MutGaveUpEarly(t) == retry[t] + 1 > 1
GaveUp(t) == retry[t] + 1 > kMaxRetryNum

\* The end of stream has come, or was given up: the work is done, also when
\* its packet was never sent.
DrainDone ==
    /\ pc[Looper] = "drain_round" /\ IsDrain(Looper, "work") /\ mOutputEos
    /\ mSignalledInputEos' = TRUE
    /\ ended' = TRUE
    /\ retry' = [retry EXCEPT ![Looper] = 0]
    /\ End(IF sendPacketFlag THEN "done" ELSE "cut")
    /\ UNCHANGED <<mode, life, mOutputEos, mSignalledError, entry, mpp, fed,
                   given, lost, stops, bounds>>

\* Every round counts, the ones that gave a frame too.
DrainRound(t) ==
    /\ pc[t] = "drain_round" /\ ~(IsDrain(t, "work") /\ mOutputEos)
    /\ mOutputEos' = (mOutputEos \/ GaveUp(t))
    /\ retry' = [retry EXCEPT ![t] = IF @ > kMaxRetryNum THEN @ ELSE @ + 1]
    /\ Goto(t, "drain_get")
    /\ UNCHANGED <<mode, life, signals, entry, locals, outcome, mpp, history,
                   bounds>>

-----------------------------------------------------------------------------
(***************************************************************************)
(* onFlush_sm(), on the looper; onStop() and onReset() call it unless      *)
(* mFlushed says there is nothing to flush.                                *)
(***************************************************************************)

\* A wrong ResetFlags: a forced end of stream outlives the flush.
MutResetFlags ==
    /\ mSignalledInputEos' = FALSE /\ mSignalledError' = FALSE
    /\ UNCHANGED mOutputEos
ResetFlags ==
    /\ mOutputEos' = FALSE
    /\ mSignalledInputEos' = FALSE /\ mSignalledError' = FALSE

FlushFlags ==
    /\ Idle(Looper) /\ flushes < MaxFlush
    /\ ResetFlags
    /\ flushes' = flushes + 1
    /\ raced' = \E t \in Drainer : ~Idle(t)
    /\ Goto(Looper, "flush")
    /\ UNCHANGED <<drain, life, entry, locals, outcome, mpp, fed, given, lost,
                   ended, drained, infos, prompt>>

\* reset (external) discards all packets and frames.
FlushMpp ==
    /\ pc[Looper] = "flush"
    /\ packets' = <<>> /\ frames' = <<>> /\ waiting' = FALSE
    /\ fed' = {} /\ given' = <<>> /\ lost' = {} /\ ended' = FALSE
    /\ drained' = raced
    /\ mFlushed' = TRUE
    /\ Goto(Looper, "idle")
    /\ UNCHANGED <<drain, mStarted, mOutputEos, signals, mLowLatencyMode,
                   mMppMpi, entry, locals, outcome, raced, bounds>>

\* onRelease() after its flush, if it needed one: the context is destroyed.
Release ==
    /\ Idle(Looper) /\ mFlushed /\ mStarted
    /\ mStarted' = FALSE
    /\ packets' = <<>> /\ frames' = <<>> /\ waiting' = FALSE
    /\ UNCHANGED <<drain, mFlushed, mOutputEos, signals, mLowLatencyMode,
                   mMppMpi, pc, entry, locals, outcome, history, bounds>>

-----------------------------------------------------------------------------
ProcessNext ==
    \/ EnsureFirst \/ SendPacket \/ SendTimesOut \/ GetPicture
    \/ GetInfo \/ GetFails \/ Config \/ NoPicture \/ Finish
    \/ DrainEnsureFails \/ DrainDone

DrainNext(t) ==
    \/ DrainPicture(t) \/ DrainGive(t) \/ DrainEmptyEos(t) \/ DrainInfo(t)
    \/ DrainInfoFails(t) \/ DrainCopyFails(t) \/ DrainEmpty(t) \/ DrainRound(t)

MppNext == MppDecode \/ MppInfoChange

Next ==
    \/ Process \/ ProcessNext \/ FlushFlags \/ FlushMpp \/ Release \/ MppNext
    \/ \E m \in DrainModes : DrainBegin(Looper, m)
    \/ \E t \in Drainer : DrainBegin(t, "NO_EOS")
    \/ \E t \in Thread : DrainNext(t)

Spec == Init /\ [][Next]_vars

\* The looper goes on inside a call, and so does MPP.
FairSpec ==
    /\ Spec
    /\ WF_vars(ProcessNext \/ FlushMpp)
    /\ \A t \in Thread : WF_vars(DrainNext(t))
    /\ WF_vars(MppNext)

-----------------------------------------------------------------------------
(***************************************************************************)
(* Properties.                                                             *)
(***************************************************************************)

\* The values of the variables.
TypeOK ==
    /\ {mStarted, mFlushed, mOutputEos, mSignalledInputEos, mSignalledError,
        mLowLatencyMode, mMppMpi} \subseteq BOOLEAN
    /\ \A t \in Thread : entry[t] \in
         {f \in Frame : f.kind \in {"picture", "last"}} \cup {NoFrame}
    /\ mode \in [Thread -> {"work", "NO_EOS", "WITH_EOS"}]
    /\ retry \in [Thread -> 0 .. kMaxRetryNum + 1]
    /\ work \in Work \cup {NoWork} /\ eos \in BOOLEAN
    /\ {sendPacketFlag, needGetFrame, gotFrame} \subseteq BOOLEAN
    /\ outcome \in [Work -> Outcome]
    /\ packets \in Seq(Packet) /\ Len(packets) <= PacketCap
    /\ frames \in Seq(Frame) /\ waiting \in BOOLEAN
    /\ fed \subseteq Work /\ given \in Seq(Work)
    /\ lost \subseteq Work /\ {ended, raced, drained} \subseteq BOOLEAN
    /\ infos \in 0 .. MaxInfo /\ flushes \in 0 .. MaxFlush

\* No stop() or reset() has drained since the last flush, nor during it.
Alone == ~drained

Given == {given[i] : i \in DOMAIN given}

\* Frames reach the client in the order of their packets, each once, as long
\* as no stop() or reset() takes some of them beside the looper.
InOrder == Alone => \A i, j \in DOMAIN given : i < j => given[i] < given[j]

\* Once the client has the end of stream it has the frame of every packet MPP
\* took, although drainInternal() counts its rounds.  Three conditions: MPP
\* answers in time and holds no more than the rounds can take (a stream is cut
\* otherwise); no stop() or reset() takes frames too; and the frames that
\* drainInternal() itself could not copy are lost, with no error told.  A frame
\* process() could not copy is an error, and no end of stream follows it.
EosIsComplete == ended /\ prompt /\ Alone => fed \subseteq Given \cup lost

\* onStop(), onReset() and onRelease(), on the looper, skip the flush when
\* mFlushed is set: then there is nothing to flush, no flag and nothing in MPP.
\* stop() and reset() drain before they come there, on the client's thread;
\* only a drain that overlaps a flush may leave something behind it.
NothingToFlush ==
    mFlushed /\ Idle(Looper) /\ ~raced =>
        /\ ~mOutputEos /\ ~mSignalledInputEos /\ ~mSignalledError
        /\ packets = <<>> /\ frames = <<>> /\ ~waiting

\* If MPP answers in time, and no stop() or reset() takes the frames, process()
\* gives up no work as unsent: a full queue of packets means there is a frame
\* to take, and after a frame the packet is sent again.  (A work with the end of
\* stream may still be cut: it does not ask for frames before its drain.)
LoopSends ==
    [][\A w \in Work : prompt /\ Alone /\ outcome[w] = "busy" =>
          outcome'[w] # "unsent"]_vars

\* "may block, quit util enqueue success" (C2RKMpiDec.cpp, line 988): no
\* work leaves process() with its input neither sent nor refused.
EveryWorkSent == \A w \in Work : outcome[w] \notin {"unsent", "cut"}

\* Every process() and every drain() returns; in low latency mode, which asks
\* for a frame until there is one, only if MPP does its part and no stop() takes
\* the frame.
CallsEnd ==
    \A t \in Thread : pc[t] # "idle" ~>
        pc[t] = "idle" \/ (mLowLatencyMode /\ ~(prompt /\ Alone))
=============================================================================
