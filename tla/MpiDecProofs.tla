---------------------------- MODULE MpiDecProofs ----------------------------
(***************************************************************************)
(* The decoder's session, for any number of works and draining threads and *)
(* any sizes of MPP's queues: frames come back in order, an input is not   *)
(* left unsent, a skipped flush had nothing to flush, and the end of       *)
(* stream comes after every frame if the rounds of drainInternal() are     *)
(* enough for what MPP holds.                                              *)
(***************************************************************************)
EXTENDS MpiDec, TLAPS, SequenceTheorems

USE DEF life, signals, flags, drain, locals, bounds, mpp, stops, history, Goto, Idle,
        Draining, IsDrain

-----------------------------------------------------------------------------
(***************************************************************************)
(* The types.                                                              *)
(***************************************************************************)

DrainPlace == {"drain_get", "drain_give", "drain_round"}
WorkPlace == {"ensure", "send", "out", "config", "finish"}
Place == {"idle", "flush"} \cup WorkPlace \cup DrainPlace
Taken == {f \in Frame : f.kind \in Pictures} \cup {NoFrame}

FlagsOK ==
    /\ {mStarted, mFlushed, mOutputEos, mSignalledInputEos, mSignalledError,
        mLowLatencyMode, mMppMpi} \subseteq BOOLEAN
    /\ {sendPacketFlag, needGetFrame, gotFrame, eos, waiting, ended, prompt, raced,
        drained} \subseteq BOOLEAN

\* process() has a work: it is not in a drain() of its own.
AtWork ==
    \/ pc[Looper] \in WorkPlace
    \/ pc[Looper] \in DrainPlace /\ mode[Looper] = "work"

\* A thread has a frame just when it is between getoutframe() and finishWork().
ThreadsOK ==
    /\ pc \in [Thread -> Place]
    /\ entry \in [Thread -> Taken]
    /\ mode \in [Thread -> {"work", "NO_EOS", "WITH_EOS"}]
    /\ retry \in [Thread -> 0 .. kMaxRetryNum + 1]
    /\ \A t \in Thread : pc[t] \in {"finish", "drain_give"} <=> entry[t] # NoFrame

WorkOK ==
    /\ work \in Work \cup {NoWork} /\ outcome \in [Work -> Outcome]
    /\ work # NoWork <=> AtWork

QueuesOK ==
    /\ packets \in Seq(Packet) /\ Len(packets) <= PacketCap
    /\ frames \in Seq(Frame)

HistoryOK ==
    /\ fed \subseteq Work /\ given \in Seq(Work) /\ lost \subseteq Work
    /\ infos \in 0 .. MaxInfo /\ flushes \in 0 .. MaxFlush

TypeInv == FlagsOK /\ ThreadsOK /\ WorkOK /\ QueuesOK /\ HistoryOK

\* The place of no work is none of the works.
LEMMA NoWorkIsNone == \A w \in Work : w # NoWork
  BY DecAssumption DEF Work, NoWork

\* The type invariant of the runs follows.
LEMMA TypesOfTypeInv == ASSUME TypeInv PROVE TypeOK
<1>1. \A t \in Thread : entry[t] \in {f \in Frame : f.kind \in {"picture", "last"}} \cup {NoFrame}
  BY DEF TypeInv, ThreadsOK, Taken, Pictures
<1>2. QED
  BY <1>1 DEF TypeInv, TypeOK, FlagsOK, ThreadsOK, WorkOK, QueuesOK, HistoryOK

\* What the operations on MPP's queues leave in them.
LEMMA TailIsSeq ==
    ASSUME NEW S, NEW s \in Seq(S), s # <<>>
    PROVE  /\ Tail(s) \in Seq(S) /\ Head(s) \in S
           /\ Len(s) \in Nat /\ Len(s) > 0 /\ Len(Tail(s)) = Len(s) - 1
           /\ Head(s) = s[1]
           /\ \A i \in 1 .. Len(s) - 1 : Tail(s)[i] = s[i + 1]
  OBVIOUS

\* Append adds one, and leaves the others where they were.
LEMMA AppendIsSeq ==
    ASSUME NEW S, NEW s \in Seq(S), NEW e \in S
    PROVE  /\ Append(s, e) \in Seq(S)
           /\ Len(s) \in Nat /\ Len(Append(s, e)) = Len(s) + 1
           /\ \A i \in 1 .. Len(s) : Append(s, e)[i] = s[i]
           /\ Append(s, e)[Len(s) + 1] = e
  OBVIOUS

\* Two at once are one after the other.
LEMMA AppendTwo ==
    ASSUME NEW S, NEW s \in Seq(S), NEW e \in S, NEW f \in S
    PROVE  s \o <<e, f>> = Append(Append(s, e), f)
  OBVIOUS

\* The values the session begins with.
LEMMA TypeInit == Init => TypeInv
<1> SUFFICES ASSUME Init PROVE TypeInv
  OBVIOUS
<1> USE DecAssumption DEF Init
<1>1. FlagsOK
  BY DEF FlagsOK
<1>2. ThreadsOK
  BY DEF ThreadsOK, Place, Taken
<1>3. WorkOK /\ QueuesOK /\ HistoryOK
  BY DEF WorkOK, Outcome, QueuesOK, HistoryOK, AtWork, WorkPlace, DrainPlace, Thread
<1>4. QED
  BY <1>1, <1>2, <1>3 DEF TypeInv

(***************************************************************************)
(* Which actions change what.                                              *)
(***************************************************************************)

\* The variables of the works, the queues and the flags, and the actions that change them.
LEMMA WhoChanges ==
    ASSUME [Next]_vars
    PROVE  /\ \/ UNCHANGED <<packets, frames, waiting>>
              \/ SendPacket \/ GetPicture \/ GetInfo \/ GetFails \/ FlushMpp \/ Release
              \/ MppDecode \/ MppInfoChange
              \/ \E t \in Thread : \/ DrainPicture(t) \/ DrainEmptyEos(t)
                                   \/ DrainInfo(t) \/ DrainInfoFails(t) \/ DrainCopyFails(t)
           /\ \/ UNCHANGED <<entry, given>>
              \/ GetPicture \/ Finish \/ FlushMpp
              \/ \E t \in Thread : DrainPicture(t) \/ DrainGive(t)
           /\ \/ UNCHANGED <<work, outcome>>
              \/ Process \/ EnsureFirst \/ GetFails \/ Config \/ NoPicture
              \/ DrainEnsureFails \/ DrainDone
           /\ UNCHANGED fed \/ SendPacket \/ FlushMpp
           /\ UNCHANGED <<infos, flushes>> \/ FlushFlags \/ MppInfoChange
<1> USE DEF Next, ProcessNext, DrainNext, MppNext, vars,
       Process, EnsureFirst, Corrupted, End, SendPacket, AfterSend,
       SendTimesOut, GetPicture, Is, GetInfo, InfoChange,
       GetFails, Config, NoPicture, Finish, Give, AfterFinish,
       DrainEnsureFails, DrainDone, FlushFlags, ResetFlags, FlushMpp,
       Release, MppDecode, MppInfoChange, DrainPicture, DrainGive,
       DrainEmptyEos, DrainNothing, DrainInfo, DrainInfoFails, DrainCopyFails,
       DrainEmpty, DrainRound, GaveUp, DrainBegin
<1>1. \/ UNCHANGED <<packets, frames, waiting>>
      \/ SendPacket \/ GetPicture \/ GetInfo \/ GetFails \/ FlushMpp \/ Release
      \/ MppDecode \/ MppInfoChange
      \/ \E t \in Thread : \/ DrainPicture(t) \/ DrainEmptyEos(t)
                           \/ DrainInfo(t) \/ DrainInfoFails(t) \/ DrainCopyFails(t)
  OBVIOUS
<1>2. \/ UNCHANGED <<entry, given>>
      \/ GetPicture \/ Finish \/ FlushMpp
      \/ \E t \in Thread : DrainPicture(t) \/ DrainGive(t)
  OBVIOUS
<1>3. \/ UNCHANGED <<work, outcome>>
      \/ Process \/ EnsureFirst \/ GetFails \/ Config \/ NoPicture
      \/ DrainEnsureFails \/ DrainDone
  OBVIOUS
<1>4. UNCHANGED fed \/ SendPacket \/ FlushMpp
  OBVIOUS
<1>5. UNCHANGED <<infos, flushes>> \/ FlushFlags \/ MppInfoChange
  OBVIOUS
<1> QED
  BY <1>1, <1>2, <1>3, <1>4, <1>5

\* What kind of MPP it is does not change.
LEMMA PromptStays == ASSUME [Next]_vars PROVE UNCHANGED prompt
  BY DEF Next, ProcessNext, DrainNext, MppNext, vars,
     Process, EnsureFirst, Corrupted, SendPacket,
     SendTimesOut, GetPicture, GetInfo,
     GetFails, Config, NoPicture, Finish,
     DrainEnsureFails, DrainDone, FlushFlags, FlushMpp,
     Release, MppDecode, MppInfoChange, DrainPicture, DrainGive,
     DrainEmptyEos, DrainInfo, DrainInfoFails, DrainCopyFails,
     DrainEmpty, DrainRound, DrainBegin

\* Flags stay flags.
LEMMA FlagsStep == ASSUME FlagsOK, [Next]_vars PROVE FlagsOK'
  BY DecAssumption DEF FlagsOK, MayProcess, Next, ProcessNext, DrainNext, MppNext, vars,
       Process, EnsureFirst, Corrupted, End, SendPacket, AfterSend,
       SendTimesOut, GetPicture, Is, GetInfo, InfoChange,
       GetFails, Config, NoPicture, Finish, Give, AfterFinish,
       DrainEnsureFails, DrainDone, FlushFlags, ResetFlags, FlushMpp,
       Release, MppDecode, MppInfoChange, DrainPicture, DrainGive,
       DrainEmptyEos, DrainNothing, DrainInfo, DrainInfoFails, DrainCopyFails,
       DrainEmpty, DrainRound, GaveUp, DrainBegin

\* process() has a work from its first step to its last.
LEMMA WorkStep == ASSUME TypeInv, [Next]_vars PROVE WorkOK'
<1> USE DEF TypeInv, WorkOK, Outcome, NoWork
<1>1. work' \in Work \cup {NoWork} /\ outcome' \in [Work -> Outcome]
  <2>1. CASE UNCHANGED <<work, outcome>>
    BY <2>1
  <2>2. CASE Process
    BY <2>2 DEF Process
  <2>3. CASE EnsureFirst \/ GetFails \/ Config \/ NoPicture \/ DrainEnsureFails \/ DrainDone
    BY <2>3 DEF EnsureFirst, GetFails, Config, NoPicture, DrainEnsureFails, DrainDone,
       Corrupted, End
  <2>4. QED
    BY <2>1, <2>2, <2>3, WhoChanges
<1>2. (work # NoWork <=> AtWork)'
  <2> USE DecAssumption DEF ThreadsOK, AtWork, WorkPlace, DrainPlace, Thread
  <2>1. CASE Process
    <3>1. \/ UNCHANGED <<pc, work, mode>>
          \/ /\ work' \in Work /\ pc' = [pc EXCEPT ![Looper] = "ensure"]
    BY <2>1 DEF Process
    <3>2. CASE UNCHANGED <<pc, work, mode>>
      BY <3>2
    <3>3. CASE work' \in Work /\ pc' = [pc EXCEPT ![Looper] = "ensure"]
      <4>1. work' # NoWork
        BY <3>3, NoWorkIsNone
      <4>2. pc'[Looper] = "ensure"
        BY <3>3
      <4>3. QED
        BY <4>1, <4>2
    <3>4. QED
      BY <3>1, <3>2, <3>3
  <2>2. CASE ProcessNext
    BY <2>2 DEF ProcessNext, Process, EnsureFirst, Corrupted, End, SendPacket, AfterSend,
       SendTimesOut, GetPicture, Is, GetInfo, InfoChange,
       GetFails, Config, NoPicture, Finish, Give, AfterFinish,
       DrainEnsureFails, DrainDone, FlushFlags, ResetFlags, FlushMpp,
       Release, MppDecode, MppInfoChange, DrainPicture, DrainGive,
       DrainEmptyEos, DrainNothing, DrainInfo, DrainInfoFails, DrainCopyFails,
       DrainEmpty, DrainRound, GaveUp, DrainBegin
  <2>3. CASE FlushFlags \/ FlushMpp \/ Release \/ MppNext \/ UNCHANGED vars
    BY <2>3 DEF MppNext, vars, Process, EnsureFirst, Corrupted, End, SendPacket, AfterSend,
       SendTimesOut, GetPicture, Is, GetInfo, InfoChange,
       GetFails, Config, NoPicture, Finish, Give, AfterFinish,
       DrainEnsureFails, DrainDone, FlushFlags, ResetFlags, FlushMpp,
       Release, MppDecode, MppInfoChange, DrainPicture, DrainGive,
       DrainEmptyEos, DrainNothing, DrainInfo, DrainInfoFails, DrainCopyFails,
       DrainEmpty, DrainRound, GaveUp, DrainBegin
  <2>4. ASSUME NEW t \in Thread, NEW m \in DrainModes \cup {"NO_EOS"}, DrainBegin(t, m)
        PROVE  (work # NoWork <=> AtWork)'
    BY <2>4 DEF DrainBegin
  <2>5. ASSUME NEW t \in Thread, DrainNext(t)
        PROVE  (work # NoWork <=> AtWork)'
    BY <2>5 DEF DrainNext, Process, EnsureFirst, Corrupted, End, SendPacket, AfterSend,
       SendTimesOut, GetPicture, Is, GetInfo, InfoChange,
       GetFails, Config, NoPicture, Finish, Give, AfterFinish,
       DrainEnsureFails, DrainDone, FlushFlags, ResetFlags, FlushMpp,
       Release, MppDecode, MppInfoChange, DrainPicture, DrainGive,
       DrainEmptyEos, DrainNothing, DrainInfo, DrainInfoFails, DrainCopyFails,
       DrainEmpty, DrainRound, GaveUp, DrainBegin
  <2>6. QED
    BY <2>1, <2>2, <2>3, <2>4, <2>5 DEF Next
<1>3. QED
  BY <1>1, <1>2

\* MPP's queues hold packets and frames, no more packets than fit.
LEMMA QueuesStep == ASSUME TypeInv, [Next]_vars PROVE QueuesOK'
<1> USE DecAssumption DEF TypeInv, QueuesOK
<1>1. CASE UNCHANGED <<packets, frames, waiting>>
  BY <1>1
<1>2. CASE SendPacket
  <2>1. work \in Work /\ eos \in BOOLEAN
    BY <1>2 DEF SendPacket, WorkOK, AtWork, WorkPlace, FlagsOK
  <2>2. [pts |-> work, eos |-> eos] \in Packet
    BY <2>1 DEF Packet
  <2>3. QED
    BY <1>2, <2>2, AppendIsSeq DEF SendPacket
<1>3. CASE packets' = <<>> /\ frames' = <<>>
  BY <1>3
<1>4. CASE frames # <<>> /\ frames' = Tail(frames) /\ UNCHANGED packets
  BY <1>4, TailIsSeq
<1>5. ASSUME CanDecode
      PROVE  /\ packets # <<>> /\ Tail(packets) \in Seq(Packet)
             /\ Len(Tail(packets)) <= PacketCap
             /\ \A kind \in {"picture", "last", "eos", "info"} :
                   [kind |-> kind, pts |-> Head(packets).pts] \in Frame
  <2>1. packets # <<>> /\ Tail(packets) \in Seq(Packet) /\ Len(Tail(packets)) <= PacketCap
    BY <1>5, TailIsSeq DEF CanDecode
  <2>2. Head(packets) \in Packet
    BY <2>1, TailIsSeq
  <2>3. Head(packets).pts \in Work
    BY <2>2 DEF Packet
  <2>4. QED
    BY <2>1, <2>3 DEF Frame
<1>6. CASE MppInfoChange
  BY <1>5, <1>6, AppendIsSeq DEF MppInfoChange
<1>7. CASE MppDecode
  <2>1. packets' = Tail(packets) /\ CanDecode
    BY <1>7 DEF MppDecode
  <2> DEFINE F(kind) == [kind |-> kind, pts |-> Head(packets).pts]
  <2>2. F("picture") \in Frame /\ F("last") \in Frame /\ F("eos") \in Frame
    BY <1>5, <2>1
  <2>3. \/ frames' = Append(frames, F("picture")) \/ frames' = Append(frames, F("last"))
        \/ frames' = frames \o <<F("picture"), F("eos")>> \/ frames' = frames
    BY <1>7 DEF MppDecode
  <2> HIDE DEF F
  <2>4. /\ Append(frames, F("picture")) \in Seq(Frame) /\ Append(frames, F("last")) \in Seq(Frame)
        /\ frames \o <<F("picture"), F("eos")>> = Append(Append(frames, F("picture")), F("eos"))
    BY <2>2, AppendIsSeq, AppendTwo
  <2>5. frames' \in Seq(Frame)
    <3>1. Append(Append(frames, F("picture")), F("eos")) \in Seq(Frame)
      BY <2>2, <2>4, AppendIsSeq
    <3>2. QED
      BY <2>3, <2>4, <3>1
  <2>6. QED
    BY <1>5, <2>1, <2>5
<1>8. QED
  <2>1. ASSUME NEW t \in Thread,
               \/ GetPicture \/ GetInfo \/ GetFails
               \/ DrainPicture(t) \/ DrainEmptyEos(t) \/ DrainInfo(t) \/ DrainInfoFails(t)
               \/ DrainCopyFails(t)
        PROVE  frames # <<>> /\ frames' = Tail(frames) /\ UNCHANGED packets
    BY <2>1 DEF GetPicture, GetInfo, GetFails, DrainPicture, DrainEmptyEos,
       DrainInfo, DrainInfoFails, DrainCopyFails, InfoChange, Is
  <2>2. FlushMpp \/ Release => packets' = <<>> /\ frames' = <<>>
    BY DEF FlushMpp, Release
  <2>3. QED
    BY <1>1, <1>2, <1>3, <1>4, <1>6, <1>7, <2>1, <2>2, WhoChanges DEF Thread

\* What was taken and given are works.
LEMMA HistoryStep == ASSUME TypeInv, [Next]_vars PROVE HistoryOK'
<1> USE DecAssumption DEF TypeInv, HistoryOK
<1>1. infos' \in 0 .. MaxInfo /\ flushes' \in 0 .. MaxFlush
  <2>1. /\ infos' = infos \/ (infos' = infos + 1 /\ infos < MaxInfo)
        /\ flushes' = flushes \/ (flushes' = flushes + 1 /\ flushes < MaxFlush)
    BY WhoChanges DEF FlushFlags, MppInfoChange
  <2>2. QED
    BY <2>1
<1>2. fed' \subseteq Work
  BY WhoChanges DEF SendPacket, FlushMpp, WorkOK, AtWork, WorkPlace
<1>2a. lost' \subseteq Work
  <2>1. \/ UNCHANGED lost \/ lost' = {}
        \/ frames # <<>> /\ lost' = lost \cup {Head(frames).pts}
    BY DEF Next, ProcessNext, DrainNext, MppNext, vars,
       Process, EnsureFirst, SendPacket,
       SendTimesOut, GetPicture, GetInfo,
       GetFails, Config, NoPicture, Finish,
       DrainEnsureFails, DrainDone, FlushFlags, FlushMpp,
       Release, MppDecode, MppInfoChange, DrainPicture, DrainGive,
       DrainEmptyEos, DrainInfo, DrainInfoFails, DrainCopyFails, Is,
       DrainEmpty, DrainRound, DrainBegin
  <2>2. frames # <<>> => Head(frames).pts \in Work
    <3>1. frames # <<>> => Head(frames) \in Frame
      BY TailIsSeq DEF QueuesOK
    <3>2. QED
      BY <3>1 DEF Frame
  <2>3. QED
    BY <2>1, <2>2
<1>3. ASSUME NEW t \in Thread, pc[t] \in {"finish", "drain_give"}
      PROVE  Append(given, entry[t].pts) \in Seq(Work)
  <2>1. entry[t].pts \in Work
    BY <1>3 DEF ThreadsOK, Taken, Frame
  <2>2. QED
    BY <2>1, AppendIsSeq
<1>4. given' \in Seq(Work)
  <2>1. Finish => given' = Append(given, entry[Looper].pts) /\ pc[Looper] = "finish"
    BY DEF Finish, Give
  <2>2. \A t \in Thread : DrainGive(t) =>
           given' = Append(given, entry[t].pts) /\ pc[t] = "drain_give"
    BY DEF DrainGive, Give
  <2>3. FlushMpp => given' = <<>>
    BY DEF FlushMpp
  <2>4. (GetPicture \/ \E t \in Thread : DrainPicture(t)) => UNCHANGED given
    BY DEF GetPicture, DrainPicture
  <2>5. \/ UNCHANGED given
        \/ given' = <<>>
        \/ \E t \in Thread : pc[t] \in {"finish", "drain_give"}
                             /\ given' = Append(given, entry[t].pts)
    BY <2>1, <2>2, <2>3, <2>4, WhoChanges DEF Thread
  <2>6. CASE \E t \in Thread : pc[t] \in {"finish", "drain_give"}
                              /\ given' = Append(given, entry[t].pts)
    BY <1>3, <2>6
  <2>7. CASE given' = <<>>
    BY <2>7
  <2>8. CASE UNCHANGED given
    BY <2>8
  <2>9. QED
    BY <2>5, <2>6, <2>7, <2>8
<1>5. QED
  BY <1>1, <1>2, <1>2a, <1>4

\* The count of rounds stops one above kMaxRetryNum.
LEMMA RetryRange ==
    ASSUME NEW r \in 0 .. kMaxRetryNum + 1
    PROVE  /\ 0 \in 0 .. kMaxRetryNum + 1
           /\ (IF r > kMaxRetryNum THEN r ELSE r + 1) \in 0 .. kMaxRetryNum + 1
  BY DecAssumption

\* Where the threads are.
LEMMA PlacesStep ==
    ASSUME TypeInv, [Next]_vars
    PROVE  /\ pc' \in [Thread -> Place]
           /\ mode' \in [Thread -> {"work", "NO_EOS", "WITH_EOS"}]
           /\ retry' \in [Thread -> 0 .. kMaxRetryNum + 1]
<1> USE DecAssumption DEF TypeInv, ThreadsOK
<1>1. \/ UNCHANGED pc
      \/ \E t \in Thread, p \in Place : pc' = [pc EXCEPT ![t] = p]
  <2> USE DEF Thread, Place, DrainPlace, WorkPlace, Process, EnsureFirst, Corrupted, End,
     SendPacket, AfterSend, SendTimesOut, GetPicture, Is, GetInfo, InfoChange, GetFails,
     Config, NoPicture, Finish, Give, AfterFinish, DrainEnsureFails, DrainDone, FlushFlags,
     ResetFlags, FlushMpp, Release, MppDecode, MppInfoChange, DrainPicture, DrainGive,
     DrainEmptyEos, DrainNothing, DrainInfo, DrainInfoFails,
     DrainCopyFails, DrainEmpty, DrainRound, GaveUp, DrainBegin
  <2>1. CASE Process \/ FlushFlags \/ FlushMpp \/ Release \/ MppNext \/ UNCHANGED vars
    BY <2>1 DEF MppNext, vars
  <2>2. CASE ProcessNext
    BY <2>2 DEF ProcessNext
  <2>3. ASSUME NEW t \in Thread, NEW m, DrainBegin(t, m)
        PROVE  pc' = [pc EXCEPT ![t] = "drain_get"]
    BY <2>3
  <2>4. ASSUME NEW t \in Thread, DrainNext(t)
        PROVE  \E p \in Place : pc' = [pc EXCEPT ![t] = p]
    BY <2>4 DEF DrainNext
  <2>5. QED
    BY <2>1, <2>2, <2>3, <2>4 DEF Next
<1>2. \/ UNCHANGED mode
      \/ \E t \in Thread, m \in {"work", "NO_EOS", "WITH_EOS"} : mode' = [mode EXCEPT ![t] = m]
  BY DEF Next, ProcessNext, DrainNext, MppNext, vars, Thread, Process, EnsureFirst, Corrupted,
     End, SendPacket, AfterSend, SendTimesOut, GetPicture, Is, GetInfo, InfoChange,
     GetFails, Config, NoPicture, Finish, Give, AfterFinish, DrainEnsureFails, DrainDone,
     FlushFlags, ResetFlags, FlushMpp, Release, MppDecode, MppInfoChange, DrainPicture,
     DrainGive, DrainEmptyEos, DrainNothing, DrainInfo, DrainInfoFails,
     DrainCopyFails, DrainEmpty, DrainRound, GaveUp, DrainBegin
<1>3. retry' \in [Thread -> 0 .. kMaxRetryNum + 1]
  <2>1. \/ UNCHANGED retry
        \/ \E t \in Thread : \/ retry' = [retry EXCEPT ![t] = 0]
                             \/ retry' = [retry EXCEPT ![t] = IF @ > kMaxRetryNum THEN @ ELSE @ + 1]
    BY DEF Next, ProcessNext, DrainNext, MppNext, vars, Thread, Process, EnsureFirst, Corrupted,
       End, SendPacket, AfterSend, SendTimesOut, GetPicture, Is, GetInfo, InfoChange,
       GetFails, Config, NoPicture, Finish, Give, AfterFinish, DrainEnsureFails, DrainDone,
       FlushFlags, ResetFlags, FlushMpp, Release, MppDecode, MppInfoChange, DrainPicture,
       DrainGive, DrainEmptyEos, DrainNothing, DrainInfo, DrainInfoFails,
       DrainCopyFails, DrainEmpty, DrainRound, GaveUp, DrainBegin
  <2>2. ASSUME NEW t \in Thread,
               \/ retry' = [retry EXCEPT ![t] = 0]
               \/ retry' = [retry EXCEPT ![t] = IF @ > kMaxRetryNum THEN @ ELSE @ + 1]
        PROVE  retry' \in [Thread -> 0 .. kMaxRetryNum + 1]
    <3>1. /\ retry[t] \in 0 .. kMaxRetryNum + 1 /\ 0 \in 0 .. kMaxRetryNum + 1
          /\ (IF retry[t] > kMaxRetryNum THEN retry[t] ELSE retry[t] + 1) \in 0 .. kMaxRetryNum + 1
      BY RetryRange
    <3>2. QED
      BY <2>2, <3>1
  <2>3. QED
    BY <2>1, <2>2
<1>4. pc' \in [Thread -> Place]
  BY <1>1
<1>5. mode' \in [Thread -> {"work", "NO_EOS", "WITH_EOS"}]
  BY <1>2
<1>6. QED
  BY <1>3, <1>4, <1>5

\* A thread has a frame in hand from getoutframe() to finishWork().
LEMMA HandStep ==
    ASSUME TypeInv, [Next]_vars
    PROVE  /\ entry' \in [Thread -> Taken]
           /\ (\A t \in Thread : pc[t] \in {"finish", "drain_give"} <=> entry[t] # NoFrame)'
<1> USE DEF TypeInv, ThreadsOK
<1> DEFINE Hand(t) == pc[t] \in {"finish", "drain_give"}
<1>1. ASSUME Is(Pictures)
      PROVE  Head(frames) \in Taken /\ Head(frames) # NoFrame
  <2>1. Head(frames) \in Frame /\ Head(frames).kind \in Pictures
    BY <1>1, TailIsSeq DEF Is, QueuesOK
  <2>2. Head(frames) \in Taken
    BY <2>1 DEF Taken
  <2>3. NoFrame.kind = "none" /\ "none" \notin Pictures
    BY DEF NoFrame, Pictures
  <2>4. QED
    BY <2>1, <2>2, <2>3
<1>2. ASSUME NEW t \in Thread, (GetPicture /\ t = Looper) \/ DrainPicture(t)
      PROVE  /\ entry' = [entry EXCEPT ![t] = Head(frames)] /\ Is(Pictures)
             /\ \E p \in {"finish", "drain_give"} : pc' = [pc EXCEPT ![t] = p]
  BY <1>2 DEF GetPicture, DrainPicture, Is, Pictures
<1>3. ASSUME NEW t \in Thread, (Finish /\ t = Looper) \/ DrainGive(t)
      PROVE  /\ entry' = [entry EXCEPT ![t] = NoFrame]
             /\ \E p \in {"out", "send", "drain_round"} : pc' = [pc EXCEPT ![t] = p]
  BY <1>3 DEF Finish, DrainGive, Give, AfterFinish
<1>4. \/ \E t \in Thread : (GetPicture /\ t = Looper) \/ DrainPicture(t)
      \/ \E t \in Thread : (Finish /\ t = Looper) \/ DrainGive(t)
      \/ /\ UNCHANGED entry
         /\ \/ UNCHANGED pc
            \/ \E t \in Thread, p \in Place \ {"finish", "drain_give"} :
                  pc' = [pc EXCEPT ![t] = p] /\ ~Hand(t)
  <2> USE DEF Thread, Place, DrainPlace, WorkPlace, Process, EnsureFirst, Corrupted, End,
     SendPacket, AfterSend, SendTimesOut, GetPicture, Is, GetInfo, InfoChange, GetFails,
     Config, NoPicture, Finish, Give, AfterFinish, DrainEnsureFails, DrainDone, FlushFlags,
     ResetFlags, FlushMpp, Release, MppDecode, MppInfoChange, DrainPicture, DrainGive,
     DrainEmptyEos, DrainNothing, DrainInfo, DrainInfoFails,
     DrainCopyFails, DrainEmpty, DrainRound, GaveUp, DrainBegin
  <2>1. CASE Process \/ FlushFlags \/ FlushMpp \/ Release \/ MppNext \/ UNCHANGED vars
    BY <2>1 DEF MppNext, vars
  <2>2. CASE ProcessNext
    BY <2>2 DEF ProcessNext
  <2>3. ASSUME NEW t \in Thread, NEW m, DrainBegin(t, m)
        PROVE  UNCHANGED entry /\ pc' = [pc EXCEPT ![t] = "drain_get"] /\ ~Hand(t)
    BY <2>3
  <2>4. ASSUME NEW t \in Thread, DrainNext(t)
        PROVE  \/ DrainPicture(t) \/ DrainGive(t)
               \/ /\ UNCHANGED entry /\ ~Hand(t)
                  /\ \E p \in Place \ {"finish", "drain_give"} : pc' = [pc EXCEPT ![t] = p]
    BY <2>4 DEF DrainNext
  <2>5. QED
    BY <2>1, <2>2, <2>3, <2>4 DEF Next
<1>5. CASE \E t \in Thread : (GetPicture /\ t = Looper) \/ DrainPicture(t)
  BY <1>1, <1>2, <1>5
<1>6. CASE \E t \in Thread : (Finish /\ t = Looper) \/ DrainGive(t)
  BY <1>3, <1>6 DEF Taken
<1>7. CASE /\ UNCHANGED entry
           /\ \/ UNCHANGED pc
              \/ \E t \in Thread, p \in Place \ {"finish", "drain_give"} :
                    pc' = [pc EXCEPT ![t] = p] /\ ~Hand(t)
  BY <1>7
<1>8. QED
  BY <1>4, <1>5, <1>6, <1>7

\* Every step keeps the types.
LEMMA TypeStep == TypeInv /\ [Next]_vars => TypeInv'
<1> SUFFICES ASSUME TypeInv, [Next]_vars PROVE TypeInv'
  OBVIOUS
<1>1. FlagsOK' /\ WorkOK' /\ QueuesOK' /\ HistoryOK'
  BY FlagsStep, WorkStep, QueuesStep, HistoryStep DEF TypeInv
<1>2. ThreadsOK'
  BY PlacesStep, HandStep DEF ThreadsOK
<1>3. QED
  BY <1>1, <1>2 DEF TypeInv

\* The types of every behaviour.
LEMMA TypeAlways == Spec => []TypeInv
<1>1. Init => TypeInv
  BY TypeInit
<1>2. TypeInv /\ [Next]_vars => TypeInv'
  BY TypeStep
<1>3. QED
  BY <1>1, <1>2, PTL DEF Spec

-----------------------------------------------------------------------------
(***************************************************************************)
(* The threads and the works.                                              *)
(***************************************************************************)

\* What the threads' drains are for.  A drain(WITH_EOS) never returns.
ModesInv ==
    /\ \A t \in Drainer :
          /\ pc[t] \in {"idle"} \cup DrainPlace
          /\ mode[t] # "WITH_EOS"
          /\ mode[t] = "work" => pc[t] = "idle"
          /\ pc[t] # "idle" => drained /\ (pc[Looper] = "flush" => raced)
    /\ raced => drained
    /\ mode[Looper] = "WITH_EOS" => pc[Looper] \in DrainPlace /\ "WITH_EOS" \in DrainModes
    /\ \A t \in Thread : pc[t] \notin DrainPlace => retry[t] = 0

\* Works begin in order, and the locals of process() follow its places.
WorksInv ==
    /\ \A v, w \in Work : v < w /\ outcome[w] # "none" => outcome[v] # "none"
    /\ work # NoWork =>
          /\ outcome[work] # "none"
          /\ \A v \in Work : v > work => outcome[v] = "none"
    /\ work = NoWork => ~sendPacketFlag
    /\ pc[Looper] \in {"ensure", "send"} => ~sendPacketFlag
    /\ pc[Looper] \in {"out", "config", "finish"} => ~eos
    /\ pc[Looper] \in DrainPlace /\ mode[Looper] = "work" => eos

\* A step of drainInternal() of one thread leaves the others where they are.
LEMMA ModesStep == ASSUME TypeInv, ModesInv, [Next]_vars PROVE ModesInv'
<1> USE DecAssumption DEF TypeInv, ThreadsOK, ModesInv, Thread, DrainPlace
<1>1. CASE Process \/ FlushMpp \/ Release \/ MppNext \/ UNCHANGED vars
  <2>1. CASE Process
    <3>1. /\ \E p \in {"idle", "ensure"} : pc' = [pc EXCEPT ![Looper] = p]
          /\ pc[Looper] = "idle" /\ UNCHANGED <<mode, retry, stops>>
      BY <2>1 DEF Process
    <3>2. QED
      BY <3>1
  <2>2. CASE FlushMpp
    BY <2>2 DEF FlushMpp, FlagsOK
  <2>3. CASE Release \/ MppNext \/ UNCHANGED vars
    <3>1. UNCHANGED <<pc, mode, retry, stops>>
      BY <2>3 DEF Release, MppNext, MppDecode, MppInfoChange, vars
    <3>2. QED
      BY <3>1
  <2>4. QED
    BY <1>1, <2>1, <2>2, <2>3
<1>1a. CASE FlushFlags
  <2>1. /\ pc' = [pc EXCEPT ![Looper] = "flush"] /\ pc[Looper] = "idle"
        /\ UNCHANGED <<mode, retry, drained>>
        /\ raced' = \E t \in Drainer : pc[t] # "idle"
    BY <1>1a DEF FlushFlags
  <2>2. raced' => drained'
    BY <2>1
  <2>3. \A t \in Drainer : pc'[t] # "idle" => drained' /\ raced'
    BY <2>1
  <2>4. QED
    BY <2>1, <2>2, <2>3
<1>2. CASE ProcessNext
  <2>1. CASE EnsureFirst \/ GetFails \/ Config \/ NoPicture \/ GetPicture \/ GetInfo \/ Finish
    BY <2>1 DEF EnsureFirst, GetFails, Config, NoPicture, GetPicture, GetInfo, Finish,
       AfterFinish, Corrupted, End
  <2>2. CASE SendPacket \/ SendTimesOut
    BY <2>2 DEF SendPacket, SendTimesOut, AfterSend
  <2>3. CASE DrainEnsureFails \/ DrainDone
    BY <2>3 DEF DrainEnsureFails, DrainDone, Corrupted, End
  <2>4. QED
    BY <1>2, <2>1, <2>2, <2>3 DEF ProcessNext
<1>3. ASSUME NEW t \in Thread, NEW m \in {"NO_EOS", "WITH_EOS"}, DrainBegin(t, m),
             m = "NO_EOS" \/ (t = Looper /\ m \in DrainModes)
      PROVE  ModesInv'
  BY <1>3 DEF DrainBegin
<1>4. ASSUME NEW t \in Thread, DrainNext(t)
      PROVE  ModesInv'
  <2>1. UNCHANGED mode
    BY <1>4 DEF DrainNext, DrainPicture, DrainGive, DrainEmptyEos, DrainInfo, DrainInfoFails,
       DrainCopyFails, DrainEmpty, DrainRound, DrainNothing
  <2>2. /\ pc[t] \in DrainPlace
        /\ \/ \E p \in DrainPlace : pc' = [pc EXCEPT ![t] = p]
              /\ \A u \in Thread : u # t => retry'[u] = retry[u]
           \/ /\ pc' = [pc EXCEPT ![t] = "idle"] /\ retry' = [retry EXCEPT ![t] = 0]
              /\ mode[t] = "NO_EOS"
    BY <1>4 DEF DrainNext, DrainPicture, DrainGive, DrainEmptyEos, DrainInfo, DrainInfoFails,
       DrainCopyFails, DrainEmpty, DrainRound, DrainNothing
  <2>3. UNCHANGED stops
    BY <1>4 DEF DrainNext, DrainPicture, DrainGive, DrainEmptyEos, DrainInfo, DrainInfoFails,
       DrainCopyFails, DrainEmpty, DrainRound
  <2>4. \A u \in Thread : pc'[u] = "flush" <=> pc[u] = "flush"
    BY <2>2
  <2>5. QED
    BY <2>1, <2>2, <2>3, <2>4
<1>5. QED
  BY <1>1, <1>1a, <1>2, <1>3, <1>4 DEF Next

\* Numbers of works are integers.
LEMMA WorkIsInt == \A w \in Work : w \in Int /\ w > 0
  BY DecAssumption DEF Work

\* process() returns: its work has begun before.
LEMMA EndWorks ==
    ASSUME TypeInv, WorksInv, NEW r \in Outcome \ {"none"}, End(r)
    PROVE  WorksInv'
<1>1. Looper \in Thread /\ pc \in [Thread -> Place] /\ outcome \in [Work -> Outcome]
  BY DEF TypeInv, ThreadsOK, WorkOK, Thread
<1>2. /\ \A v \in Work : outcome'[v] # "none" <=> outcome[v] # "none" \/ v = work
      /\ work' = NoWork /\ ~sendPacketFlag' /\ pc'[Looper] = "idle"
  BY <1>1 DEF End
<1>3. \A v \in Work : v = work => outcome[v] # "none"
  BY NoWorkIsNone DEF WorksInv
<1>4. \A v \in Work : outcome'[v] # "none" <=> outcome[v] # "none"
  BY <1>2, <1>3
<1>5. QED
  BY <1>2, <1>4 DEF WorksInv, DrainPlace

\* process() begins the next work.
LEMMA BeginWorks == ASSUME TypeInv, WorksInv, Process PROVE WorksInv'
<1>1. PICK w \in Work :
        /\ outcome[w] = "none" /\ \A v \in Work : v < w => outcome[v] # "none"
        /\ \E o \in {"busy", "bad_value"} : outcome' = [outcome EXCEPT ![w] = o]
        /\ \/ UNCHANGED <<pc, work, eos, sendPacketFlag, mode>>
           \/ /\ work' = w /\ pc' = [pc EXCEPT ![Looper] = "ensure"]
              /\ UNCHANGED <<sendPacketFlag, mode>>
  BY DEF Process
<1>2. /\ Looper \in Thread /\ pc \in [Thread -> Place] /\ outcome \in [Work -> Outcome]
      /\ pc[Looper] = "idle"
  BY DEF TypeInv, ThreadsOK, WorkOK, Thread, Process
<1>3. work = NoWork /\ ~sendPacketFlag
  BY <1>2 DEF TypeInv, WorkOK, WorksInv, AtWork, WorkPlace, DrainPlace
<1>4. \A v \in Work : v > w => outcome[v] = "none"
  BY <1>1 DEF WorksInv
<1>5. \A v \in Work : v < w \/ v = w \/ v > w
  BY WorkIsInt
<1>6. \A v \in Work : outcome'[v] # "none" <=> v = w \/ outcome[v] # "none"
  BY <1>1, <1>2
<1>7. \A v \in Work : outcome'[v] # "none" <=> v = w \/ v < w
  <2>1. \A v \in Work : v > w => ~(v = w \/ v < w)
    BY WorkIsInt
  <2>2. QED
    BY <1>1, <1>4, <1>5, <1>6, <2>1
<1>8. \A u, v \in Work : u < v /\ outcome'[v] # "none" => outcome'[u] # "none"
  <2>1. \A u, v \in Work : u < v /\ (v = w \/ v < w) => u < w
    BY WorkIsInt
  <2>2. QED
    BY <1>7, <2>1
<1>9. \A v \in Work : v > w => outcome'[v] = "none"
  <2>1. \A v \in Work : v > w => ~(v = w \/ v < w)
    BY WorkIsInt
  <2>2. QED
    BY <1>7, <2>1
<1>10. CASE UNCHANGED <<pc, work, eos, sendPacketFlag, mode>>
  BY <1>2, <1>3, <1>8, <1>10 DEF WorksInv, DrainPlace
<1>11. CASE work' = w /\ pc' = [pc EXCEPT ![Looper] = "ensure"] /\ UNCHANGED <<sendPacketFlag, mode>>
  <2>1. /\ pc'[Looper] = "ensure" /\ ~sendPacketFlag' /\ work' = w /\ w # NoWork
        /\ outcome'[w] # "none"
    BY <1>1, <1>2, <1>3, <1>6, <1>11, NoWorkIsNone
  <2>2. QED
    BY <1>8, <1>9, <2>1 DEF WorksInv, DrainPlace
<1>12. QED
  BY <1>1, <1>10, <1>11

\* Every step keeps the works in order.
LEMMA WorksStep == ASSUME TypeInv, ModesInv, WorksInv, [Next]_vars PROVE WorksInv'
<1> USE DecAssumption
<1>1. /\ Looper \in Thread /\ pc \in [Thread -> Place]
      /\ mode \in [Thread -> {"work", "NO_EOS", "WITH_EOS"}]
  BY DEF TypeInv, ThreadsOK, Thread
<1>2. CASE ProcessNext
  <2>1. CASE \E r \in Outcome \ {"none"} : End(r)
    BY <2>1, EndWorks
  <2>2. CASE EnsureFirst \/ GetFails \/ Config \/ NoPicture \/ DrainEnsureFails \/ DrainDone
    <3>1. CASE EnsureFirst /\ Goto(Looper, "send") /\ UNCHANGED <<locals, outcome, drain>>
      BY <1>1, <3>1 DEF WorksInv, DrainPlace, EnsureFirst
    <3>2. CASE Config /\ Goto(Looper, "out") /\ UNCHANGED <<locals, outcome, drain>>
      BY <1>1, <3>2 DEF WorksInv, DrainPlace, Config
    <3>3. QED
      BY <2>1, <2>2, <3>1, <3>2 DEF EnsureFirst, GetFails, Config, NoPicture,
         DrainEnsureFails, DrainDone, Corrupted, Outcome
  <2>3. CASE SendPacket \/ SendTimesOut
    <3>1. work # NoWork
      BY <2>3 DEF SendPacket, SendTimesOut, TypeInv, WorkOK, AtWork, WorkPlace
    <3>2. /\ UNCHANGED <<work, eos, outcome>>
          /\ \/ eos /\ mode'[Looper] = "work" /\ pc'[Looper] = "drain_get"
             \/ ~eos /\ pc'[Looper] = "out"
      BY <1>1, <2>3 DEF SendPacket, SendTimesOut, AfterSend
    <3>3. QED
      BY <3>1, <3>2 DEF WorksInv, DrainPlace
  <2>4. CASE GetPicture \/ GetInfo \/ Finish
    <3>1. work # NoWork /\ pc[Looper] \in {"out", "finish"}
      BY <2>4 DEF GetPicture, GetInfo, Finish, TypeInv, WorkOK, AtWork, WorkPlace
    <3>2. /\ UNCHANGED <<work, eos, outcome, sendPacketFlag>>
          /\ \/ pc'[Looper] \in {"finish", "config", "out"}
             \/ pc'[Looper] = "send" /\ ~sendPacketFlag
      BY <1>1, <2>4 DEF GetPicture, GetInfo, Finish, AfterFinish
    <3>3. QED
      BY <3>1, <3>2 DEF WorksInv, DrainPlace
  <2>5. QED
    BY <1>2, <2>2, <2>3, <2>4 DEF ProcessNext
<1>3. CASE FlushFlags \/ FlushMpp
  <2>1. /\ UNCHANGED <<mode, work, eos, outcome, sendPacketFlag>>
        /\ pc'[Looper] \in {"flush", "idle"}
    BY <1>1, <1>3 DEF FlushFlags, FlushMpp
  <2>2. QED
    BY <2>1 DEF WorksInv, DrainPlace
<1>4. CASE Release \/ MppNext \/ UNCHANGED vars
  <2>1. UNCHANGED <<pc, mode, locals, outcome>>
    BY <1>4 DEF Release, MppNext, MppDecode, MppInfoChange, vars
  <2>2. QED
    BY <2>1 DEF WorksInv
<1>5. ASSUME NEW t \in Thread, NEW m \in {"NO_EOS", "WITH_EOS"}, DrainBegin(t, m)
      PROVE  WorksInv'
  BY <1>1, <1>5 DEF DrainBegin, WorksInv, DrainPlace
<1>6. ASSUME NEW t \in Thread, DrainNext(t)
      PROVE  WorksInv'
  <2>1. UNCHANGED <<mode, work, outcome, sendPacketFlag, eos>>
    BY <1>6 DEF DrainNext, DrainPicture, DrainGive, DrainEmptyEos, DrainInfo, DrainInfoFails,
       DrainCopyFails, DrainEmpty, DrainRound, DrainNothing
  <2>2. /\ pc[t] \in DrainPlace
        /\ \E p \in DrainPlace \cup {"idle"} : pc' = [pc EXCEPT ![t] = p]
    BY <1>6 DEF DrainNext, DrainPicture, DrainGive, DrainEmptyEos, DrainInfo, DrainInfoFails,
       DrainCopyFails, DrainEmpty, DrainRound, DrainNothing, DrainPlace
  <2>3. QED
    BY <1>1, <2>1, <2>2 DEF WorksInv, DrainPlace
<1>7. QED
  BY <1>1, <1>2, <1>3, <1>4, <1>5, <1>6, BeginWorks DEF Next, Thread

-----------------------------------------------------------------------------
(***************************************************************************)
(* The order of the frames.  A timestamp goes from the unsent works to     *)
(* MPP's packets, its pictures, a thread's hand and the client: all of one *)
(* stage come before all of the stages it has not reached.                 *)
(***************************************************************************)

Hand == IF entry[Looper] = NoFrame THEN {} ELSE {entry[Looper].pts}
PictureAt(s) == {i \in DOMAIN s : s[i].kind \in Pictures}
ShownOf(s) == {s[i].pts : i \in PictureAt(s)}
QueuedOf(s) == {s[i].pts : i \in DOMAIN s}
Unsent == {w \in Work : outcome[w] = "none" \/ (w = work /\ ~sendPacketFlag)}
Before(S, T) == \A x \in S : \A y \in T : x < y
SortedPackets(s) == \A i, j \in DOMAIN s : i < j => s[i].pts < s[j].pts
SortedPictures(s) == \A i, j \in PictureAt(s) : i < j => s[i].pts < s[j].pts
SortedWorks(s) == \A i, j \in DOMAIN s : i < j => s[i] < s[j]

InStages(G, H, F, Q, U) ==
    /\ Before(G, H) /\ Before(G, F) /\ Before(G, Q) /\ Before(G, U)
    /\ Before(H, F) /\ Before(H, Q) /\ Before(H, U)
    /\ Before(F, Q) /\ Before(F, U)
    /\ Before(Q, U)

Ordered ==
    /\ SortedWorks(given) /\ SortedPictures(frames) /\ SortedPackets(packets)
    /\ InStages(Given, Hand, ShownOf(frames), QueuedOf(packets), Unsent)

\* Unless a stop() drains too, everything in MPP is in order.
OrderInv == Alone => Ordered

\* Without its first packet a sorted queue is sorted, and after it.
LEMMA TailPackets ==
    ASSUME NEW s \in Seq(Packet), s # <<>>, SortedPackets(s)
    PROVE  /\ SortedPackets(Tail(s)) /\ QueuedOf(Tail(s)) \subseteq QueuedOf(s)
           /\ Head(s).pts \in QueuedOf(s) /\ Before({Head(s).pts}, QueuedOf(Tail(s)))
<1>1. /\ Tail(s) \in Seq(Packet) /\ Len(s) \in Nat /\ Len(s) > 0
      /\ Len(Tail(s)) = Len(s) - 1 /\ Head(s) = s[1]
      /\ \A i \in 1 .. Len(s) - 1 : Tail(s)[i] = s[i + 1]
  BY TailIsSeq
<1>2. DOMAIN s = 1 .. Len(s) /\ DOMAIN Tail(s) = 1 .. Len(s) - 1
  BY <1>1
<1>3. \A i \in DOMAIN Tail(s) : i + 1 \in DOMAIN s /\ Tail(s)[i] = s[i + 1] /\ 1 < i + 1
  BY <1>1, <1>2
<1>4. \A i, j \in DOMAIN Tail(s) : i < j => i + 1 < j + 1
  BY <1>1, <1>2
<1>5. 1 \in DOMAIN s
  BY <1>1, <1>2
<1>6. SortedPackets(Tail(s))
  BY <1>3, <1>4 DEF SortedPackets
<1>7. QED
  BY <1>1, <1>3, <1>5, <1>6 DEF SortedPackets, QueuedOf, Before

\* The same of the pictures among the frames.
LEMMA TailFrames ==
    ASSUME NEW s \in Seq(Frame), s # <<>>, SortedPictures(s)
    PROVE  /\ SortedPictures(Tail(s)) /\ ShownOf(Tail(s)) \subseteq ShownOf(s)
           /\ Head(s).kind \in Pictures =>
                 Head(s).pts \in ShownOf(s) /\ Before({Head(s).pts}, ShownOf(Tail(s)))
<1>1. /\ Tail(s) \in Seq(Frame) /\ Len(s) \in Nat /\ Len(s) > 0
      /\ Len(Tail(s)) = Len(s) - 1 /\ Head(s) = s[1]
      /\ \A i \in 1 .. Len(s) - 1 : Tail(s)[i] = s[i + 1]
  BY TailIsSeq
<1>2. DOMAIN s = 1 .. Len(s) /\ DOMAIN Tail(s) = 1 .. Len(s) - 1
  BY <1>1
<1>3. \A i \in PictureAt(Tail(s)) : i + 1 \in PictureAt(s) /\ Tail(s)[i] = s[i + 1] /\ 1 < i + 1
  BY <1>1, <1>2 DEF PictureAt
<1>4. \A i, j \in PictureAt(Tail(s)) : i < j => i + 1 < j + 1
  BY <1>1, <1>2 DEF PictureAt
<1>5. Head(s).kind \in Pictures => 1 \in PictureAt(s)
  BY <1>1, <1>2 DEF PictureAt
<1>6. SortedPictures(Tail(s))
  BY <1>3, <1>4 DEF SortedPictures
<1>7. QED
  BY <1>1, <1>3, <1>5, <1>6 DEF SortedPictures, ShownOf, Before

\* A later packet at the end keeps the queue sorted.
LEMMA AppendPacket ==
    ASSUME NEW s \in Seq(Packet), NEW e \in Packet, SortedPackets(s),
           Before(QueuedOf(s), {e.pts})
    PROVE  /\ SortedPackets(Append(s, e))
           /\ QueuedOf(Append(s, e)) \subseteq QueuedOf(s) \cup {e.pts}
<1>1. /\ Append(s, e) \in Seq(Packet) /\ Len(s) \in Nat /\ Len(Append(s, e)) = Len(s) + 1
      /\ \A i \in 1 .. Len(s) : Append(s, e)[i] = s[i]
      /\ Append(s, e)[Len(s) + 1] = e
  BY AppendIsSeq
<1>2. DOMAIN s = 1 .. Len(s) /\ DOMAIN Append(s, e) = 1 .. Len(s) + 1
  BY <1>1
<1>3. \A i \in DOMAIN Append(s, e) :
         \/ i \in DOMAIN s /\ Append(s, e)[i] = s[i]
         \/ i = Len(s) + 1 /\ Append(s, e)[i] = e
  BY <1>1, <1>2
<1>4. \A i, j \in DOMAIN Append(s, e) : i < j => i \in DOMAIN s
  BY <1>1, <1>2
<1>5. \A i \in DOMAIN s : s[i].pts < e.pts
  BY DEF Before, QueuedOf
<1>6. \A i \in DOMAIN s : i # Len(s) + 1
  BY <1>1, <1>2
<1>7. SortedPackets(Append(s, e))
  BY <1>3, <1>4, <1>5, <1>6 DEF SortedPackets
<1>8. QED
  BY <1>3, <1>7 DEF QueuedOf

\* So does a later picture, or a frame that is none.
LEMMA AppendFrame ==
    ASSUME NEW s \in Seq(Frame), NEW e \in Frame, SortedPictures(s),
           e.kind \in Pictures => Before(ShownOf(s), {e.pts})
    PROVE  /\ SortedPictures(Append(s, e))
           /\ ShownOf(Append(s, e)) \subseteq
                 ShownOf(s) \cup (IF e.kind \in Pictures THEN {e.pts} ELSE {})
<1>1. /\ Append(s, e) \in Seq(Frame) /\ Len(s) \in Nat /\ Len(Append(s, e)) = Len(s) + 1
      /\ \A i \in 1 .. Len(s) : Append(s, e)[i] = s[i]
      /\ Append(s, e)[Len(s) + 1] = e
  BY AppendIsSeq
<1>2. DOMAIN s = 1 .. Len(s) /\ DOMAIN Append(s, e) = 1 .. Len(s) + 1
  BY <1>1
<1>3. \A i \in PictureAt(Append(s, e)) :
         \/ i \in PictureAt(s) /\ Append(s, e)[i] = s[i]
         \/ i = Len(s) + 1 /\ Append(s, e)[i] = e /\ e.kind \in Pictures
  BY <1>1, <1>2 DEF PictureAt
<1>4. \A i, j \in PictureAt(Append(s, e)) : i < j => i \in DOMAIN s
  BY <1>1, <1>2 DEF PictureAt
<1>5. e.kind \in Pictures => \A i \in PictureAt(s) : s[i].pts < e.pts
  BY DEF Before, ShownOf
<1>6. \A i \in DOMAIN s : i # Len(s) + 1
  BY <1>1, <1>2
<1>7. SortedPictures(Append(s, e))
  BY <1>3, <1>4, <1>5, <1>6 DEF SortedPictures
<1>8. QED
  BY <1>3, <1>7 DEF ShownOf

\* And a later work at the end of those given.
LEMMA AppendWork ==
    ASSUME NEW s \in Seq(Work), NEW w \in Work, SortedWorks(s),
           \A i \in DOMAIN s : s[i] < w
    PROVE  /\ SortedWorks(Append(s, w))
           /\ {Append(s, w)[i] : i \in DOMAIN Append(s, w)} = {s[i] : i \in DOMAIN s} \cup {w}
<1>1. /\ Append(s, w) \in Seq(Work) /\ Len(s) \in Nat /\ Len(Append(s, w)) = Len(s) + 1
      /\ \A i \in 1 .. Len(s) : Append(s, w)[i] = s[i]
      /\ Append(s, w)[Len(s) + 1] = w
  BY AppendIsSeq
<1>2. DOMAIN s = 1 .. Len(s) /\ DOMAIN Append(s, w) = 1 .. Len(s) + 1
  BY <1>1
<1>3. \A i \in DOMAIN Append(s, w) :
         \/ i \in DOMAIN s /\ Append(s, w)[i] = s[i]
         \/ i = Len(s) + 1 /\ Append(s, w)[i] = w
  BY <1>1, <1>2
<1>4. \A i, j \in DOMAIN Append(s, w) : i < j => i \in DOMAIN s
  BY <1>1, <1>2
<1>5. \A i \in DOMAIN s : i # Len(s) + 1 /\ i \in DOMAIN Append(s, w) /\ Append(s, w)[i] = s[i]
  BY <1>1, <1>2
<1>6. Len(s) + 1 \in DOMAIN Append(s, w)
  BY <1>1, <1>2
<1>7. SortedWorks(Append(s, w))
  BY <1>3, <1>4, <1>5 DEF SortedWorks
<1>8. QED
  BY <1>1, <1>3, <1>5, <1>6, <1>7

\* Timestamps that leave a stage, or go to the next.
LEMMA StageLeaves ==
    ASSUME NEW G, NEW H, NEW F, NEW Q, NEW U, InStages(G, H, F, Q, U),
           NEW H2, NEW F2, NEW Q2, NEW U2, H2 \subseteq H, F2 \subseteq F,
           Q2 \subseteq Q, U2 \subseteq U
    PROVE  InStages(G, H2, F2, Q2, U2)
  BY DEF InStages, Before

\* An unsent work goes to MPP's packets.
LEMMA StageSent ==
    ASSUME NEW G, NEW H, NEW F, NEW Q, NEW U, InStages(G, H, F, Q, U),
           NEW w \in U, NEW Q2, NEW U2, Q2 \subseteq Q \cup {w}, U2 \subseteq U, Before({w}, U2)
    PROVE  InStages(G, H, F, Q2, U2)
  BY DEF InStages, Before

\* A packet becomes a picture, or is skipped.
LEMMA StageDecoded ==
    ASSUME NEW G, NEW H, NEW F, NEW Q, NEW U, InStages(G, H, F, Q, U),
           NEW p \in Q, NEW F2, NEW Q2, F2 \subseteq F \cup {p}, Q2 \subseteq Q, Before({p}, Q2)
    PROVE  InStages(G, H, F2, Q2, U)
  BY DEF InStages, Before

\* A picture goes to a thread's hand.
LEMMA StageTaken ==
    ASSUME NEW G, NEW H, NEW F, NEW Q, NEW U, InStages(G, H, F, Q, U),
           NEW f \in F, NEW F2, F2 \subseteq F, Before({f}, F2)
    PROVE  InStages(G, {f}, F2, Q, U)
  BY DEF InStages, Before

\* The frame in hand goes to the client.
LEMMA StageGiven ==
    ASSUME NEW G, NEW f, NEW F, NEW Q, NEW U, InStages(G, {f}, F, Q, U)
    PROVE  InStages(G \cup {f}, {}, F, Q, U)
  BY DEF InStages, Before

\* Only a flush forgets a drain of stop(), and only one that none drained during.
LEMMA AloneStep ==
    ASSUME TypeInv, [Next]_vars, Alone'
    PROVE  Alone \/ (FlushMpp /\ ~raced)
<1>1. UNCHANGED drained \/ FlushMpp \/ drained' = (drained \/ TRUE) \/ drained' = (drained \/ FALSE)
  BY DEF Next, ProcessNext, DrainNext, MppNext, vars,
       Process, EnsureFirst, SendPacket,
       SendTimesOut, GetPicture, GetInfo,
       GetFails, Config, NoPicture, Finish,
       DrainEnsureFails, DrainDone, FlushFlags,
       Release, MppDecode, MppInfoChange, DrainPicture, DrainGive,
       DrainEmptyEos, DrainInfo, DrainInfoFails, DrainCopyFails,
       DrainEmpty, DrainRound, DrainBegin
<1>2. FlushMpp => drained' = raced
  BY DEF FlushMpp
<1>3. QED
  BY <1>1, <1>2 DEF Alone, TypeInv, FlagsOK

\* Only the looper drains while it is alone.
LEMMA AloneDrains ==
    ASSUME TypeInv, ModesInv, Alone, NEW t \in Thread, DrainNext(t)
    PROVE  t = Looper
<1>1. pc[t] # "idle"
  BY DEF DrainNext, DrainPicture, DrainGive, DrainEmptyEos, DrainInfo, DrainInfoFails,
     DrainCopyFails, DrainEmpty, DrainRound
<1>2. QED
  BY <1>1 DEF Alone, ModesInv, Thread

\* The unsent works only become fewer.
LEMMA UnsentStep ==
    ASSUME TypeInv, WorksInv, [Next]_vars
    PROVE  Unsent' \subseteq Unsent
<1>0. outcome \in [Work -> Outcome]
  BY DEF TypeInv, WorkOK
<1>1. CASE UNCHANGED <<work, outcome, sendPacketFlag>>
  BY <1>1 DEF Unsent
<1>2. ASSUME NEW r \in Outcome \ {"none"}, End(r)
      PROVE  Unsent' \subseteq Unsent
  <2>1. /\ \A w \in Work : outcome'[w] = "none" => outcome[w] = "none"
        /\ work' = NoWork
    BY <1>0, <1>2 DEF End
  <2>2. QED
    BY <2>1, NoWorkIsNone DEF Unsent
<1>3. CASE Process
  <2>1. PICK w \in Work :
          /\ outcome[w] = "none"
          /\ \E o \in {"busy", "bad_value"} : outcome' = [outcome EXCEPT ![w] = o]
          /\ work' = work \/ work' = w
          /\ UNCHANGED sendPacketFlag
    BY <1>3 DEF Process
  <2>2. \A v \in Work : outcome'[v] = "none" => outcome[v] = "none"
    BY <1>0, <2>1
  <2>3. QED
    BY <2>1, <2>2 DEF Unsent
<1>4. CASE SendPacket \/ SendTimesOut
  <2>1. UNCHANGED <<work, outcome>> /\ ~sendPacketFlag
    BY <1>4 DEF SendPacket, SendTimesOut, WorksInv
  <2>2. QED
    BY <2>1 DEF Unsent
<1>5. QED
  BY <1>1, <1>2, <1>3, <1>4 DEF Next, ProcessNext, DrainNext, MppNext, vars, Outcome,
       EnsureFirst, Corrupted, GetPicture, GetInfo,
       GetFails, Config, NoPicture, Finish, Give,
       DrainEnsureFails, DrainDone, FlushFlags, FlushMpp,
       Release, MppDecode, MppInfoChange, DrainPicture, DrainGive,
       DrainEmptyEos, DrainInfo, DrainInfoFails, DrainCopyFails,
       DrainEmpty, DrainRound, DrainBegin

\* The work sent is the first of the unsent ones.
LEMMA SentWork ==
    ASSUME TypeInv, WorksInv, SendPacket
    PROVE  work \in Work /\ work \in Unsent /\ Before({work}, Unsent')
<1>1. work \in Work /\ work # NoWork /\ ~sendPacketFlag
  BY DEF SendPacket, TypeInv, WorkOK, AtWork, WorkPlace, WorksInv
<1>2. \A w \in Unsent' : w \in Work /\ outcome[w] = "none"
  BY DEF SendPacket, Unsent
<1>3. \A w \in Work : outcome[w] = "none" => ~(w < work) /\ w # work
  BY <1>1 DEF WorksInv
<1>4. \A w \in Work : w < work \/ w = work \/ work < w
  BY <1>1, WorkIsInt
<1>5. QED
  BY <1>1, <1>2, <1>3, <1>4 DEF Unsent, Before

\* A later frame keeps what was given sorted.
LEMMA GivenAppend ==
    ASSUME TypeInv, NEW w \in Work, SortedWorks(given), Before(Given, {w}),
           given' = Append(given, w)
    PROVE  SortedWorks(given)' /\ Given' = Given \cup {w}
<1>1. given \in Seq(Work) /\ \A i \in DOMAIN given : given[i] < w
  BY DEF TypeInv, HistoryOK, Given, Before
<1>2. QED
  BY <1>1, AppendWork DEF Given

\* MPP makes a picture of its next packet, or says that its size changes.
LEMMA DecodeOrder ==
    ASSUME TypeInv, Ordered, MppDecode
    PROVE  Ordered'
<1> DEFINE p == Head(packets)
           F(kind) == [kind |-> kind, pts |-> p.pts]
           S == ShownOf(frames)
           Q == QueuedOf(packets)
<1>1. /\ packets \in Seq(Packet) /\ packets # <<>> /\ frames \in Seq(Frame)
      /\ packets' = Tail(packets)
  BY DEF TypeInv, QueuesOK, MppDecode, CanDecode
<1>2. /\ SortedPackets(Tail(packets)) /\ QueuedOf(Tail(packets)) \subseteq Q
      /\ p.pts \in Q /\ Before({p.pts}, QueuedOf(Tail(packets)))
  BY <1>1, TailPackets DEF Ordered
<1>3. Before(S, {p.pts})
  BY <1>2 DEF Ordered, InStages, Before
<1>4. F("picture") \in Frame /\ F("last") \in Frame /\ F("eos") \in Frame
  BY <1>1, TailIsSeq DEF Packet, Frame
<1>5. /\ F("picture").kind \in Pictures /\ F("last").kind \in Pictures
      /\ F("eos").kind \notin Pictures /\ F("picture").pts = p.pts /\ F("last").pts = p.pts
  BY DEF Pictures
<1>6. \/ frames' = Append(frames, F("picture")) \/ frames' = Append(frames, F("last"))
      \/ frames' = frames \o <<F("picture"), F("eos")>> \/ frames' = frames
  BY DEF MppDecode
<1>7. UNCHANGED <<Given, Hand, Unsent, given>>
  BY DEF MppDecode, Given, Hand, Unsent
<1> HIDE DEF p, F
<1>8. /\ SortedPictures(Append(frames, F("picture"))) /\ SortedPictures(Append(frames, F("last")))
      /\ ShownOf(Append(frames, F("picture"))) \subseteq S \cup {p.pts}
      /\ ShownOf(Append(frames, F("last"))) \subseteq S \cup {p.pts}
      /\ Append(frames, F("picture")) \in Seq(Frame)
  BY <1>1, <1>3, <1>4, <1>5, AppendFrame, AppendIsSeq DEF Ordered
<1>9. /\ SortedPictures(Append(Append(frames, F("picture")), F("eos")))
      /\ ShownOf(Append(Append(frames, F("picture")), F("eos"))) \subseteq S \cup {p.pts}
  <2>1. ShownOf(Append(Append(frames, F("picture")), F("eos"))) \subseteq
           ShownOf(Append(frames, F("picture")))
    BY <1>4, <1>5, <1>8, AppendFrame
  <2>2. QED
    BY <1>4, <1>5, <1>8, <2>1, AppendFrame
<1>10. SortedPictures(frames') /\ ShownOf(frames') \subseteq S \cup {p.pts}
  <2>1. frames \o <<F("picture"), F("eos")>> = Append(Append(frames, F("picture")), F("eos"))
    BY <1>1, <1>4, AppendTwo
  <2>2. QED
    BY <1>6, <1>8, <1>9, <2>1 DEF Ordered
<1>11. InStages(Given, Hand, ShownOf(frames'), QueuedOf(packets'), Unsent)
  BY <1>1, <1>2, <1>10, StageDecoded DEF Ordered
<1>12. QED
  BY <1>1, <1>2, <1>7, <1>10, <1>11 DEF Ordered

\* A change of size is no picture.
LEMMA InfoOrder ==
    ASSUME TypeInv, Ordered, MppInfoChange
    PROVE  Ordered'
<1> DEFINE f == [kind |-> "info", pts |-> Head(packets).pts]
<1>1. f \in Frame /\ f.kind \notin Pictures /\ frames' = Append(frames, f) /\ frames \in Seq(Frame)
  <2>1. packets \in Seq(Packet) /\ packets # <<>>
    BY DEF MppInfoChange, CanDecode, TypeInv, QueuesOK
  <2>2. Head(packets) \in Packet
    BY <2>1, TailIsSeq
  <2>3. Head(packets).pts \in Work
    BY <2>2 DEF Packet
  <2>4. QED
    BY <2>3 DEF MppInfoChange, TypeInv, QueuesOK, Frame, Pictures
<1>2. UNCHANGED <<Given, Hand, Unsent, given, packets>>
  BY DEF MppInfoChange, Given, Hand, Unsent
<1> HIDE DEF f
<1>3. SortedPictures(frames') /\ ShownOf(frames') \subseteq ShownOf(frames)
  BY <1>1, AppendFrame DEF Ordered
<1>4. InStages(Given, Hand, ShownOf(frames'), QueuedOf(packets), Unsent)
  BY <1>3, StageLeaves DEF Ordered
<1>5. QED
  BY <1>2, <1>3, <1>4 DEF Ordered

\* A frame that is no picture is taken, or one that is goes to the thread's hand.
LEMMA SkipOrder ==
    ASSUME TypeInv, Ordered, frames # <<>>, frames' = Tail(frames),
           UNCHANGED <<given, entry, packets>>, Unsent' \subseteq Unsent
    PROVE  Ordered'
<1>1. SortedPictures(frames') /\ ShownOf(frames') \subseteq ShownOf(frames)
  BY TailFrames DEF Ordered, TypeInv, QueuesOK
<1>2. UNCHANGED <<Given, Hand>>
  BY DEF Given, Hand
<1>3. InStages(Given, Hand, ShownOf(frames'), QueuedOf(packets), Unsent')
  BY <1>1, StageLeaves DEF Ordered
<1>4. QED
  BY <1>1, <1>2, <1>3 DEF Ordered

\* The first picture goes to the hand.
LEMMA TakeOrder ==
    ASSUME TypeInv, Ordered, Is(Pictures), frames' = Tail(frames),
           entry' = [entry EXCEPT ![Looper] = Head(frames)],
           UNCHANGED <<given, packets>>, Unsent' \subseteq Unsent
    PROVE  Ordered'
<1>1. /\ frames \in Seq(Frame) /\ frames # <<>> /\ Head(frames).kind \in Pictures
      /\ entry \in [Thread -> Taken] /\ Looper \in Thread
  BY DEF TypeInv, QueuesOK, Is, ThreadsOK, Thread
<1>2. /\ SortedPictures(frames') /\ ShownOf(frames') \subseteq ShownOf(frames)
      /\ Head(frames).pts \in ShownOf(frames) /\ Before({Head(frames).pts}, ShownOf(frames'))
  BY <1>1, TailFrames DEF Ordered
<1>3. Head(frames) # NoFrame
  <2>1. NoFrame.kind = "none" /\ "none" \notin Pictures
    BY DEF NoFrame, Pictures
  <2>2. QED
    BY <1>1, <2>1
<1>4. Hand' = {Head(frames).pts} /\ UNCHANGED Given
  BY <1>1, <1>3 DEF Hand, Given, NoFrame
<1>5. InStages(Given, {Head(frames).pts}, ShownOf(frames'), QueuedOf(packets), Unsent)
  BY <1>2, StageTaken DEF Ordered
<1>6. InStages(Given, Hand', ShownOf(frames'), QueuedOf(packets'), Unsent')
  BY <1>4, <1>5, StageLeaves
<1>7. QED
  BY <1>2, <1>4, <1>6 DEF Ordered

\* The frame in hand is later than those given.
LEMMA GiveOrder ==
    ASSUME TypeInv, Ordered, Give(Looper), pc[Looper] \in {"finish", "drain_give"},
           UNCHANGED <<frames, packets>>, Unsent' \subseteq Unsent
    PROVE  Ordered'
<1>1. entry[Looper] # NoFrame /\ entry \in [Thread -> Taken] /\ Looper \in Thread
  BY DEF TypeInv, ThreadsOK, Thread
<1>2. Hand = {entry[Looper].pts} /\ entry[Looper].pts \in Work
  BY <1>1 DEF Hand, Taken, Frame
<1>3. Hand' = {}
  BY <1>1 DEF Give, Hand
<1>4. Before(Given, {entry[Looper].pts})
  BY <1>2 DEF Ordered, InStages
<1>5. SortedWorks(given)' /\ Given' = Given \cup {entry[Looper].pts}
  BY <1>2, <1>4, GivenAppend DEF Ordered, Give
<1>6. InStages(Given', {}, ShownOf(frames), QueuedOf(packets), Unsent)
  BY <1>2, <1>5, StageGiven DEF Ordered
<1>7. InStages(Given', Hand', ShownOf(frames'), QueuedOf(packets'), Unsent')
  BY <1>3, <1>6, StageLeaves
<1>8. QED
  BY <1>5, <1>7 DEF Ordered

\* The packet sent is later than those in the queue.
LEMMA SendOrder ==
    ASSUME TypeInv, WorksInv, Ordered, SendPacket, Unsent' \subseteq Unsent
    PROVE  Ordered'
<1>1. work \in Work /\ work \in Unsent /\ Before({work}, Unsent')
  BY SentWork
<1> DEFINE e == [pts |-> work, eos |-> eos]
<1>2. e \in Packet /\ e.pts = work
  BY <1>1 DEF Packet, TypeInv, FlagsOK
<1>3. packets \in Seq(Packet) /\ packets' = Append(packets, e)
  BY DEF SendPacket, TypeInv, QueuesOK
<1>4. UNCHANGED <<given, Given, Hand, frames>>
  BY DEF SendPacket, Given, Hand
<1> HIDE DEF e
<1>5. Before(QueuedOf(packets), {e.pts})
  BY <1>1, <1>2 DEF Ordered, InStages, Before
<1>6. SortedPackets(packets') /\ QueuedOf(packets') \subseteq QueuedOf(packets) \cup {work}
  BY <1>2, <1>3, <1>5, AppendPacket DEF Ordered
<1>7. InStages(Given, Hand, ShownOf(frames), QueuedOf(packets'), Unsent')
  BY <1>1, <1>6, StageSent DEF Ordered
<1>8. QED
  BY <1>4, <1>6, <1>7 DEF Ordered

\* A release leaves nothing in MPP.
LEMMA ClearOrder ==
    ASSUME TypeInv, Ordered, packets' = <<>>, frames' = <<>>,
           UNCHANGED <<entry, given>>, Unsent' \subseteq Unsent
    PROVE  Ordered'
<1>1. /\ SortedPackets(packets') /\ SortedPictures(frames')
      /\ ShownOf(frames') = {} /\ QueuedOf(packets') = {}
  BY DEF SortedPackets, SortedPictures, PictureAt, ShownOf, QueuedOf
<1>2. Hand' = Hand
  BY DEF Hand
<1>3. SortedWorks(given') /\ Given' \subseteq Given
  BY DEF Ordered, Given
<1>4. InStages(Given', Hand', ShownOf(frames'), QueuedOf(packets'), Unsent')
  BY <1>1, <1>2, <1>3 DEF Ordered, InStages, Before
<1>5. QED
  BY <1>1, <1>3, <1>4 DEF Ordered

\* After a flush there is nothing to be out of order.
LEMMA FlushOrder ==
    ASSUME TypeInv, FlushMpp
    PROVE  Ordered'
<1>1. entry[Looper] = NoFrame /\ UNCHANGED entry
  BY DEF TypeInv, ThreadsOK, Thread, FlushMpp
<1>2. packets' = <<>> /\ frames' = <<>> /\ given' = <<>>
  BY DEF FlushMpp
<1>3. /\ SortedWorks(given') /\ SortedPackets(packets') /\ SortedPictures(frames')
      /\ Given' = {} /\ Hand' = {} /\ ShownOf(frames') = {} /\ QueuedOf(packets') = {}
  BY <1>1, <1>2 DEF SortedWorks, SortedPackets, SortedPictures, PictureAt, ShownOf, QueuedOf,
     Given, Hand
<1>4. InStages(Given', Hand', ShownOf(frames'), QueuedOf(packets'), Unsent')
  BY <1>3 DEF InStages, Before
<1>5. QED
  BY <1>3, <1>4 DEF Ordered

\* Every step keeps the order.
LEMMA OrderStep == ASSUME TypeInv, ModesInv, WorksInv, OrderInv, [Next]_vars PROVE OrderInv'
<1> SUFFICES ASSUME Alone', ~FlushMpp PROVE Ordered'
  BY FlushOrder DEF OrderInv
<1>1. Alone /\ Ordered /\ Unsent' \subseteq Unsent
  BY AloneStep, UnsentStep DEF OrderInv
<1>2. CASE UNCHANGED <<given, entry, frames, packets>>
  <2>1. UNCHANGED <<Given, Hand>>
    BY <1>2 DEF Given, Hand
  <2>2. InStages(Given, Hand, ShownOf(frames), QueuedOf(packets), Unsent')
    BY <1>1, StageLeaves DEF Ordered
  <2>3. QED
    BY <1>1, <1>2, <2>1, <2>2 DEF Ordered
<1>3. CASE GetPicture \/ DrainPicture(Looper)
  BY <1>1, <1>3, TakeOrder DEF GetPicture, DrainPicture, Is, Pictures
<1>4. CASE GetInfo \/ GetFails \/ DrainEmptyEos(Looper) \/ DrainInfo(Looper)
           \/ DrainInfoFails(Looper) \/ DrainCopyFails(Looper)
  BY <1>1, <1>4, SkipOrder DEF GetInfo, GetFails, DrainEmptyEos, DrainInfo, DrainInfoFails,
     DrainCopyFails, InfoChange, Is
<1>5. CASE Finish \/ DrainGive(Looper)
  BY <1>1, <1>5, GiveOrder DEF Finish, DrainGive
<1>6. CASE Release
  BY <1>1, <1>6, ClearOrder DEF Release
<1>7. QED
  <2>1. \A t \in Thread : DrainNext(t) => t = Looper
    BY <1>1, AloneDrains
  <2>2. \/ UNCHANGED <<given, entry, frames, packets>>
        \/ SendPacket \/ GetPicture \/ GetInfo \/ GetFails \/ FlushMpp \/ Release
        \/ MppDecode \/ MppInfoChange \/ Finish
        \/ \E t \in Thread :
              /\ DrainNext(t)
              /\ \/ DrainPicture(t) \/ DrainEmptyEos(t) \/ DrainInfo(t)
                 \/ DrainInfoFails(t) \/ DrainCopyFails(t) \/ DrainGive(t)
    BY WhoChanges DEF DrainNext
  <2>3. QED
    BY <1>1, <1>2, <1>3, <1>4, <1>5, <1>6, <2>1, <2>2, SendOrder, DecodeOrder, InfoOrder

-----------------------------------------------------------------------------
(***************************************************************************)
(* What a skipped flush leaves, and what the loop of process() waits for.  *)
(***************************************************************************)

\* While mFlushed is set, after a flush that no drain overlapped, nothing is in MPP and no
\* flag is raised; but a drain(WITH_EOS), which never returns, may have given up.
FlushInv ==
    /\ mFlushed => work = NoWork
    /\ (mFlushed \/ pc[Looper] = "flush") /\ ~raced =>
          /\ ~mSignalledInputEos /\ ~mSignalledError
          /\ mOutputEos \/ pc[Looper] = "drain_round" => mode[Looper] = "WITH_EOS"
          /\ \A t \in Drainer : pc[t] \in {"idle", "drain_get"}
    /\ mFlushed /\ ~raced /\ pc[Looper] # "flush" =>
          packets = <<>> /\ frames = <<>> /\ ~waiting /\ entry[Looper] = NoFrame

\* A change of size is the last frame, and MPP waits with its packet.
WaitInv ==
    /\ waiting => packets # <<>>
    /\ \A i \in DOMAIN frames : frames[i].kind = "info" => waiting /\ i = Len(frames)
    /\ waiting /\ prompt => frames # <<>> /\ frames[Len(frames)].kind = "info"

\* A work that MPP refused waits for a frame that will come.
LoopInv ==
    pc[Looper] \in {"out", "config"} /\ ~sendPacketFlag =>
          needGetFrame /\ (prompt /\ Alone => packets # <<>> \/ frames # <<>>)

\* Outside drains of its own the looper flushes nothing it needs.
LEMMA FlushedStep ==
    ASSUME TypeInv, ModesInv, [Next]_vars, mFlushed => work = NoWork
    PROVE  mFlushed' => work' = NoWork
<1>1. \/ UNCHANGED mFlushed \/ mFlushed' = FALSE \/ FlushMpp
  BY DEF Next, ProcessNext, DrainNext, MppNext, vars,
       Process, EnsureFirst, Corrupted, SendPacket,
       SendTimesOut, GetPicture, GetInfo,
       GetFails, Config, NoPicture, Finish,
       DrainEnsureFails, DrainDone, FlushFlags,
       Release, MppDecode, MppInfoChange, DrainPicture, DrainGive,
       DrainEmptyEos, DrainInfo, DrainInfoFails, DrainCopyFails,
       DrainEmpty, DrainRound, DrainBegin
<1>2. FlushMpp => UNCHANGED work /\ work = NoWork
  BY DEF FlushMpp, TypeInv, WorkOK, AtWork, WorkPlace, DrainPlace
<1>3. UNCHANGED work \/ work' = NoWork \/ mFlushed' = FALSE
  BY WhoChanges DEF Process, EnsureFirst, GetFails, Config, NoPicture, DrainEnsureFails,
     DrainDone, Corrupted, End
<1>4. QED
  BY <1>1, <1>2, <1>3

\* Every step keeps what mFlushed promises.
LEMMA FlushStep == ASSUME TypeInv, ModesInv, WorksInv, FlushInv, [Next]_vars PROVE FlushInv'
<1>1. (mFlushed => work = NoWork)'
  BY FlushedStep DEF FlushInv
<1> SUFFICES ASSUME mFlushed' \/ pc'[Looper] = "flush", ~raced'
             PROVE  /\ ~mSignalledInputEos' /\ ~mSignalledError'
                    /\ mOutputEos' \/ pc'[Looper] = "drain_round" => mode'[Looper] = "WITH_EOS"
                    /\ \A t \in Drainer : pc'[t] \in {"idle", "drain_get"}
                    /\ mFlushed' /\ pc'[Looper] # "flush" =>
                          /\ packets' = <<>> /\ frames' = <<>> /\ ~waiting'
                          /\ entry'[Looper] = NoFrame
  BY <1>1 DEF FlushInv
<1>2. /\ Looper \in Thread /\ pc \in [Thread -> Place]
      /\ entry \in [Thread -> Taken]
      /\ mode \in [Thread -> {"work", "NO_EOS", "WITH_EOS"}]
      /\ mode[Looper] = "WITH_EOS" => pc[Looper] \in DrainPlace
      /\ pc[Looper] \in {"finish", "drain_give"} <=> entry[Looper] # NoFrame
  BY DEF TypeInv, ThreadsOK, Thread, ModesInv
<1>3. CASE FlushFlags
  <2>1. /\ ~mSignalledInputEos' /\ ~mSignalledError' /\ ~mOutputEos' /\ pc'[Looper] = "flush"
        /\ \A t \in Drainer : pc'[t] = "idle"
    BY <1>2, <1>3, DecAssumption DEF FlushFlags, ResetFlags, Thread
  <2>2. QED
    BY <2>1
<1>4. CASE FlushMpp
  <2>1. /\ UNCHANGED <<mOutputEos, mSignalledInputEos, mSignalledError, entry, mode, raced>>
        /\ packets' = <<>> /\ frames' = <<>> /\ ~waiting' /\ pc'[Looper] = "idle"
        /\ pc[Looper] = "flush"
        /\ \A t \in Drainer : pc'[t] = pc[t]
    BY <1>2, <1>4, DecAssumption DEF FlushMpp, Thread
  <2>2. QED
    BY <1>2, <2>1 DEF FlushInv
<1>5. ASSUME ~FlushFlags, ~FlushMpp
      PROVE  mFlushed \/ pc[Looper] = "flush"
  <2>1. UNCHANGED mFlushed \/ mFlushed' = FALSE
    BY <1>5 DEF Next, ProcessNext, DrainNext, MppNext, vars,
       Process, EnsureFirst, Corrupted, SendPacket,
       SendTimesOut, GetPicture, GetInfo,
       GetFails, Config, NoPicture, Finish,
       DrainEnsureFails, DrainDone,
       Release, MppDecode, MppInfoChange, DrainPicture, DrainGive,
       DrainEmptyEos, DrainInfo, DrainInfoFails, DrainCopyFails,
       DrainEmpty, DrainRound, DrainBegin
  <2>2. UNCHANGED pc \/ \E t \in Thread, p \in Place \ {"flush"} : pc' = [pc EXCEPT ![t] = p]
    <3> USE DEF Thread, Place, DrainPlace, WorkPlace, Process, EnsureFirst, Corrupted, End,
         SendPacket, AfterSend, SendTimesOut, GetPicture, GetInfo, GetFails, Config, NoPicture,
         Finish, AfterFinish, DrainEnsureFails, DrainDone, Release, MppDecode, MppInfoChange,
         DrainPicture, DrainGive, DrainEmptyEos, DrainNothing, DrainInfo, DrainInfoFails,
         DrainCopyFails, DrainEmpty, DrainRound, DrainBegin
    <3>1. CASE Process \/ Release \/ MppNext \/ UNCHANGED vars
      BY <3>1 DEF MppNext, vars
    <3>2. CASE ProcessNext
      BY <3>2 DEF ProcessNext
    <3>3. ASSUME NEW t \in Thread, NEW m, DrainBegin(t, m)
          PROVE  pc' = [pc EXCEPT ![t] = "drain_get"]
      BY <3>3
    <3>4. ASSUME NEW t \in Thread, DrainNext(t)
          PROVE  \E p \in Place \ {"flush"} : pc' = [pc EXCEPT ![t] = p]
      BY <3>4 DEF DrainNext
    <3>5. QED
      BY <1>5, <3>1, <3>2, <3>3, <3>4 DEF Next
  <2>3. QED
    BY <1>2, <2>1, <2>2
<1>5a. ~FlushFlags => ~raced
  <2>1. ~FlushFlags => UNCHANGED raced \/ (\E b \in BOOLEAN : raced' = (raced \/ b))
    BY DEF Next, ProcessNext, DrainNext, MppNext, vars,
       Process, EnsureFirst, SendPacket,
       SendTimesOut, GetPicture, GetInfo,
       GetFails, Config, NoPicture, Finish,
       DrainEnsureFails, DrainDone, FlushMpp,
       Release, MppDecode, MppInfoChange, DrainPicture, DrainGive,
       DrainEmptyEos, DrainInfo, DrainInfoFails, DrainCopyFails,
       DrainEmpty, DrainRound, DrainBegin
  <2>2. QED
    BY <2>1 DEF TypeInv, FlagsOK
<1>6. CASE pc[Looper] = "flush" /\ ~FlushMpp
  <2>1. /\ ~mSignalledInputEos /\ ~mSignalledError /\ ~mOutputEos
        /\ ~FlushFlags /\ ~raced
    BY <1>2, <1>5a, <1>6 DEF FlushInv, DrainPlace, FlushFlags
  <2>1a. \A t \in Drainer : pc[t] = "idle"
    BY <1>6, <2>1 DEF ModesInv
  <2>2. UNCHANGED <<mOutputEos, mSignalledInputEos, mSignalledError, pc>>
    <3>1. \A t \in Thread : DrainNext(t) => t = Looper
      BY <2>1a DEF Thread, DrainNext, DrainPicture, DrainGive, DrainEmptyEos, DrainInfo,
         DrainInfoFails, DrainCopyFails, DrainEmpty, DrainRound
    <3>2. \A t \in Drainer : ~DrainBegin(t, "NO_EOS")
      BY <1>6, DecAssumption DEF DrainBegin
    <3>3. CASE MppNext \/ UNCHANGED vars
      BY <3>3 DEF MppNext, MppDecode, MppInfoChange, vars
    <3>4. QED
      BY <1>3, <1>6, <3>1, <3>2, <3>3 DEF Next, ProcessNext, DrainNext,
       Process, EnsureFirst, SendPacket,
       SendTimesOut, GetPicture, GetInfo,
       GetFails, Config, NoPicture, Finish,
       DrainEnsureFails, DrainDone, FlushFlags,
       Release, DrainPicture, DrainGive,
       DrainEmptyEos, DrainInfo, DrainInfoFails, DrainCopyFails,
       DrainEmpty, DrainRound, DrainBegin
  <2>3. QED
    BY <1>6, <2>1, <2>1a, <2>2
<1>7. CASE mFlushed /\ ~FlushFlags /\ ~FlushMpp /\ pc[Looper] # "flush"
  <2>1. /\ work = NoWork /\ ~mSignalledInputEos /\ ~mSignalledError
        /\ mOutputEos \/ pc[Looper] = "drain_round" => mode[Looper] = "WITH_EOS"
        /\ packets = <<>> /\ frames = <<>> /\ ~waiting /\ entry[Looper] = NoFrame
        /\ \A t \in Drainer : pc[t] \in {"idle", "drain_get"} /\ t # Looper /\ t \in Thread
    BY <1>2, <1>5a, <1>7, DecAssumption DEF FlushInv, Thread
  <2>2. /\ pc[Looper] \notin WorkPlace
        /\ pc[Looper] \in DrainPlace => mode[Looper] # "work" /\ pc[Looper] # "drain_give"
    BY <1>2, <2>1 DEF TypeInv, WorkOK, AtWork
  <2>3. CASE Process
    <3>1. mFlushed' = FALSE /\ (UNCHANGED pc \/ pc' = [pc EXCEPT ![Looper] = "ensure"])
      BY <2>3 DEF Process
    <3>2. QED
      BY <1>2, <1>7, <3>1
  <2>4. CASE ProcessNext
    BY <2>2, <2>4 DEF ProcessNext, EnsureFirst, SendPacket, SendTimesOut, GetPicture, GetInfo,
       GetFails, Config, NoPicture, Finish, DrainEnsureFails, DrainDone, WorkPlace, DrainPlace
  <2>5. CASE Release \/ MppNext \/ UNCHANGED vars
    <3>1. /\ UNCHANGED <<pc, entry, mode, signals, mOutputEos, mFlushed>>
          /\ packets' = <<>> /\ frames' = <<>> /\ ~waiting'
      <4>1. ~MppNext
        BY <2>1 DEF MppNext, MppDecode, MppInfoChange, CanDecode
      <4>2. CASE Release
        BY <4>2 DEF Release
      <4>3. CASE UNCHANGED vars
        BY <2>1, <4>3 DEF vars
      <4>4. QED
        BY <2>5, <4>1, <4>2, <4>3
    <3>2. QED
      BY <2>1, <3>1
  <2>6. ASSUME NEW m \in DrainModes, DrainBegin(Looper, m)
        PROVE  /\ ~mOutputEos' /\ pc' = [pc EXCEPT ![Looper] = "drain_get"]
               /\ UNCHANGED <<signals, entry, mpp>>
    BY <1>2, <2>1, <2>6 DEF DrainBegin, DrainPlace
  <2>7. ASSUME NEW t \in Drainer, DrainBegin(t, "NO_EOS")
        PROVE  /\ pc' = [pc EXCEPT ![t] = "drain_get"] /\ mode'[Looper] = mode[Looper]
               /\ UNCHANGED <<signals, mOutputEos, entry, mpp>>
    BY <1>2, <2>1, <2>7 DEF DrainBegin
  <2>8. ASSUME DrainNext(Looper)
        PROVE  /\ UNCHANGED <<signals, entry, mpp, mode>>
               /\ \/ pc' = [pc EXCEPT ![Looper] = "idle"] /\ UNCHANGED mOutputEos
                  \/ mode[Looper] = "WITH_EOS" /\ \E p \in Place : pc' = [pc EXCEPT ![Looper] = p]
    <3>1. DrainEmpty(Looper) \/ DrainRound(Looper)
      BY <2>1, <2>2, <2>8 DEF DrainNext, DrainPicture, DrainGive, DrainEmptyEos, DrainInfo,
         InfoChange, DrainInfoFails, DrainCopyFails, Is, DrainPlace
    <3>2. UNCHANGED <<signals, entry, mpp, mode>>
      BY <3>1 DEF DrainEmpty, DrainRound, DrainNothing
    <3>3. CASE DrainEmpty(Looper)
      BY <1>2, <2>2, <3>3 DEF DrainEmpty, DrainNothing, Place, DrainPlace
    <3>4. CASE DrainRound(Looper)
      BY <2>1, <3>4 DEF DrainRound, Place, DrainPlace
    <3>5. QED
      BY <3>1, <3>2, <3>3, <3>4
  <2>8a. ASSUME NEW t \in Drainer, DrainNext(t)
         PROVE  /\ pc' = [pc EXCEPT ![t] = "idle"]
                /\ UNCHANGED <<signals, mOutputEos, entry, mpp, mode>>
    <3>1. pc[t] = "drain_get" /\ mode[t] = "NO_EOS"
      <4>1. pc[t] # "idle"
        BY <2>8a DEF DrainNext, DrainPicture, DrainGive, DrainEmptyEos, DrainInfo,
           DrainInfoFails, DrainCopyFails, DrainEmpty, DrainRound
      <4>2. QED
        BY <1>2, <2>1, <4>1 DEF ModesInv
    <3>2. DrainEmpty(t)
      BY <2>1, <3>1, <2>8a DEF DrainNext, DrainPicture, DrainGive, DrainEmptyEos, DrainInfo,
         InfoChange, DrainInfoFails, DrainCopyFails, Is, DrainRound
    <3>3. QED
      BY <3>1, <3>2 DEF DrainEmpty, DrainNothing
  <2>10. CASE \E m \in DrainModes : DrainBegin(Looper, m)
    BY <1>2, <2>1, <2>6, <2>10
  <2>11. CASE DrainNext(Looper)
    <3>1. /\ UNCHANGED <<signals, entry, mpp, mode>>
          /\ \/ pc' = [pc EXCEPT ![Looper] = "idle"] /\ UNCHANGED mOutputEos
             \/ mode[Looper] = "WITH_EOS" /\ \E p \in Place : pc' = [pc EXCEPT ![Looper] = p]
      BY <2>8, <2>11
    <3>2. CASE mode[Looper] = "WITH_EOS" /\ \E p \in Place : pc' = [pc EXCEPT ![Looper] = p]
      BY <1>2, <2>1, <3>1, <3>2
    <3>3. CASE pc' = [pc EXCEPT ![Looper] = "idle"] /\ UNCHANGED mOutputEos
      BY <1>2, <2>1, <3>1, <3>3
    <3>4. QED
      BY <3>1, <3>2, <3>3
  <2>11a. CASE \E t \in Drainer : DrainBegin(t, "NO_EOS")
    BY <1>2, <2>1, <2>7, <2>11a
  <2>11b. CASE \E t \in Drainer : DrainNext(t)
    BY <1>2, <2>1, <2>8a, <2>11b
  <2>12. QED
    BY <1>7, <2>3, <2>4, <2>5, <2>10, <2>11, <2>11a, <2>11b DEF Next, Thread
<1>8. QED
  BY <1>3, <1>4, <1>5, <1>6, <1>7

\* Every step keeps a change of size the last frame.
LEMMA WaitStep == ASSUME TypeInv, WaitInv, [Next]_vars PROVE WaitInv'
<1> USE DEF WaitInv
<1>1. packets \in Seq(Packet) /\ frames \in Seq(Frame)
  BY DEF TypeInv, QueuesOK
<1>2. UNCHANGED prompt
  BY PromptStays
<1>3. CASE UNCHANGED <<packets, frames, waiting>>
  BY <1>2, <1>3
<1>4. CASE SendPacket
  <2>1. packets' = Append(packets, [pts |-> work, eos |-> eos]) /\ UNCHANGED <<frames, waiting>>
    BY <1>4 DEF SendPacket
  <2>2. packets' # <<>>
    BY <1>1, <2>1
  <2>3. QED
    BY <1>2, <2>1, <2>2
<1>5. CASE packets' = <<>> /\ frames' = <<>> /\ ~waiting'
  BY <1>5
<1>6. ASSUME frames # <<>>, frames' = Tail(frames), UNCHANGED packets,
             \/ UNCHANGED waiting /\ (~prompt \/ Head(frames).kind # "info")
             \/ ~waiting' /\ Head(frames).kind = "info"
      PROVE  WaitInv'
  <2>1. /\ Len(frames) \in Nat /\ Len(frames) > 0 /\ DOMAIN frames = 1 .. Len(frames)
        /\ Head(frames) = frames[1] /\ Len(Tail(frames)) = Len(frames) - 1
        /\ DOMAIN Tail(frames) = 1 .. Len(frames) - 1
        /\ \A i \in DOMAIN Tail(frames) : Tail(frames)[i] = frames[i + 1] /\ i + 1 \in DOMAIN frames
    BY <1>1, <1>6, TailIsSeq
  <2>2. CASE Head(frames).kind = "info"
    <3>1. Len(frames) = 1 /\ frames' = <<>>
      BY <1>1, <1>6, <2>1, <2>2
    <3>2. waiting' => packets # <<>> /\ ~prompt
      BY <1>6, <2>2
    <3>3. QED
      BY <1>2, <1>6, <3>1, <3>2
  <2>3. CASE Head(frames).kind # "info"
    <3>1. UNCHANGED waiting
      BY <1>6, <2>3
    <3>2. \A i \in DOMAIN frames' : frames'[i].kind = "info" => waiting' /\ i = Len(frames')
      BY <1>6, <2>1, <3>1
    <3>3. waiting' /\ prompt => frames' # <<>> /\ frames'[Len(frames')].kind = "info"
      <4> SUFFICES ASSUME waiting', prompt
                   PROVE  frames' # <<>> /\ frames'[Len(frames')].kind = "info"
        OBVIOUS
      <4>1. frames[Len(frames)].kind = "info" /\ Len(frames) # 1
        BY <2>1, <2>3, <3>1
      <4>2. /\ Len(frames') \in DOMAIN Tail(frames) /\ Len(frames') > 0
            /\ Len(frames') + 1 = Len(frames)
        BY <1>6, <2>1, <4>1
      <4>3. QED
        BY <1>6, <2>1, <4>1, <4>2
    <3>4. QED
      BY <1>2, <1>6, <2>1, <3>1, <3>2, <3>3
  <2>4. QED
    BY <2>2, <2>3
<1>7. CASE MppInfoChange
  <2>1. ~waiting /\ waiting' /\ packets # <<>> /\ UNCHANGED packets
        /\ frames' = Append(frames, [kind |-> "info", pts |-> Head(packets).pts])
    BY <1>7 DEF MppInfoChange, CanDecode
  <2>2. /\ DOMAIN frames = 1 .. Len(frames) /\ DOMAIN frames' = 1 .. Len(frames) + 1
        /\ Len(frames') = Len(frames) + 1 /\ \A i \in DOMAIN frames : frames'[i] = frames[i]
        /\ Len(frames) \in Nat
    BY <1>1, <2>1
  <2>3. \A i \in DOMAIN frames' : i \in DOMAIN frames \/ i = Len(frames')
    BY <2>2
  <2>4. QED
    BY <2>1, <2>2, <2>3
<1>8. CASE MppDecode
  <2>1. /\ ~waiting /\ ~waiting'
        /\ \/ frames' = frames
           \/ \E f, g \in {[kind |-> k, pts |-> Head(packets).pts] : k \in {"picture", "last", "eos"}} :
                 frames' = Append(frames, f) \/ frames' = frames \o <<f, g>>
    BY <1>8 DEF MppDecode, CanDecode
  <2>2. \A i \in DOMAIN frames' : frames'[i].kind # "info"
    <3>1. \A i \in DOMAIN frames : frames[i].kind # "info"
      BY <2>1
    <3>2. ASSUME NEW f \in {[kind |-> k, pts |-> Head(packets).pts] : k \in {"picture", "last", "eos"}}
          PROVE  f \in Frame /\ f.kind # "info"
      <4>1. Head(packets) \in Packet
        BY <1>1, <1>8, TailIsSeq DEF MppDecode, CanDecode
      <4>2. Head(packets).pts \in Work
        BY <4>1 DEF Packet
      <4>3. QED
        BY <3>2, <4>2 DEF Frame
    <3>3. ASSUME NEW s \in Seq(Frame), \A i \in DOMAIN s : s[i].kind # "info",
                 NEW f \in Frame, f.kind # "info"
          PROVE  /\ Append(s, f) \in Seq(Frame)
                 /\ \A i \in DOMAIN Append(s, f) : Append(s, f)[i].kind # "info"
      <4>1. /\ DOMAIN s = 1 .. Len(s) /\ DOMAIN Append(s, f) = 1 .. Len(s) + 1 /\ Len(s) \in Nat
            /\ \A i \in 1 .. Len(s) : Append(s, f)[i] = s[i]
            /\ Append(s, f)[Len(s) + 1] = f
        BY AppendIsSeq
      <4>2. \A i \in 1 .. Len(s) + 1 : i \in 1 .. Len(s) \/ i = Len(s) + 1
        BY <4>1
      <4>3. QED
        BY <3>3, <4>1, <4>2, AppendIsSeq
    <3>4. CASE frames' = frames
      BY <3>1, <3>4
    <3>5. ASSUME NEW f \in {[kind |-> k, pts |-> Head(packets).pts] : k \in {"picture", "last", "eos"}},
                 NEW g \in {[kind |-> k, pts |-> Head(packets).pts] : k \in {"picture", "last", "eos"}},
                 frames' = Append(frames, f) \/ frames' = frames \o <<f, g>>
          PROVE  \A i \in DOMAIN frames' : frames'[i].kind # "info"
      <4>1. f \in Frame /\ g \in Frame /\ f.kind # "info" /\ g.kind # "info"
        BY <3>2
      <4>2. frames \o <<f, g>> = Append(Append(frames, f), g)
        BY <1>1, <4>1, AppendTwo
      <4>3. /\ Append(frames, f) \in Seq(Frame)
            /\ \A i \in DOMAIN Append(frames, f) : Append(frames, f)[i].kind # "info"
        BY <1>1, <3>1, <3>3, <4>1
      <4>4. \A i \in DOMAIN Append(Append(frames, f), g) : Append(Append(frames, f), g)[i].kind # "info"
        BY <3>3, <4>1, <4>3
      <4>5. QED
        BY <3>5, <4>2, <4>3, <4>4
    <3>6. QED
      BY <2>1, <3>4, <3>5
  <2>3. QED
    BY <2>1, <2>2
<1>9. ASSUME NEW t \in Thread, \/ GetPicture \/ GetInfo \/ GetFails
                               \/ DrainPicture(t) \/ DrainEmptyEos(t) \/ DrainInfo(t) \/ DrainInfoFails(t)
                               \/ DrainCopyFails(t)
      PROVE  /\ frames # <<>> /\ frames' = Tail(frames) /\ UNCHANGED packets
             /\ \/ UNCHANGED waiting /\ (~prompt \/ Head(frames).kind # "info")
                \/ ~waiting' /\ Head(frames).kind = "info"
  BY <1>9 DEF GetPicture, GetInfo, GetFails, DrainPicture, DrainEmptyEos, DrainInfo,
     DrainInfoFails, DrainCopyFails, InfoChange, Is, RefusesInfo, Pictures
<1>10. FlushMpp \/ Release => packets' = <<>> /\ frames' = <<>> /\ ~waiting'
  BY DEF FlushMpp, Release
<1>11. QED
  BY <1>3, <1>4, <1>5, <1>6, <1>7, <1>8, <1>9, <1>10, WhoChanges DEF Thread

\* A prompt MPP with packets and room to decode gives a frame before a wait ends.
LEMMA TimedOutEmpty ==
    ASSUME TypeInv, WaitInv, prompt, TimesOut, frames = <<>>
    PROVE  packets = <<>>
<1>1. ~waiting /\ ~CanDecode
  BY DEF WaitInv, TimesOut
<1>2. Len(frames) < FrameCap
  BY DecAssumption
<1>3. QED
  BY <1>1, <1>2 DEF CanDecode

\* MPP's own steps lose nothing it will show.
LEMMA MppKeepsBusy ==
    ASSUME TypeInv, prompt, MppNext
    PROVE  frames' # <<>>
<1>1. frames \in Seq(Frame)
  BY DEF TypeInv, QueuesOK
<1>2. CASE MppDecode
  <2>1. \E f, g : frames' = Append(frames, f) \/ frames' = frames \o <<f, g>>
    BY <1>2 DEF MppDecode
  <2>2. QED
    BY <1>1, <2>1
<1>3. CASE MppInfoChange
  BY <1>1, <1>3 DEF MppInfoChange
<1>4. QED
  BY <1>2, <1>3 DEF MppNext

\* Every step keeps a refused work waiting for a frame.
LEMMA LoopStep ==
    ASSUME TypeInv, ModesInv, WorksInv, WaitInv, LoopInv, [Next]_vars
    PROVE  LoopInv'
<1>1. /\ Looper \in Thread /\ pc \in [Thread -> Place]
      /\ Alone' => Alone \/ FlushMpp
  BY AloneStep DEF TypeInv, ThreadsOK, Thread
<1>1a. FlushMpp => pc'[Looper] = "idle"
  BY <1>1 DEF FlushMpp
<1>2. UNCHANGED prompt
  BY PromptStays
<1> DEFINE Looks(places) == pc[Looper] \in places /\ ~sendPacketFlag
           Busy == prompt /\ Alone => packets # <<>> \/ frames # <<>>
<1>4. ASSUME Looks({"out", "config"})'
      PROVE  needGetFrame' /\ (prompt' /\ Alone' => packets' # <<>> \/ frames' # <<>>)
  <2>0. Alone' => Alone
    BY <1>1, <1>1a, <1>4
  <2>1. CASE SendTimesOut
    <3>1. needGetFrame' /\ packets' = packets /\ Len(packets) = PacketCap
      BY <2>1 DEF SendTimesOut
    <3>2. QED
      BY <3>1, DecAssumption
  <2>2. CASE SendPacket \/ Process \/ EnsureFirst \/ GetPicture \/ GetFails \/ NoPicture
              \/ DrainEnsureFails \/ DrainDone
    <3>1. \/ UNCHANGED pc /\ pc[Looper] = "idle"
          \/ sendPacketFlag'
          \/ \E p \in {"ensure", "send", "finish", "idle"} : pc' = [pc EXCEPT ![Looper] = p]
      BY <2>2 DEF SendPacket, Process, EnsureFirst, GetPicture, GetFails, NoPicture,
         DrainEnsureFails, DrainDone, Corrupted, End
    <3>2. QED
      BY <1>1, <1>4, <3>1
  <2>3. CASE Config
    <3>1. pc[Looper] = "config" /\ UNCHANGED <<sendPacketFlag, needGetFrame, packets, frames>>
      BY <1>1, <1>4, <2>3 DEF Config, Corrupted, End
    <3>2. QED
      BY <1>1, <1>2, <1>4, <2>0, <3>1 DEF LoopInv
  <2>4. CASE GetInfo
    <3>1. /\ pc[Looper] = "out" /\ UNCHANGED <<sendPacketFlag, needGetFrame, packets>>
          /\ frames # <<>> /\ Head(frames).kind = "info"
      BY <2>4 DEF GetInfo, InfoChange, Is
    <3>2. packets # <<>>
      <4>1. 1 \in DOMAIN frames /\ Head(frames) = frames[1]
        BY <3>1, TailIsSeq DEF TypeInv, QueuesOK
      <4>2. QED
        BY <3>1, <4>1 DEF WaitInv
    <3>3. QED
      BY <1>1, <1>2, <1>4, <2>0, <3>1, <3>2 DEF LoopInv
  <2>5. CASE Finish
    <3>1. pc' = [pc EXCEPT ![Looper] = AfterFinish] /\ UNCHANGED sendPacketFlag
      BY <2>5 DEF Finish
    <3>2. QED
      BY <1>1, <1>4, <3>1 DEF AfterFinish
  <2>6. CASE FlushFlags \/ FlushMpp \/ Release
    <3>1. pc'[Looper] \in {"flush", "idle"}
      BY <1>1, <2>6 DEF FlushFlags, FlushMpp, Release
    <3>2. QED
      BY <1>4, <3>1
  <2>7. CASE MppNext
    <3>1. UNCHANGED <<pc, sendPacketFlag, needGetFrame>>
      BY <2>7 DEF MppNext, MppDecode, MppInfoChange
    <3>2. prompt' => frames' # <<>>
      BY <1>2, <2>7, MppKeepsBusy
    <3>3. QED
      BY <1>4, <3>1, <3>2 DEF LoopInv
  <2>8. CASE UNCHANGED vars
    BY <1>1, <1>2, <1>4, <2>0, <2>8 DEF LoopInv, vars
  <2>9. ASSUME NEW t \in Thread, NEW m, DrainBegin(t, m)
        PROVE  needGetFrame' /\ (prompt' /\ Alone' => packets' # <<>> \/ frames' # <<>>)
    <3>1. /\ pc' = [pc EXCEPT ![t] = "drain_get"]
          /\ UNCHANGED <<sendPacketFlag, needGetFrame, packets, frames>>
      BY <2>9 DEF DrainBegin
    <3>2. pc[Looper] \in {"out", "config"}
      BY <1>1, <1>4, <3>1
    <3>3. QED
      BY <1>1, <1>2, <1>4, <2>0, <3>1, <3>2 DEF LoopInv
  <2>10. ASSUME NEW t \in Thread, DrainNext(t)
         PROVE  needGetFrame' /\ (prompt' /\ Alone' => packets' # <<>> \/ frames' # <<>>)
    <3>1. /\ pc[t] \in DrainPlace /\ UNCHANGED <<sendPacketFlag, needGetFrame>>
          /\ \E p \in DrainPlace \cup {"idle"} : pc' = [pc EXCEPT ![t] = p]
      BY <2>10 DEF DrainNext, DrainPicture, DrainGive, DrainEmptyEos, DrainInfo, DrainInfoFails,
         DrainCopyFails, DrainEmpty, DrainRound, DrainNothing, DrainPlace
    <3>2. t # Looper /\ pc[Looper] \in {"out", "config"}
      BY <1>1, <1>4, <3>1 DEF DrainPlace
    <3>3. ~Alone
      BY <2>10, <3>2, AloneDrains
    <3>4. QED
      BY <1>1, <1>4, <2>0, <3>1, <3>2, <3>3 DEF LoopInv
  <2>11. QED
    BY <2>1, <2>2, <2>3, <2>4, <2>5, <2>6, <2>7, <2>8, <2>9, <2>10 DEF Next, ProcessNext, Thread
<1>5. QED
  BY <1>4 DEF LoopInv

\* With a prompt MPP a refused work is not given up: its frame comes first.
LEMMA LoopSendsStep ==
    ASSUME TypeInv, WaitInv, LoopInv, [Next]_vars, prompt, Alone,
           NEW w \in Work, outcome[w] = "busy"
    PROVE  outcome'[w] # "unsent"
<1>1. outcome \in [Work -> Outcome]
  BY DEF TypeInv, WorkOK
<1>2. NoPicture => End("done")
  <2>1. ASSUME NoPicture, ~sendPacketFlag PROVE FALSE
    <3>1. frames = <<>> /\ packets # <<>> /\ TimesOut
      BY <2>1 DEF NoPicture, LoopInv
    <3>2. QED
      BY <3>1, TimedOutEmpty
  <2>2. QED
    BY <2>1 DEF NoPicture
<1>3. \/ UNCHANGED outcome
      \/ \E r \in Outcome \ {"unsent"} : \E v : outcome' = [outcome EXCEPT ![v] = r]
  BY <1>2, WhoChanges DEF Process, EnsureFirst, GetFails, Config, DrainEnsureFails,
     DrainDone, Corrupted, End, Outcome
<1>4. QED
  BY <1>1, <1>3

-----------------------------------------------------------------------------
(***************************************************************************)
(* The end of stream.  Nothing follows it into MPP until a flush, so it is *)
(* the last packet and the last frame.                                     *)
(***************************************************************************)

\* No packet can be sent: the end of stream has been, or its drain is on.
Closed ==
    \/ mSignalledInputEos
    \/ pc[Looper] \in DrainPlace /\ mode[Looper] = "work"
    \/ pc[Looper] = "flush"

LastInv ==
    /\ pc[Looper] \in WorkPlace => ~mSignalledInputEos
    /\ \A i \in DOMAIN packets : packets[i].eos => i = Len(packets) /\ Closed
    /\ \A i \in DOMAIN frames : frames[i].kind \in {"last", "eos"} =>
          i = Len(frames) /\ packets = <<>> /\ Closed
    /\ \/ Len(frames) <= FrameCap
       \/ Len(frames) = FrameCap + 1 /\ frames[Len(frames)].kind = "eos"

\* A closed session stays closed until MPP is reset.
LEMMA ClosedStep ==
    ASSUME TypeInv, [Next]_vars, Closed, ~FlushMpp
    PROVE  Closed'
<1>1. /\ Looper \in Thread /\ pc \in [Thread -> Place]
      /\ mode \in [Thread -> {"work", "NO_EOS", "WITH_EOS"}]
  BY DEF TypeInv, ThreadsOK, Thread
<1>2. CASE Process
  <2>1. mSignalledInputEos
    BY <1>1, <1>2 DEF Process, Closed, DrainPlace
  <2>2. QED
    BY <1>2, <2>1 DEF Process, Closed
<1>3. CASE ProcessNext
  <2>1. \/ pc[Looper] \in WorkPlace /\ UNCHANGED mSignalledInputEos
        \/ mSignalledInputEos'
    BY <1>3 DEF ProcessNext, EnsureFirst, SendPacket, SendTimesOut, GetPicture, GetInfo,
       GetFails, Config, NoPicture, Finish, DrainEnsureFails, DrainDone, WorkPlace
  <2>2. QED
    BY <2>1 DEF Closed, WorkPlace, DrainPlace
<1>4. CASE FlushFlags
  BY <1>1, <1>4 DEF FlushFlags, Closed
<1>5. CASE Release \/ MppNext \/ UNCHANGED vars
  BY <1>5 DEF Release, MppNext, MppDecode, MppInfoChange, vars, Closed
<1>6. ASSUME NEW t \in Thread, NEW m, DrainBegin(t, m)
      PROVE  Closed'
  BY <1>1, <1>6 DEF DrainBegin, Closed, DrainPlace
<1>7. ASSUME NEW t \in Thread, DrainNext(t)
      PROVE  Closed'
  <2>1. /\ pc[t] \in DrainPlace /\ UNCHANGED <<mSignalledInputEos, mode>>
        /\ \/ \E p \in DrainPlace : pc' = [pc EXCEPT ![t] = p]
           \/ mode[t] = "NO_EOS" /\ pc' = [pc EXCEPT ![t] = "idle"]
    BY <1>7 DEF DrainNext, DrainPicture, DrainGive, DrainEmptyEos, DrainInfo, DrainInfoFails,
       DrainCopyFails, DrainEmpty, DrainRound, DrainNothing, DrainPlace
  <2>2. QED
    BY <1>1, <2>1 DEF Closed, DrainPlace
<1>8. QED
  BY <1>2, <1>3, <1>4, <1>5, <1>6, <1>7 DEF Next, Thread

\* A work in process() was let in before the end of stream was signalled.
LEMMA OpenStep ==
    ASSUME TypeInv, [Next]_vars, pc[Looper] \in WorkPlace => ~mSignalledInputEos
    PROVE  (pc[Looper] \in WorkPlace => ~mSignalledInputEos)'
<1>1. Looper \in Thread /\ pc \in [Thread -> Place]
  BY DEF TypeInv, ThreadsOK, Thread
<1>2. CASE Process
  <2>1. UNCHANGED mSignalledInputEos /\ (UNCHANGED pc \/ ~mSignalledInputEos)
    BY <1>2 DEF Process, MayProcess
  <2>2. QED
    BY <2>1
<1>3. CASE ProcessNext
  BY <1>1, <1>3 DEF ProcessNext, EnsureFirst, SendPacket, AfterSend, SendTimesOut, GetPicture,
     GetInfo, GetFails, Config, NoPicture, Finish, AfterFinish, DrainEnsureFails, DrainDone,
     Corrupted, End, WorkPlace
<1>4. CASE FlushFlags \/ FlushMpp \/ Release \/ MppNext \/ UNCHANGED vars
  BY <1>1, <1>4 DEF FlushFlags, ResetFlags, FlushMpp, Release, MppNext, MppDecode,
     MppInfoChange,
     vars, WorkPlace
<1>5. ASSUME NEW t \in Thread, NEW m, DrainBegin(t, m)
      PROVE  (pc[Looper] \in WorkPlace => ~mSignalledInputEos)'
  BY <1>1, <1>5 DEF DrainBegin, WorkPlace
<1>6. ASSUME NEW t \in Thread, DrainNext(t)
      PROVE  (pc[Looper] \in WorkPlace => ~mSignalledInputEos)'
  <2>1. /\ UNCHANGED mSignalledInputEos
        /\ \E p \in DrainPlace \cup {"idle"} : pc' = [pc EXCEPT ![t] = p]
    BY <1>6 DEF DrainNext, DrainPicture, DrainGive, DrainEmptyEos, DrainInfo, DrainInfoFails,
       DrainCopyFails, DrainEmpty, DrainRound, DrainNothing, DrainPlace
  <2>2. QED
    BY <1>1, <2>1 DEF WorkPlace, DrainPlace
<1>7. QED
  BY <1>2, <1>3, <1>4, <1>5, <1>6 DEF Next, Thread

\* MPP decodes a packet: the last one gives the last frame.
LEMMA DecodeLast ==
    ASSUME TypeInv, LastInv, MppDecode
    PROVE  LastInv'
<1> DEFINE p == Head(packets)
           F(kind) == [kind |-> kind, pts |-> p.pts]
<1>1. /\ packets \in Seq(Packet) /\ packets # <<>> /\ frames \in Seq(Frame)
      /\ packets' = Tail(packets) /\ Len(frames) < FrameCap
      /\ UNCHANGED <<pc, mode, mSignalledInputEos>>
  BY DEF TypeInv, QueuesOK, MppDecode, CanDecode
<1>2. /\ Len(packets) \in Nat /\ Len(packets) > 0 /\ Len(packets') = Len(packets) - 1
      /\ p = packets[1] /\ DOMAIN packets = 1 .. Len(packets)
      /\ DOMAIN packets' = 1 .. Len(packets) - 1
      /\ \A i \in DOMAIN packets' : packets'[i] = packets[i + 1] /\ i + 1 \in DOMAIN packets
      /\ p \in Packet /\ packets' \in Seq(Packet)
  BY <1>1, TailIsSeq
<1>3. p.eos => packets' = <<>> /\ Closed
  <2>1. p.eos => 1 = Len(packets) /\ Closed
    BY <1>2 DEF LastInv
  <2>2. Len(packets) = 1 => packets' = <<>>
    BY <1>2
  <2>3. QED
    BY <2>1, <2>2
<1>4. \A i \in DOMAIN packets' : packets'[i].eos => i = Len(packets') /\ Closed
  BY <1>2 DEF LastInv
<1>5. Closed' = Closed
  BY <1>1 DEF Closed
<1>6. /\ DOMAIN frames = 1 .. Len(frames) /\ Len(frames) \in Nat
      /\ \A i \in DOMAIN frames : frames[i].kind \notin {"last", "eos"}
  BY <1>1 DEF LastInv
<1>7. \/ ~p.eos /\ frames' = Append(frames, F("picture"))
      \/ p.eos /\ frames' = Append(frames, F("last"))
      \/ p.eos /\ frames' = Append(Append(frames, F("picture")), F("eos"))
      \/ ~p.eos /\ frames' = frames
  <2>1. F("picture") \in Frame /\ F("eos") \in Frame
    BY <1>2 DEF Packet, Frame
  <2>2. frames \o <<F("picture"), F("eos")>> = Append(Append(frames, F("picture")), F("eos"))
    BY <1>1, <2>1, AppendTwo
  <2>3. QED
    BY <2>2 DEF MppDecode
<1>8. /\ F("picture").kind = "picture" /\ F("eos").kind = "eos"
      /\ F("picture") \in Frame /\ F("eos") \in Frame /\ F("last") \in Frame
  BY <1>2 DEF Packet, Frame
<1> HIDE DEF p, F
<1>9. /\ \A i \in DOMAIN frames' : frames'[i].kind \in {"last", "eos"} => i = Len(frames') /\ p.eos
      /\ \/ Len(frames') <= FrameCap
         \/ Len(frames') = FrameCap + 1 /\ frames'[Len(frames')].kind = "eos"
  <2>1. ASSUME NEW s \in Seq(Frame), NEW f \in Frame, \A i \in DOMAIN s : s[i].kind \notin {"last", "eos"}
        PROVE  /\ \A i \in DOMAIN Append(s, f) : Append(s, f)[i].kind \in {"last", "eos"} => i = Len(Append(s, f))
               /\ Append(s, f)[Len(Append(s, f))] = f /\ Len(Append(s, f)) = Len(s) + 1
               /\ Append(s, f) \in Seq(Frame)
               /\ f.kind = "picture" =>
                     \A i \in DOMAIN Append(s, f) : Append(s, f)[i].kind \notin {"last", "eos"}
    <3>1. /\ DOMAIN s = 1 .. Len(s) /\ DOMAIN Append(s, f) = 1 .. Len(s) + 1 /\ Len(s) \in Nat
          /\ \A i \in 1 .. Len(s) : Append(s, f)[i] = s[i]
          /\ Append(s, f)[Len(s) + 1] = f /\ Len(Append(s, f)) = Len(s) + 1
          /\ Append(s, f) \in Seq(Frame)
      BY AppendIsSeq
    <3>2. \A i \in 1 .. Len(s) + 1 : i \in 1 .. Len(s) \/ i = Len(s) + 1
      BY <3>1
    <3>3. QED
      BY <2>1, <3>1, <3>2
  <2>2. CASE frames' = frames
    <3>1. \A i \in DOMAIN frames' : frames'[i].kind \notin {"last", "eos"}
      BY <1>6, <2>2
    <3>2. Len(frames') <= FrameCap
      BY <1>1, <1>6, <2>2, DecAssumption
    <3>3. QED
      BY <3>1, <3>2
  <2>3. CASE ~p.eos /\ frames' = Append(frames, F("picture"))
    BY <1>1, <1>6, <1>8, <2>1, <2>3, DecAssumption
  <2>4. CASE p.eos /\ frames' = Append(frames, F("last"))
    BY <1>1, <1>6, <1>8, <2>1, <2>4, DecAssumption
  <2>5. CASE p.eos /\ frames' = Append(Append(frames, F("picture")), F("eos"))
    <3>1. /\ Append(frames, F("picture")) \in Seq(Frame)
          /\ Len(Append(frames, F("picture"))) = Len(frames) + 1
          /\ \A i \in DOMAIN Append(frames, F("picture")) :
                Append(frames, F("picture"))[i].kind \notin {"last", "eos"}
      BY <1>1, <1>6, <1>8, <2>1
    <3>2. /\ \A i \in DOMAIN frames' : frames'[i].kind \in {"last", "eos"} => i = Len(frames')
          /\ frames'[Len(frames')] = F("eos") /\ Len(frames') = Len(frames) + 1 + 1
      BY <1>8, <2>1, <2>5, <3>1
    <3>3. QED
      BY <1>1, <1>6, <1>8, <2>5, <3>2, DecAssumption
  <2>6. QED
    BY <1>7, <2>2, <2>3, <2>4, <2>5
<1>10. (pc[Looper] \in WorkPlace => ~mSignalledInputEos)'
  BY <1>1 DEF LastInv
<1>11. QED
  BY <1>3, <1>4, <1>5, <1>9, <1>10 DEF LastInv

\* A change of size comes before the last frame.
LEMMA InfoLast ==
    ASSUME TypeInv, LastInv, MppInfoChange
    PROVE  LastInv'
<1> DEFINE f == [kind |-> "info", pts |-> Head(packets).pts]
<1>1. /\ packets \in Seq(Packet) /\ packets # <<>> /\ frames \in Seq(Frame)
      /\ Len(frames) < FrameCap /\ frames' = Append(frames, f)
      /\ UNCHANGED <<pc, mode, mSignalledInputEos, packets>>
  BY DEF TypeInv, QueuesOK, MppInfoChange, CanDecode
<1>2. Closed' = Closed
  BY <1>1 DEF Closed
<1>3. \A i \in DOMAIN frames : frames[i].kind \notin {"last", "eos"}
  BY <1>1 DEF LastInv
<1>4. f \in Frame /\ f.kind = "info"
  <2>1. Head(packets) \in Packet
    BY <1>1, TailIsSeq
  <2>2. Head(packets).pts \in Work
    BY <2>1 DEF Packet
  <2>3. QED
    BY <2>2 DEF Frame
<1> HIDE DEF f
<1>5. /\ DOMAIN frames = 1 .. Len(frames) /\ DOMAIN frames' = 1 .. Len(frames) + 1
      /\ Len(frames) \in Nat
      /\ \A i \in 1 .. Len(frames) : frames'[i] = frames[i]
      /\ frames'[Len(frames) + 1] = f /\ Len(frames') = Len(frames) + 1
  BY <1>1, <1>4, AppendIsSeq
<1>6. \A i \in 1 .. Len(frames) + 1 : i \in 1 .. Len(frames) \/ i = Len(frames) + 1
  BY <1>5
<1>7. \A i \in DOMAIN frames' : frames'[i].kind \notin {"last", "eos"}
  BY <1>3, <1>4, <1>5, <1>6
<1>8. Len(frames') <= FrameCap
  BY <1>1, <1>5, DecAssumption
<1>9. QED
  BY <1>1, <1>2, <1>7, <1>8 DEF LastInv

\* A thread takes the next frame.
LEMMA TakeLast ==
    ASSUME TypeInv, LastInv, frames # <<>>, frames' = Tail(frames), UNCHANGED packets,
           Closed => Closed', pc'[Looper] \in WorkPlace => ~mSignalledInputEos'
    PROVE  LastInv'
<1>1. frames \in Seq(Frame) /\ packets \in Seq(Packet)
  BY DEF TypeInv, QueuesOK
<1>2. /\ Len(frames) \in Nat /\ Len(frames) > 0 /\ Len(frames') = Len(frames) - 1
      /\ DOMAIN frames = 1 .. Len(frames) /\ DOMAIN frames' = 1 .. Len(frames) - 1
      /\ \A i \in DOMAIN frames' : frames'[i] = frames[i + 1] /\ i + 1 \in DOMAIN frames
  BY <1>1, TailIsSeq
<1>3. \A i \in DOMAIN frames' : frames'[i].kind \in {"last", "eos"} =>
         i = Len(frames') /\ packets' = <<>> /\ Closed'
  BY <1>1, <1>2 DEF LastInv
<1>4. Len(frames') <= FrameCap
  <2>1. Len(frames) <= FrameCap \/ Len(frames) = FrameCap + 1
    BY DEF LastInv
  <2>2. \A n \in Nat : n <= FrameCap \/ n = FrameCap + 1 => n - 1 <= FrameCap
    BY DecAssumption
  <2>3. QED
    BY <1>2, <2>1, <2>2
<1>5. QED
  BY <1>3, <1>4 DEF LastInv

\* Only an open session takes a packet.
LEMMA SendLast ==
    ASSUME TypeInv, LastInv, SendPacket, pc'[Looper] \in WorkPlace => ~mSignalledInputEos'
    PROVE  LastInv'
<1> DEFINE e == [pts |-> work, eos |-> eos]
<1>1. /\ packets \in Seq(Packet) /\ packets' = Append(packets, e) /\ UNCHANGED frames
      /\ eos \in BOOLEAN /\ work \in Work
  BY DEF TypeInv, QueuesOK, SendPacket, FlagsOK, WorkOK, AtWork, WorkPlace
<1>2. ~Closed
  BY DEF SendPacket, Closed, LastInv, WorkPlace, DrainPlace
<1>3. e \in Packet /\ e.eos = eos
  BY <1>1 DEF Packet
<1>4. eos => Closed'
  <2>1. /\ Looper \in Thread /\ pc \in [Thread -> Place]
        /\ mode \in [Thread -> {"work", "NO_EOS", "WITH_EOS"}]
    BY DEF TypeInv, ThreadsOK, Thread
  <2>2. QED
    BY <2>1 DEF SendPacket, AfterSend, Closed, DrainPlace
<1> HIDE DEF e
<1>5. /\ DOMAIN packets = 1 .. Len(packets) /\ DOMAIN packets' = 1 .. Len(packets) + 1
      /\ Len(packets) \in Nat /\ \A i \in 1 .. Len(packets) : packets'[i] = packets[i]
      /\ packets'[Len(packets) + 1] = e /\ Len(packets') = Len(packets) + 1
  BY <1>1, <1>3, AppendIsSeq
<1>6. \A i \in 1 .. Len(packets) + 1 : i \in 1 .. Len(packets) \/ i = Len(packets) + 1
  BY <1>5
<1>7. \A i \in DOMAIN packets' : packets'[i].eos => i = Len(packets') /\ Closed'
  BY <1>2, <1>3, <1>4, <1>5, <1>6 DEF LastInv
<1>8. QED
  BY <1>1, <1>2, <1>7 DEF LastInv

\* Every step keeps the end of stream last.
LEMMA LastStep == ASSUME TypeInv, LastInv, [Next]_vars PROVE LastInv'
<1>1. (pc[Looper] \in WorkPlace => ~mSignalledInputEos)'
  BY OpenStep DEF LastInv
<1>2. CASE UNCHANGED <<packets, frames>> /\ ~FlushMpp
  <2>1. Closed => Closed'
    BY <1>2, ClosedStep
  <2>2. QED
    BY <1>1, <1>2, <2>1 DEF LastInv
<1>3. CASE FlushMpp \/ Release
  <2>1. packets' = <<>> /\ frames' = <<>>
    BY <1>3 DEF FlushMpp, Release
  <2>2. QED
    BY <1>1, <2>1, DecAssumption DEF LastInv
<1>4. ASSUME NEW t \in Thread, \/ GetPicture \/ GetInfo \/ GetFails
                               \/ DrainPicture(t) \/ DrainEmptyEos(t) \/ DrainInfo(t) \/ DrainInfoFails(t)
                               \/ DrainCopyFails(t)
      PROVE  LastInv'
  <2>1. frames # <<>> /\ frames' = Tail(frames) /\ UNCHANGED packets
    BY <1>4 DEF GetPicture, GetInfo, GetFails, DrainPicture, DrainEmptyEos, DrainInfo,
       DrainInfoFails, DrainCopyFails, InfoChange, Is
  <2>2. CASE FlushMpp
    BY <1>3, <2>2
  <2>3. CASE ~FlushMpp
    BY <1>1, <2>1, <2>3, ClosedStep, TakeLast
  <2>4. QED
    BY <2>2, <2>3
<1>5. QED
  BY <1>1, <1>2, <1>3, <1>4, WhoChanges, SendLast, DecodeLast, InfoLast DEF Thread

-----------------------------------------------------------------------------
(***************************************************************************)
(* The rounds of drainInternal().  Every round takes a frame, a change of  *)
(* size or finds MPP empty, so what a round may still find bounds their    *)
(* number.                                                                 *)
(***************************************************************************)

EosAt(s) == \E i \in DOMAIN s : s[i].eos
Bit(b) == IF b THEN 1 ELSE 0

\* The frames that are there or can still come.
Load == Len(frames) + Len(packets) + (MaxInfo - infos) + Bit(EosAt(packets))
Room == PacketCap + FrameCap + MaxInfo + Bit(Closed)
Empty == packets = <<>> /\ frames = <<>>

\* drainInternal() gives up only when MPP is empty and takes no more.
RoundsInv ==
    prompt /\ Alone /\ mode[Looper] # "WITH_EOS" =>
       /\ pc[Looper] = "drain_get" =>
             retry[Looper] + Load <= Room \/ (Empty /\ mode[Looper] = "work")
       /\ pc[Looper] \in {"drain_give", "drain_round"} =>
             retry[Looper] + 1 + Load <= Room \/ (Empty /\ mode[Looper] = "work")
       /\ mOutputEos => Empty /\ Closed

\* Loads and rooms are numbers.
LEMMA LoadRange == ASSUME TypeInv PROVE Load \in Nat /\ Room \in Nat
<1>1. Len(frames) \in Nat /\ Len(packets) \in Nat /\ MaxInfo - infos \in Nat
  BY DecAssumption DEF TypeInv, QueuesOK, HistoryOK
<1>2. Bit(EosAt(packets)) \in Nat /\ Bit(Closed) \in Nat
  BY DEF Bit
<1>3. QED
  BY <1>1, <1>2, DecAssumption DEF Load, Room

\* What can come fits in the rounds there are.
LEMMA LoadFits == ASSUME TypeInv, LastInv PROVE Load <= Room
<1>1. /\ Len(frames) \in Nat /\ Len(packets) \in Nat /\ Len(packets) <= PacketCap
      /\ MaxInfo - infos <= MaxInfo /\ MaxInfo - infos \in Nat
  BY DecAssumption DEF TypeInv, QueuesOK, HistoryOK
<1>2. EosAt(packets) => Closed
  BY DEF EosAt, LastInv
<1>3. Bit(EosAt(packets)) <= Bit(Closed) /\ Bit(EosAt(packets)) \in Nat /\ Bit(Closed) \in Nat
  BY <1>2 DEF Bit
<1>4. CASE Len(frames) <= FrameCap
  BY <1>1, <1>3, <1>4, DecAssumption DEF Load, Room
<1>5. CASE Len(frames) = FrameCap + 1 /\ frames[Len(frames)].kind = "eos"
  <2>1. Len(frames) \in DOMAIN frames
    BY <1>1, <1>5, DecAssumption DEF TypeInv, QueuesOK
  <2>2. packets = <<>> /\ Closed
    BY <1>5, <2>1 DEF LastInv
  <2>3. Len(packets) = 0 /\ ~EosAt(packets)
    BY <2>2 DEF EosAt
  <2>4. Bit(EosAt(packets)) = 0 /\ Bit(Closed) = 1
    BY <2>2, <2>3 DEF Bit
  <2>5. QED
    BY <1>1, <1>5, <2>3, <2>4, DecAssumption DEF Load, Room
<1>6. QED
  BY <1>4, <1>5 DEF LastInv

\* A frame taken is one less to come.
LEMMA LoadTaken ==
    ASSUME TypeInv, frames # <<>>, frames' = Tail(frames), UNCHANGED <<packets, infos>>
    PROVE  Load' = Load - 1
<1>1. Len(frames) \in Nat /\ Len(frames') = Len(frames) - 1 /\ Len(packets) \in Nat
  BY TailIsSeq DEF TypeInv, QueuesOK
<1>2. MaxInfo - infos \in Nat
  BY DecAssumption DEF TypeInv, HistoryOK
<1>3. Bit(EosAt(packets)) \in Nat /\ Bit(EosAt(packets'))  = Bit(EosAt(packets))
  BY DEF Bit
<1>4. QED
  BY <1>1, <1>2, <1>3 DEF Load

\* MPP decodes: no more frames come than the load counted.
LEMMA LoadDecoded ==
    ASSUME TypeInv, LastInv, MppNext, prompt
    PROVE  Load' <= Load
<1>1. /\ packets \in Seq(Packet) /\ packets # <<>> /\ frames \in Seq(Frame)
      /\ Len(frames) \in Nat /\ Len(packets) \in Nat /\ infos \in 0 .. MaxInfo
  <2>1. packets # <<>>
    BY DEF MppNext, MppDecode, MppInfoChange, CanDecode
  <2>2. QED
    BY <2>1 DEF TypeInv, QueuesOK, HistoryOK
<1>2. CASE MppInfoChange
  <2>1. /\ Len(frames') = Len(frames) + 1 /\ infos' = infos + 1 /\ packets' = packets
    BY <1>1, <1>2 DEF MppInfoChange
  <2>2. MaxInfo - infos \in Int /\ MaxInfo - infos' = MaxInfo - infos - 1
    BY <1>1, <2>1, DecAssumption
  <2>3. Bit(EosAt(packets)) \in Nat /\ Bit(EosAt(packets')) = Bit(EosAt(packets))
    BY <2>1 DEF Bit
  <2>4. QED
    BY <1>1, <2>1, <2>2, <2>3 DEF Load
<1>3. CASE MppDecode
  <2>1. packets' = Tail(packets) /\ infos' = infos
    BY <1>3 DEF MppDecode
  <2>2. Len(packets') = Len(packets) - 1
    BY <1>1, <2>1, TailIsSeq
  <2>3. MaxInfo - infos \in Int
    BY <1>1, DecAssumption
  <2>4. \A b \in BOOLEAN : Bit(b) \in 0 .. 1
    BY DEF Bit
  <2>5. EosAt(packets') => EosAt(packets)
    <3>1. \A i \in DOMAIN Tail(packets) : i + 1 \in DOMAIN packets /\ Tail(packets)[i] = packets[i + 1]
      BY <1>1, TailIsSeq
    <3>2. QED
      BY <2>1, <3>1 DEF EosAt
  <2>6. Bit(EosAt(packets')) <= Bit(EosAt(packets))
    BY <2>5 DEF Bit
  <2>7. CASE Len(frames') = Len(frames) + 1
    BY <1>1, <2>1, <2>2, <2>3, <2>6, <2>7 DEF Load, Bit
  <2>8. CASE Head(packets).eos /\ Len(frames') = Len(frames) + 2
    <3>1. 1 \in DOMAIN packets /\ Head(packets) = packets[1]
      BY <1>1, TailIsSeq
    <3>2. Len(packets) = 1
      BY <2>8, <3>1 DEF LastInv
    <3>3. Len(packets') = 0
      BY <1>1, <2>1, <2>2, <3>2
    <3>4. Bit(EosAt(packets)) = 1 /\ Bit(EosAt(packets')) = 0
      <4>1. EosAt(packets) /\ packets' = <<>>
        BY <1>1, <2>1, <2>8, <3>1, <3>2 DEF EosAt
      <4>2. QED
        BY <4>1 DEF Bit, EosAt
    <3>5. MaxInfo - infos' = MaxInfo - infos
      BY <2>1
    <3>6. Len(frames') = Len(frames) + 2
      BY <2>8
    <3>7. QED
      BY <1>1, <2>3, <3>2, <3>3, <3>4, <3>5, <3>6 DEF Load
  <2>9. Len(frames') = Len(frames) + 1 \/ (Head(packets).eos /\ Len(frames') = Len(frames) + 2)
    <3> DEFINE F(kind) == [kind |-> kind, pts |-> Head(packets).pts]
    <3>1. \/ frames' = Append(frames, F("picture")) \/ frames' = Append(frames, F("last"))
          \/ Head(packets).eos /\ frames' = frames \o <<F("picture"), F("eos")>>
      BY <1>3 DEF MppDecode
    <3>2. \A f : Len(Append(frames, f)) = Len(frames) + 1
      BY <1>1
    <3>3. \A f, g : Len(frames \o <<f, g>>) = Len(frames) + 2
      BY <1>1
    <3> HIDE DEF F
    <3>4. QED
      BY <3>1, <3>2, <3>3
  <2>10. QED
    BY <2>7, <2>8, <2>9
<1>4. QED
  BY <1>2, <1>3 DEF MppNext

\* With nothing to come MPP is empty.
LEMMA LoadIsZero == ASSUME TypeInv, Load <= 0 PROVE Empty
<1>1. /\ Len(frames) \in Nat /\ Len(packets) \in Nat
      /\ MaxInfo - infos \in Nat
  BY DecAssumption DEF TypeInv, QueuesOK, HistoryOK
<1>2. Bit(EosAt(packets)) \in Nat
  BY DEF Bit
<1>3. Len(frames) = 0 /\ Len(packets) = 0
  BY <1>1, <1>2 DEF Load
<1>4. QED
  BY <1>3 DEF Empty, TypeInv, QueuesOK

\* A drain(WITH_EOS) is not left: neither is its mode.
LEMMA WithEosStays ==
    ASSUME TypeInv, ModesInv, [Next]_vars, mode[Looper] = "WITH_EOS"
    PROVE  mode'[Looper] = "WITH_EOS"
<1>1. Looper \in Thread /\ mode \in [Thread -> {"work", "NO_EOS", "WITH_EOS"}]
  BY DEF TypeInv, ThreadsOK, Thread
<1>2. pc[Looper] \in DrainPlace
  BY DEF ModesInv
<1>3. \/ UNCHANGED mode
      \/ SendPacket \/ SendTimesOut
      \/ \E t \in Thread, m \in {"NO_EOS"} \cup DrainModes :
            DrainBegin(t, m) /\ mode' = [mode EXCEPT ![t] = m]
  BY DEF Next, ProcessNext, DrainNext, MppNext, vars, Thread,
       Process, EnsureFirst, GetPicture, GetInfo,
       GetFails, Config, NoPicture, Finish,
       DrainEnsureFails, DrainDone, FlushFlags, FlushMpp,
       Release, MppDecode, MppInfoChange, DrainPicture, DrainGive,
       DrainEmptyEos, DrainInfo, DrainInfoFails, DrainCopyFails,
       DrainEmpty, DrainRound, DrainBegin
<1>4. ~SendPacket /\ ~SendTimesOut /\ \A m : ~DrainBegin(Looper, m)
  BY <1>2 DEF SendPacket, SendTimesOut, DrainBegin, DrainPlace
<1>5. QED
  BY <1>1, <1>3, <1>4

\* The rounds are a number.
LEMMA RetryIsNat == ASSUME TypeInv PROVE \A t \in Thread : retry[t] \in Nat
<1>1. retry \in [Thread -> 0 .. kMaxRetryNum + 1]
  BY DEF TypeInv, ThreadsOK
<1>2. 0 .. kMaxRetryNum + 1 \subseteq Nat
  BY DecAssumption
<1>3. QED
  BY <1>1, <1>2

\* A flush that no drain overlapped ends with the looper idle and no end of stream.
LEMMA FlushForgets ==
    ASSUME TypeInv, ModesInv, FlushInv, FlushMpp, Alone'
    PROVE  ~mOutputEos' /\ pc'[Looper] = "idle"
<1>1. /\ Looper \in Thread /\ pc \in [Thread -> Place]
      /\ pc[Looper] = "flush" /\ mode[Looper] # "WITH_EOS" /\ ~raced
  BY DEF TypeInv, ThreadsOK, Thread, ModesInv, FlushMpp, Alone, DrainPlace
<1>2. ~mOutputEos
  BY <1>1 DEF FlushInv
<1>3. QED
  BY <1>1, <1>2 DEF FlushMpp

\* The end of stream is known only when MPP is empty and takes no more.
LEMMA EosStep ==
    ASSUME PacketCap + FrameCap + MaxInfo <= kMaxRetryNum,
           TypeInv, ModesInv, WaitInv, FlushInv, LastInv, RoundsInv, [Next]_vars,
           prompt, Alone', mode[Looper] # "WITH_EOS", mOutputEos'
    PROVE  Empty' /\ Closed'
<1>0. ~FlushMpp
  BY FlushForgets
<1>1. /\ Alone /\ Looper \in Thread /\ retry[Looper] \in Nat
  BY <1>0, AloneStep, RetryIsNat DEF Thread
<1>2. mOutputEos => Empty /\ Closed
  BY <1>1 DEF RoundsInv
<1>3. Closed /\ ~FlushMpp => Closed'
  BY ClosedStep
<1>4. CASE UNCHANGED mOutputEos
  <2>1. Empty /\ Closed
    BY <1>2, <1>4
  <2>2. ~FlushMpp
    BY <1>0
  <2>3. UNCHANGED <<packets, frames>> \/ (packets' = <<>> /\ frames' = <<>>)
    <3>1. ~SendPacket
      <4>1. SendPacket => pc[Looper] = "send"
        BY DEF SendPacket
      <4>2. QED
        BY <2>1, <4>1 DEF LastInv, Closed, WorkPlace, DrainPlace
    <3>2. packets = <<>> /\ frames = <<>>
      BY <2>1 DEF Empty
    <3>3. Release => packets' = <<>> /\ frames' = <<>>
      BY DEF Release
    <3>4. QED
      BY <2>2, <3>1, <3>2, <3>3, WhoChanges DEF GetPicture, GetInfo, GetFails, DrainPicture,
         DrainEmptyEos, DrainInfo, DrainInfoFails,
         DrainCopyFails, InfoChange, Is, MppDecode, MppInfoChange, CanDecode
  <2>4. Closed'
    BY <1>3, <2>1, <2>2
  <2>5. QED
    BY <2>1, <2>3, <2>4 DEF Empty
<1>5. CASE DrainPicture(Looper) \/ DrainEmptyEos(Looper) \/ DrainCopyFails(Looper)
  <2>1. frames # <<>> /\ frames' = Tail(frames) /\ UNCHANGED packets /\ ~FlushMpp
    BY <1>0, <1>5 DEF DrainPicture, DrainEmptyEos, DrainCopyFails, Is
  <2>2. frames \in Seq(Frame) /\ 1 \in DOMAIN frames /\ Head(frames) = frames[1]
    BY <2>1 DEF TypeInv, QueuesOK
  <2>3. mOutputEos \/ Head(frames).kind \in {"last", "eos"}
    BY <1>5 DEF DrainPicture, DrainEmptyEos, DrainCopyFails, Is
  <2>4. ~mOutputEos
    BY <1>2, <2>1 DEF Empty
  <2>5. 1 = Len(frames) /\ packets = <<>> /\ Closed
    BY <2>2, <2>3, <2>4 DEF LastInv
  <2>6. frames' = <<>>
    BY <2>1, <2>2, <2>5
  <2>7. QED
    BY <1>3, <2>1, <2>5, <2>6 DEF Empty
<1>6. CASE DrainRound(Looper)
  <2>1. UNCHANGED <<packets, frames>> /\ ~FlushMpp
    BY <1>6 DEF DrainRound, FlushMpp
  <2>2. CASE mOutputEos
    BY <1>2, <1>3, <2>1, <2>2 DEF Empty
  <2>3. CASE Empty /\ mode[Looper] = "work"
    <3>1. Closed
      BY <1>6, <2>3 DEF DrainRound, Closed, DrainPlace
    <3>2. QED
      BY <1>3, <2>1, <2>3, <3>1 DEF Empty
  <2>4. CASE GaveUp(Looper) /\ retry[Looper] + 1 + Load <= Room
    <3>1. Load \in Nat /\ retry[Looper] + 1 > kMaxRetryNum
      BY <2>4, LoadRange DEF GaveUp
    <3>2. Closed /\ Load <= 0
      <4>1. Room = PacketCap + FrameCap + MaxInfo + Bit(Closed)
        BY DEF Room
      <4>2. (Closed => Bit(Closed) = 1) /\ (~Closed => Bit(Closed) = 0)
        BY DEF Bit
      <4>3. CASE ~Closed
        BY <1>1, <2>4, <3>1, <4>1, <4>2, <4>3, DecAssumption
      <4>4. CASE Closed
        <5>1. Room = PacketCap + FrameCap + MaxInfo + 1
          BY <4>1, <4>2, <4>4
        <5>2. Load <= 0
          BY <1>1, <2>4, <3>1, <5>1, DecAssumption
        <5>3. QED
          BY <4>4, <5>2
      <4>5. QED
        BY <4>3, <4>4
    <3>3. Empty
      BY <3>2, LoadIsZero
    <3>4. QED
      BY <1>3, <2>1, <3>2, <3>3 DEF Empty
  <2>5. QED
    BY <1>1, <1>6, <2>2, <2>3, <2>4 DEF DrainRound, RoundsInv
<1>7. \/ UNCHANGED mOutputEos \/ mOutputEos' = FALSE
      \/ \E t \in Thread :
            /\ DrainNext(t)
            /\ DrainPicture(t) \/ DrainEmptyEos(t) \/ DrainCopyFails(t) \/ DrainRound(t)
  BY DEF Next, ProcessNext, DrainNext, MppNext, vars,
       Process, EnsureFirst, SendPacket,
       SendTimesOut, GetPicture, GetInfo,
       GetFails, Config, NoPicture, Finish,
       DrainEnsureFails, DrainDone, FlushFlags, ResetFlags, FlushMpp,
       Release, MppDecode, MppInfoChange, DrainGive,
       DrainInfo, DrainInfoFails, DrainEmpty, DrainBegin
<1>8. \A t \in Thread : DrainNext(t) => t = Looper
  BY <1>1, AloneDrains
<1>9. QED
  BY <1>4, <1>5, <1>6, <1>7, <1>8

\* The queues as they were leave the load, and a session stays closed.
LEMMA LoadSame ==
    ASSUME TypeInv, UNCHANGED <<packets, frames, infos>>
    PROVE  Load' = Load
  BY DEF Load, Bit, EosAt

\* The room only grows while the session stays closed.
LEMMA RoomStep ==
    ASSUME TypeInv, [Next]_vars, ~FlushMpp
    PROVE  Room <= Room'
<1>1. Closed => Closed'
  BY ClosedStep
<1>2. Bit(Closed) <= Bit(Closed') /\ Bit(Closed) \in Nat /\ Bit(Closed') \in Nat
  BY <1>1 DEF Bit
<1>3. QED
  BY <1>2, DecAssumption DEF Room

\* How a step of the looper's own drain counts.
LEMMA DrainCounts ==
    ASSUME TypeInv, WaitInv, prompt, mode[Looper] # "WITH_EOS", DrainNext(Looper)
    PROVE  LET r == retry[Looper] IN LET s == retry'[Looper] IN
           \/ /\ pc[Looper] = "drain_get" /\ frames # <<>> /\ Load' = Load - 1
              /\ \/ pc'[Looper] \in {"drain_give", "drain_round"} /\ s = r
                 \/ pc'[Looper] = "idle"
           \/ /\ pc[Looper] = "drain_get" /\ Load' = Load
              /\ \/ Empty' /\ mode'[Looper] = "work" /\ pc'[Looper] = "drain_round"
                 \/ pc'[Looper] = "idle"
           \/ /\ pc[Looper] = "drain_give" /\ Load' = Load /\ pc'[Looper] = "drain_round"
              /\ s = r /\ UNCHANGED <<Empty, mode>>
           \/ /\ pc[Looper] = "drain_round" /\ Load' = Load /\ pc'[Looper] = "drain_get"
              /\ s \in {r, r + 1} /\ UNCHANGED <<Empty, mode>>
<1>1. /\ Looper \in Thread /\ pc \in [Thread -> Place]
      /\ mode \in [Thread -> {"work", "NO_EOS", "WITH_EOS"}]
      /\ retry \in [Thread -> 0 .. kMaxRetryNum + 1]
  BY DEF TypeInv, ThreadsOK, Thread
<1>2. CASE \/ DrainPicture(Looper) \/ DrainEmptyEos(Looper) \/ DrainInfo(Looper)
           \/ DrainCopyFails(Looper)
  <2>1. frames # <<>> /\ frames' = Tail(frames) /\ UNCHANGED <<packets, infos>>
    BY <1>2 DEF DrainPicture, DrainEmptyEos, DrainInfo, DrainCopyFails, InfoChange, Is
  <2>2. Load' = Load - 1
    BY <2>1, LoadTaken
  <2>3. /\ pc[Looper] = "drain_get"
        /\ \/ pc'[Looper] \in {"drain_give", "drain_round"} /\ UNCHANGED retry
           \/ pc'[Looper] = "idle"
    BY <1>1, <1>2 DEF DrainPicture, DrainEmptyEos, DrainInfo, DrainCopyFails, DrainNothing
  <2>4. QED
    BY <2>1, <2>2, <2>3
<1>3. CASE DrainEmpty(Looper)
  <2>1. /\ pc[Looper] = "drain_get" /\ frames = <<>> /\ UNCHANGED <<packets, frames, infos, mode>>
        /\ mode[Looper] # "NO_EOS" => TimesOut /\ pc'[Looper] = "drain_round"
        /\ mode[Looper] = "NO_EOS" => pc'[Looper] = "idle"
    BY <1>1, <1>3 DEF DrainEmpty, DrainNothing
  <2>2. Load' = Load
    BY <2>1, LoadSame
  <2>3. TimesOut => packets = <<>>
    BY <2>1, TimedOutEmpty
  <2>4. mode[Looper] \in {"work", "NO_EOS"}
    BY <1>1
  <2>5. CASE mode[Looper] = "NO_EOS"
    BY <2>1, <2>2, <2>5
  <2>6. CASE mode[Looper] = "work"
    BY <2>1, <2>2, <2>3, <2>6 DEF Empty
  <2>7. QED
    BY <2>4, <2>5, <2>6
<1>4. CASE DrainGive(Looper)
  <2>1. /\ pc[Looper] = "drain_give" /\ pc'[Looper] = "drain_round"
        /\ UNCHANGED <<packets, frames, infos, mode, retry>>
    BY <1>1, <1>4 DEF DrainGive
  <2>2. QED
    BY <2>1, LoadSame DEF Empty
<1>5. CASE DrainRound(Looper)
  <2>1. /\ pc[Looper] = "drain_round" /\ pc'[Looper] = "drain_get"
        /\ UNCHANGED <<packets, frames, infos, mode>>
        /\ retry'[Looper] \in {retry[Looper], retry[Looper] + 1}
    BY <1>1, <1>5 DEF DrainRound
  <2>2. QED
    BY <2>1, LoadSame DEF Empty
<1>6. QED
  BY <1>2, <1>3, <1>4, <1>5 DEF DrainNext, DrainInfoFails, RefusesInfo

\* A drain of the looper begins with its count at zero.
LEMMA RoundsBegin ==
    ASSUME TypeInv, ModesInv, [Next]_vars, Alone, pc[Looper] \notin DrainPlace
    PROVE  retry'[Looper] = 0 /\ pc'[Looper] \notin {"drain_give", "drain_round"}
<1>1. /\ Looper \in Thread /\ pc \in [Thread -> Place]
      /\ retry \in [Thread -> 0 .. kMaxRetryNum + 1] /\ retry[Looper] = 0
  BY DEF TypeInv, ThreadsOK, Thread, ModesInv
<1>2. \A t \in Thread : ~DrainNext(t)
  <2>1. \A t \in Thread : DrainNext(t) => t = Looper
    BY AloneDrains
  <2>2. ~DrainNext(Looper)
    BY DEF DrainNext, DrainPicture, DrainGive, DrainEmptyEos, DrainInfo, DrainInfoFails,
       DrainCopyFails, DrainEmpty, DrainRound, DrainPlace
  <2>3. QED
    BY <2>1, <2>2
<1>3. CASE Process \/ FlushFlags \/ FlushMpp \/ Release \/ MppNext \/ UNCHANGED vars
  BY <1>1, <1>3 DEF Process, FlushFlags, FlushMpp, Release, MppNext, MppDecode, MppInfoChange,
     vars, DrainPlace
<1>4. CASE ProcessNext
  BY <1>1, <1>4 DEF ProcessNext, EnsureFirst, SendPacket, AfterSend, SendTimesOut, GetPicture,
     GetInfo, GetFails, Config, NoPicture, Finish, AfterFinish, DrainEnsureFails, DrainDone,
     Corrupted, End, DrainPlace
<1>5. ASSUME NEW t \in Thread, NEW m, DrainBegin(t, m)
      PROVE  retry'[Looper] = 0 /\ pc'[Looper] \notin {"drain_give", "drain_round"}
  BY <1>1, <1>5 DEF DrainBegin, DrainPlace
<1>6. QED
  BY <1>2, <1>3, <1>4, <1>5 DEF Next, Thread

\* The two facts about loads, of a state.
LEMMA LoadAlways == TypeInv /\ LastInv => Load \in Nat /\ Room \in Nat /\ Load <= Room
  BY LoadFits, LoadRange

\* The sums of the rounds.
LEMMA Counting ==
    \A r, a, b, c, d \in Nat : b <= d =>
        /\ r + a <= b /\ c = a - 1 => r + 1 + c <= d
        /\ r + 1 + a <= b /\ c <= a => r + 1 + c <= d
        /\ r + a <= b /\ c <= a => r + c <= d
        /\ r + 1 + a <= b /\ c <= a => r + 1 + c <= d /\ r + c <= d
  OBVIOUS

\* A step of a drain uses up no more than the load it takes away.
LEMMA BudgetStep ==
    ASSUME TypeInv, ModesInv, WaitInv, LastInv, RoundsInv, [Next]_vars,
           prompt, Alone, Alone', mode[Looper] # "WITH_EOS"
    PROVE  /\ pc'[Looper] = "drain_get" =>
                 retry'[Looper] + Load' <= Room' \/ (Empty' /\ mode'[Looper] = "work")
           /\ pc'[Looper] \in {"drain_give", "drain_round"} =>
                 retry'[Looper] + 1 + Load' <= Room' \/ (Empty' /\ mode'[Looper] = "work")
<1>1. /\ Looper \in Thread /\ pc \in [Thread -> Place]
      /\ mode \in [Thread -> {"work", "NO_EOS", "WITH_EOS"}]
      /\ retry \in [Thread -> 0 .. kMaxRetryNum + 1] /\ retry[Looper] \in Nat
  BY RetryIsNat DEF TypeInv, ThreadsOK, Thread
<1>4. Load \in Nat /\ Room \in Nat
  BY LoadRange
<1>5. TypeInv' /\ LastInv' /\ ModesInv'
  BY TypeStep, LastStep, ModesStep
<1>6. Load' \in Nat /\ Room' \in Nat /\ Load' <= Room'
  <2>1. (TypeInv /\ LastInv)'
    BY <1>5
  <2>2. (Load \in Nat /\ Room \in Nat /\ Load <= Room)'
    BY <2>1, LoadAlways, PTL
  <2>3. QED
    BY <2>2
<1>7. CASE pc[Looper] \notin DrainPlace
  <2>1. retry'[Looper] = 0 /\ pc'[Looper] \notin {"drain_give", "drain_round"}
    BY <1>7, RoundsBegin
  <2>2. 0 + Load' <= Room'
    <3>1. \A a, b \in Nat : a <= b => 0 + a <= b
      OBVIOUS
    <3>2. QED
      BY <1>6, <3>1, Zenon
  <2>3. QED
    BY <2>1, <2>2
<1>8. CASE pc[Looper] \in DrainPlace
  <2>1. ~FlushMpp
    BY <1>8 DEF FlushMpp, DrainPlace
  <2>2. Room <= Room'
    BY <2>1, RoomStep
  <2> DEFINE r == retry[Looper]
             s == retry'[Looper]
             Spent == Empty /\ mode[Looper] = "work"
  <2>a. /\ pc[Looper] = "drain_get" => r + Load <= Room \/ Spent
        /\ pc[Looper] \in {"drain_give", "drain_round"} => r + 1 + Load <= Room \/ Spent
    BY DEF RoundsInv
  <2>b. r \in Nat /\ (frames # <<>> => ~Spent)
    BY <1>1 DEF Empty
  <2> HIDE DEF r
  <2>c. /\ r + Load <= Room /\ Load' = Load - 1 => r + 1 + Load' <= Room'
        /\ r + 1 + Load <= Room /\ Load' <= Load => r + 1 + Load' <= Room'
        /\ r + Load <= Room /\ Load' <= Load => r + Load' <= Room'
        /\ r + 1 + Load <= Room /\ Load' <= Load => r + 1 + Load' <= Room' /\ r + Load' <= Room'
    BY <1>4, <1>6, <2>2, <2>b, Counting, Zenon
  <2>d. Load' = Load => Load' <= Load
    BY <1>4
  <2>3. CASE DrainNext(Looper)
    <3>1. CASE /\ pc[Looper] = "drain_get" /\ frames # <<>> /\ Load' = Load - 1
               /\ \/ pc'[Looper] \in {"drain_give", "drain_round"} /\ s = r
                  \/ pc'[Looper] = "idle"
      <4>1. s = r => s + 1 + Load' <= Room'
        BY <2>a, <2>b, <2>c, <3>1
      <4>2. QED
        BY <3>1, <4>1
    <3>2. CASE /\ pc[Looper] = "drain_get" /\ Load' = Load
               /\ \/ Empty' /\ mode'[Looper] = "work" /\ pc'[Looper] = "drain_round"
                  \/ pc'[Looper] = "idle"
      BY <3>2
    <3>3. CASE /\ pc[Looper] = "drain_give" /\ Load' = Load /\ pc'[Looper] = "drain_round"
               /\ s = r /\ UNCHANGED <<Empty, mode>>
      <4>1. s + 1 + Load' <= Room' \/ Spent
        BY <2>a, <2>b, <2>c, <2>d, <3>3
      <4>2. Spent => Empty' /\ mode'[Looper] = "work"
        BY <3>3
      <4>3. QED
        BY <3>3, <4>1, <4>2
    <3>4. CASE /\ pc[Looper] = "drain_round" /\ Load' = Load /\ pc'[Looper] = "drain_get"
               /\ s \in {r, r + 1} /\ UNCHANGED <<Empty, mode>>
      <4>1. s + Load' <= Room' \/ Spent
        BY <2>a, <2>b, <2>c, <2>d, <3>4
      <4>2. Spent => Empty' /\ mode'[Looper] = "work"
        BY <3>4
      <4>3. QED
        BY <3>4, <4>1, <4>2
    <3>5. QED
      BY <2>3, <3>1, <3>2, <3>3, <3>4, DrainCounts DEF r
  <2>4. CASE MppNext
    <3>1. Load' <= Load /\ ~Empty /\ s = r /\ UNCHANGED <<pc, mode>>
      <4>1. Load' <= Load
        BY <2>4, LoadDecoded
      <4>2. QED
        BY <2>4, <4>1 DEF MppNext, MppDecode, MppInfoChange, CanDecode, Empty, r
    <3>2. /\ pc[Looper] = "drain_get" => s + Load' <= Room'
          /\ pc[Looper] \in {"drain_give", "drain_round"} => s + 1 + Load' <= Room'
      BY <2>a, <2>b, <2>c, <2>d, <3>1
    <3>3. QED
      BY <3>1, <3>2
  <2>5. CASE UNCHANGED vars
    <3>1. UNCHANGED <<pc, mode, Empty>> /\ Load' = Load /\ s = r
      BY <2>5, LoadSame DEF vars, Empty, r
    <3>2. /\ pc[Looper] = "drain_get" => s + Load' <= Room' \/ Spent
          /\ pc[Looper] \in {"drain_give", "drain_round"} => s + 1 + Load' <= Room' \/ Spent
      BY <2>a, <2>b, <2>c, <2>d, <3>1
    <3>3. Spent => Empty' /\ mode'[Looper] = "work"
      BY <3>1
    <3>4. QED
      BY <3>1, <3>2, <3>3
  <2>6. CASE DrainEnsureFails \/ DrainDone
    <3>1. pc'[Looper] = "idle"
      BY <1>1, <2>6 DEF DrainEnsureFails, DrainDone, Corrupted, End
    <3>2. QED
      BY <3>1
  <2>7. QED
    <3>1. \A t \in Thread : DrainNext(t) => t = Looper
      BY AloneDrains
    <3>2. \A t \in Drainer : ~DrainBegin(t, "NO_EOS")
      <4>1. ASSUME NEW t \in Drainer, DrainBegin(t, "NO_EOS") PROVE drained'
        BY <4>1, DecAssumption DEF DrainBegin
      <4>2. QED
        BY <4>1 DEF Alone
    <3>3. \A m : ~DrainBegin(Looper, m)
      BY <1>8 DEF DrainBegin, DrainPlace
    <3>4. ~Process /\ ~FlushFlags /\ ~Release
      BY <1>8 DEF Process, FlushFlags, Release, DrainPlace
    <3>5. ProcessNext => DrainEnsureFails \/ DrainDone
      BY <1>8 DEF ProcessNext, EnsureFirst, SendPacket, SendTimesOut, GetPicture, GetInfo,
         GetFails, Config, NoPicture, Finish, DrainPlace
    <3>6. QED
      BY <2>1, <2>3, <2>4, <2>5, <2>6, <3>1, <3>2, <3>3, <3>4, <3>5 DEF Next
<1>9. QED
  BY <1>7, <1>8

\* Every step keeps the rounds within the room, if that is at most kMaxRetryNum.
LEMMA RoundsStep ==
    ASSUME PacketCap + FrameCap + MaxInfo <= kMaxRetryNum,
           TypeInv, ModesInv, WaitInv, FlushInv, LastInv, RoundsInv, [Next]_vars
    PROVE  RoundsInv'
<1> SUFFICES ASSUME prompt', Alone', mode'[Looper] # "WITH_EOS"
             PROVE  /\ pc'[Looper] = "drain_get" =>
                          retry'[Looper] + Load' <= Room' \/ (Empty' /\ mode'[Looper] = "work")
                    /\ pc'[Looper] \in {"drain_give", "drain_round"} =>
                          retry'[Looper] + 1 + Load' <= Room' \/ (Empty' /\ mode'[Looper] = "work")
                    /\ mOutputEos' => Empty' /\ Closed'
  BY DEF RoundsInv
<1>1. prompt /\ mode[Looper] # "WITH_EOS"
  BY PromptStays, WithEosStays
<1>2. mOutputEos' => Empty' /\ Closed'
  BY <1>1, EosStep
<1>3. CASE FlushMpp
  BY <1>2, <1>3, FlushForgets
<1>4. CASE ~FlushMpp
  BY <1>1, <1>2, <1>4, AloneStep, BudgetStep
<1>5. QED
  BY <1>3, <1>4

-----------------------------------------------------------------------------
(***************************************************************************)
(* What MPP took is somewhere between its queue and the client, or a drain *)
(* has lost it, or an error has been signalled; and no end of stream       *)
(* follows an error.                                                       *)
(***************************************************************************)

Kept == Given \cup Hand \cup ShownOf(frames) \cup QueuedOf(packets)
Signalled == mSignalledInputEos \/ pc[Looper] = "flush"

Broken == mSignalledError \/ pc[Looper] = "flush"

\* No work is let in after an error, and the error ends the work it is in.
SoundInv == work # NoWork => ~mSignalledError

KeptInv ==
    prompt /\ Alone =>
       /\ fed \subseteq Kept \cup lost \/ Broken
       /\ ended => fed \subseteq Given \cup lost /\ Signalled

\* Only the first packet leaves the queue.
LEMMA TailKeeps ==
    ASSUME NEW s \in Seq(Packet), s # <<>>
    PROVE  QueuedOf(s) \subseteq {Head(s).pts} \cup QueuedOf(Tail(s))
<1>1. /\ Len(s) \in Nat /\ Len(s) > 0 /\ Head(s) = s[1]
      /\ DOMAIN s = 1 .. Len(s) /\ DOMAIN Tail(s) = 1 .. Len(s) - 1
      /\ \A i \in 1 .. Len(s) - 1 : Tail(s)[i] = s[i + 1]
  BY TailIsSeq
<1>2. \A i \in DOMAIN s : i = 1 \/ \E j \in DOMAIN Tail(s) : s[i] = Tail(s)[j]
  <2>1. \A i \in 1 .. Len(s) : i = 1 \/ (i - 1 \in 1 .. Len(s) - 1 /\ (i - 1) + 1 = i)
    BY <1>1
  <2>2. QED
    BY <1>1, <2>1
<1>3. QED
  BY <1>1, <1>2 DEF QueuedOf

\* Only the first frame leaves the others.
LEMMA TailShows ==
    ASSUME NEW s \in Seq(Frame), s # <<>>
    PROVE  ShownOf(s) \subseteq
              (IF Head(s).kind \in Pictures THEN {Head(s).pts} ELSE {}) \cup ShownOf(Tail(s))
<1>1. /\ Len(s) \in Nat /\ Len(s) > 0 /\ Head(s) = s[1]
      /\ DOMAIN s = 1 .. Len(s) /\ DOMAIN Tail(s) = 1 .. Len(s) - 1
      /\ \A i \in 1 .. Len(s) - 1 : Tail(s)[i] = s[i + 1]
  BY TailIsSeq
<1>2. \A i \in DOMAIN s : i = 1 \/ \E j \in DOMAIN Tail(s) : s[i] = Tail(s)[j]
  <2>1. \A i \in 1 .. Len(s) : i = 1 \/ (i - 1 \in 1 .. Len(s) - 1 /\ (i - 1) + 1 = i)
    BY <1>1
  <2>2. QED
    BY <1>1, <2>1
<1>3. \A i \in PictureAt(s) : \/ i = 1 /\ Head(s).kind \in Pictures
                              \/ \E j \in PictureAt(Tail(s)) : s[i] = Tail(s)[j]
  BY <1>1, <1>2 DEF PictureAt
<1>4. \A i \in PictureAt(s) :
         s[i].pts \in (IF Head(s).kind \in Pictures THEN {Head(s).pts} ELSE {}) \cup ShownOf(Tail(s))
  BY <1>1, <1>3 DEF ShownOf
<1>5. QED
  BY <1>4 DEF ShownOf

\* A packet sent is in the queue, with those before it.
LEMMA AppendKeeps ==
    ASSUME NEW s \in Seq(Packet), NEW e \in Packet
    PROVE  QueuedOf(s) \cup {e.pts} \subseteq QueuedOf(Append(s, e))
<1>1. /\ Len(s) \in Nat /\ DOMAIN s = 1 .. Len(s) /\ DOMAIN Append(s, e) = 1 .. Len(s) + 1
      /\ \A i \in 1 .. Len(s) : Append(s, e)[i] = s[i]
      /\ Append(s, e)[Len(s) + 1] = e
  BY AppendIsSeq
<1>2. \A i \in DOMAIN s : i \in DOMAIN Append(s, e) /\ Append(s, e)[i] = s[i]
  BY <1>1
<1>3. Len(s) + 1 \in DOMAIN Append(s, e)
  BY <1>1
<1>4. QED
  BY <1>1, <1>2, <1>3 DEF QueuedOf

\* A picture decoded is among the frames, with those before it.
LEMMA AppendShows ==
    ASSUME NEW s \in Seq(Frame), NEW f \in Frame
    PROVE  /\ ShownOf(s) \subseteq ShownOf(Append(s, f))
           /\ f.kind \in Pictures => f.pts \in ShownOf(Append(s, f))
<1>1. /\ Len(s) \in Nat /\ DOMAIN s = 1 .. Len(s) /\ DOMAIN Append(s, f) = 1 .. Len(s) + 1
      /\ \A i \in 1 .. Len(s) : Append(s, f)[i] = s[i]
      /\ Append(s, f)[Len(s) + 1] = f
  BY AppendIsSeq
<1>2. \A i \in PictureAt(s) : i \in PictureAt(Append(s, f)) /\ Append(s, f)[i] = s[i]
  BY <1>1 DEF PictureAt
<1>3. f.kind \in Pictures => Len(s) + 1 \in PictureAt(Append(s, f))
  BY <1>1 DEF PictureAt
<1>4. QED
  BY <1>1, <1>2, <1>3 DEF ShownOf

\* Every packet that a prompt MPP decodes gives a picture.
LEMMA DecodeKeeps ==
    ASSUME TypeInv, MppDecode, prompt
    PROVE  Kept \subseteq Kept'
<1> DEFINE p == Head(packets)
           F(kind) == [kind |-> kind, pts |-> p.pts]
<1>1. /\ packets \in Seq(Packet) /\ packets # <<>> /\ frames \in Seq(Frame)
      /\ packets' = Tail(packets)
  BY DEF TypeInv, QueuesOK, MppDecode, CanDecode
<1>2. p \in Packet
  BY <1>1, TailIsSeq
<1>3. F("picture") \in Frame /\ F("last") \in Frame /\ F("eos") \in Frame
  BY <1>2 DEF Packet, Frame
<1>4. \/ frames' = Append(frames, F("picture")) \/ frames' = Append(frames, F("last"))
      \/ frames' = frames \o <<F("picture"), F("eos")>>
  BY DEF MppDecode
<1>5. F("picture").kind \in Pictures /\ F("last").kind \in Pictures
      /\ F("picture").pts = p.pts /\ F("last").pts = p.pts
  BY DEF Pictures
<1>6. UNCHANGED <<Given, Hand>>
  BY DEF MppDecode, Given, Hand
<1>7. QueuedOf(packets) \subseteq {p.pts} \cup QueuedOf(packets')
  BY <1>1, TailKeeps
<1> HIDE DEF p, F
<1>8. frames \o <<F("picture"), F("eos")>> = Append(Append(frames, F("picture")), F("eos"))
  BY <1>1, <1>3, AppendTwo
<1>9. /\ ShownOf(frames) \cup {p.pts} \subseteq ShownOf(Append(frames, F("picture")))
      /\ ShownOf(frames) \cup {p.pts} \subseteq ShownOf(Append(frames, F("last")))
      /\ Append(frames, F("picture")) \in Seq(Frame)
  BY <1>1, <1>3, <1>5, AppendShows, AppendIsSeq
<1>10. ShownOf(Append(frames, F("picture"))) \subseteq
          ShownOf(Append(Append(frames, F("picture")), F("eos")))
  BY <1>3, <1>9, AppendShows
<1>11. ShownOf(frames) \cup {p.pts} \subseteq ShownOf(frames')
  BY <1>4, <1>8, <1>9, <1>10
<1>12. QED
  BY <1>6, <1>7, <1>11 DEF Kept

\* A frame given is with the client, with those before it.
LEMMA GivesAppend ==
    ASSUME TypeInv, NEW w \in Work, given' = Append(given, w)
    PROVE  Given \cup {w} \subseteq Given'
<1>1. given \in Seq(Work)
  BY DEF TypeInv, HistoryOK
<1>2. /\ Len(given) \in Nat /\ DOMAIN given = 1 .. Len(given) /\ DOMAIN given' = 1 .. Len(given) + 1
      /\ \A i \in 1 .. Len(given) : given'[i] = given[i]
      /\ given'[Len(given) + 1] = w
  BY <1>1, AppendIsSeq
<1>3. \A i \in DOMAIN given : i \in DOMAIN given' /\ given'[i] = given[i]
  BY <1>2
<1>4. Len(given) + 1 \in DOMAIN given'
  BY <1>2
<1>5. QED
  BY <1>2, <1>3, <1>4 DEF Given

\* A work in process() was let in before any error.
LEMMA SoundStep == ASSUME TypeInv, SoundInv, [Next]_vars PROVE SoundInv'
<1>1. \/ UNCHANGED work /\ UNCHANGED mSignalledError
      \/ mSignalledError' = FALSE
      \/ work' = NoWork
      \/ UNCHANGED mSignalledError /\ ~mSignalledError
  BY DEF Next, ProcessNext, DrainNext, MppNext, vars, MayProcess,
       Process, EnsureFirst, Corrupted, End, SendPacket,
       SendTimesOut, GetPicture, GetInfo,
       GetFails, Config, NoPicture, Finish,
       DrainEnsureFails, DrainDone, FlushFlags, ResetFlags, FlushMpp,
       Release, MppDecode, MppInfoChange, DrainPicture, DrainGive,
       DrainEmptyEos, DrainInfo, DrainInfoFails, DrainCopyFails,
       DrainEmpty, DrainRound, DrainBegin
<1>2. QED
  BY <1>1 DEF SoundInv, TypeInv, FlagsOK

\* What a drain could not copy is remembered until the flush.
LEMMA LostStep == ASSUME [Next]_vars, ~FlushMpp PROVE lost \subseteq lost'
<1>1. UNCHANGED lost \/ \E w : lost' = lost \cup {w}
  BY DEF Next, ProcessNext, DrainNext, MppNext, vars,
       Process, EnsureFirst, SendPacket,
       SendTimesOut, GetPicture, GetInfo,
       GetFails, Config, NoPicture, Finish,
       DrainEnsureFails, DrainDone, FlushFlags,
       Release, MppDecode, MppInfoChange, DrainPicture, DrainGive,
       DrainEmptyEos, DrainInfo, DrainInfoFails, DrainCopyFails,
       DrainEmpty, DrainRound, DrainBegin
<1>2. QED
  BY <1>1

\* A picture that a drain cannot copy goes to those lost.
LEMMA LoseKeeps ==
    ASSUME TypeInv, DrainCopyFails(Looper)
    PROVE  Kept \cup lost \subseteq Kept' \cup lost' /\ UNCHANGED Given
<1>1. /\ frames # <<>> /\ Head(frames).kind \in Pictures /\ frames' = Tail(frames)
      /\ lost' = lost \cup {Head(frames).pts} /\ UNCHANGED <<given, packets, entry>>
  BY DEF DrainCopyFails, Is
<1>2. ShownOf(frames) \subseteq {Head(frames).pts} \cup ShownOf(frames')
  BY <1>1, TailShows DEF TypeInv, QueuesOK
<1>3. UNCHANGED <<Given, Hand>>
  BY <1>1 DEF Given, Hand
<1>4. QED
  BY <1>1, <1>2, <1>3 DEF Kept

\* Nothing else gets lost but in a flush or with an error.
LEMMA KeepsStep ==
    ASSUME TypeInv, ModesInv, FlushInv, [Next]_vars, prompt, Alone, ~FlushMpp
    PROVE  /\ Kept \cup lost \subseteq Kept' \cup lost' \/ mSignalledError'
           /\ Given \subseteq Given' /\ (SendPacket => work \in Kept')
<1>0. lost \subseteq lost'
  BY LostStep
<1>1. /\ packets \in Seq(Packet) /\ frames \in Seq(Frame) /\ entry \in [Thread -> Taken]
      /\ Looper \in Thread
      /\ pc[Looper] \in {"finish", "drain_give"} <=> entry[Looper] # NoFrame
  BY DEF TypeInv, QueuesOK, ThreadsOK, Thread
<1>2. CASE UNCHANGED <<given, entry, frames, packets>> /\ ~SendPacket
  BY <1>0, <1>2 DEF Kept, Given, Hand
<1>3. CASE SendPacket
  <2> DEFINE e == [pts |-> work, eos |-> eos]
  <2>1. work \in Work /\ eos \in BOOLEAN
    BY <1>3 DEF SendPacket, TypeInv, WorkOK, AtWork, WorkPlace, FlagsOK
  <2>2. e \in Packet /\ e.pts = work /\ packets' = Append(packets, e)
    BY <1>3, <2>1 DEF SendPacket, Packet
  <2> HIDE DEF e
  <2>3. QueuedOf(packets) \cup {work} \subseteq QueuedOf(packets')
    BY <1>1, <2>2, AppendKeeps
  <2>4. UNCHANGED <<Given, Hand, frames>>
    BY <1>3 DEF SendPacket, Given, Hand
  <2>5. QED
    BY <1>0, <2>3, <2>4 DEF Kept
<1>4. CASE MppDecode
  BY <1>0, <1>4, DecodeKeeps DEF MppDecode, SendPacket, Given
<1>5. CASE MppInfoChange
  <2> DEFINE f == [kind |-> "info", pts |-> Head(packets).pts]
  <2>1. Head(packets) \in Packet
    BY <1>1, <1>5, TailIsSeq DEF MppInfoChange, CanDecode
  <2>2. f \in Frame /\ frames' = Append(frames, f)
    BY <1>5, <2>1 DEF MppInfoChange, Packet, Frame
  <2> HIDE DEF f
  <2>3. ShownOf(frames) \subseteq ShownOf(frames')
    BY <1>1, <2>2, AppendShows
  <2>4. UNCHANGED <<Given, Hand, packets, pc>>
    BY <1>5 DEF MppInfoChange, Given, Hand
  <2>5. ~SendPacket
    <3>1. infos' = infos + 1 /\ infos \in Int
      BY <1>5, DecAssumption DEF MppInfoChange, TypeInv, HistoryOK
    <3>2. SendPacket => infos' = infos
      BY DEF SendPacket
    <3>3. QED
      BY <3>1, <3>2
  <2>6. QED
    BY <1>0, <2>3, <2>4, <2>5 DEF Kept
<1>6. CASE GetPicture \/ DrainPicture(Looper)
  <2>1. /\ frames # <<>> /\ Head(frames).kind \in Pictures /\ frames' = Tail(frames)
        /\ entry' = [entry EXCEPT ![Looper] = Head(frames)]
        /\ UNCHANGED <<given, packets>> /\ pc[Looper] \in {"out", "drain_get"}
    BY <1>6 DEF GetPicture, DrainPicture, Is, Pictures
  <2>2. ShownOf(frames) \subseteq {Head(frames).pts} \cup ShownOf(frames')
    BY <1>1, <2>1, TailShows
  <2>3. Hand = {}
    BY <1>1, <2>1 DEF Hand
  <2>4. Hand' = {Head(frames).pts}
    <3>1. Head(frames) # NoFrame
      <4>1. NoFrame.kind = "none" /\ "none" \notin Pictures
        BY DEF NoFrame, Pictures
      <4>2. QED
        BY <2>1, <4>1
    <3>2. QED
      BY <1>1, <2>1, <3>1 DEF Hand
  <2>5. UNCHANGED Given /\ ~SendPacket
    BY <2>1 DEF Given, SendPacket
  <2>6. QED
    BY <1>0, <2>1, <2>2, <2>3, <2>4, <2>5 DEF Kept
<1>7. CASE GetInfo \/ DrainEmptyEos(Looper) \/ DrainInfo(Looper)
           \/ DrainInfoFails(Looper)
  <2>1. /\ frames # <<>> /\ Head(frames).kind \notin Pictures /\ frames' = Tail(frames)
        /\ UNCHANGED <<given, packets, entry>> /\ pc[Looper] \in {"out", "drain_get"}
    BY <1>7 DEF GetInfo, DrainEmptyEos, DrainInfo, DrainInfoFails, InfoChange, Is, Pictures
  <2>2. ShownOf(frames) \subseteq ShownOf(frames')
    BY <1>1, <2>1, TailShows
  <2>3. UNCHANGED <<Given, Hand>> /\ ~SendPacket
    BY <2>1 DEF Given, Hand, SendPacket
  <2>4. QED
    BY <1>0, <2>1, <2>2, <2>3 DEF Kept
<1>8. CASE Finish \/ DrainGive(Looper)
  <2>1. /\ given' = Append(given, entry[Looper].pts) /\ pc[Looper] \in {"finish", "drain_give"}
        /\ UNCHANGED <<packets, frames>>
    BY <1>8 DEF Finish, DrainGive, Give
  <2>2. entry[Looper] # NoFrame /\ entry[Looper] \in Taken
    BY <1>1, <2>1
  <2>3. Hand = {entry[Looper].pts} /\ entry[Looper].pts \in Work
    BY <2>2 DEF Hand, Taken, Frame
  <2>4. Given \cup Hand \subseteq Given'
    BY <2>1, <2>3, GivesAppend
  <2>5. ~SendPacket
    BY <2>1 DEF SendPacket
  <2>6. QED
    BY <1>0, <2>1, <2>4, <2>5 DEF Kept
<1>9. CASE Release
  <2>1. packets = <<>> /\ frames = <<>>
    BY <1>9 DEF Release, FlushInv, ModesInv, Alone
  <2>2. UNCHANGED <<given, entry, packets, frames, pc>> /\ ~SendPacket
    BY <1>9, <2>1 DEF Release, SendPacket
  <2>3. QED
    BY <1>0, <2>2 DEF Kept, Given, Hand
<1>10. CASE GetFails
  BY <1>10 DEF GetFails, Corrupted, Given, SendPacket
<1>11. CASE DrainCopyFails(Looper)
  BY <1>11, LoseKeeps DEF DrainCopyFails, SendPacket
<1>12. QED
  <2>1. \A t \in Thread : DrainNext(t) => t = Looper
    BY AloneDrains
  <2>2. \/ UNCHANGED <<given, entry, frames, packets>>
        \/ SendPacket \/ GetPicture \/ GetInfo \/ GetFails \/ Release
        \/ MppDecode \/ MppInfoChange \/ Finish
        \/ \E t \in Thread :
              /\ DrainNext(t)
              /\ \/ DrainPicture(t) \/ DrainEmptyEos(t) \/ DrainInfo(t)
                 \/ DrainInfoFails(t) \/ DrainCopyFails(t) \/ DrainGive(t)
    BY WhoChanges DEF DrainNext
  <2>3. QED
    BY <1>2, <1>3, <1>4, <1>5, <1>6, <1>7, <1>8, <1>9, <1>10, <1>11, <2>1, <2>2

\* The end of stream, or an error, stays signalled until the flush.
LEMMA SignalledStep ==
    ASSUME TypeInv, [Next]_vars, ~FlushMpp
    PROVE  (Signalled => Signalled') /\ (Broken => Broken')
<1>1. Looper \in Thread /\ pc \in [Thread -> Place]
  BY DEF TypeInv, ThreadsOK, Thread
<1>2. \/ FlushFlags
      \/ /\ mSignalledInputEos => mSignalledInputEos'
         /\ mSignalledError => mSignalledError'
  BY DEF Next, ProcessNext, DrainNext, MppNext, vars,
       Process, EnsureFirst, Corrupted, SendPacket,
       SendTimesOut, GetPicture, GetInfo,
       GetFails, Config, NoPicture, Finish,
       DrainEnsureFails, DrainDone,
       Release, MppDecode, MppInfoChange, DrainPicture, DrainGive,
       DrainEmptyEos, DrainInfo, DrainInfoFails, DrainCopyFails,
       DrainEmpty, DrainRound, DrainBegin
<1>3. CASE FlushFlags
  BY <1>1, <1>3 DEF FlushFlags, Signalled, Broken
<1>4. CASE pc[Looper] = "flush"
  <2>1. ~Process /\ ~FlushFlags /\ ~Release /\ ~ProcessNext
    BY <1>4 DEF Process, FlushFlags, Release, ProcessNext, EnsureFirst, SendPacket,
       SendTimesOut,
       GetPicture, GetInfo, GetFails, Config, NoPicture, Finish, DrainEnsureFails, DrainDone
  <2>2. ASSUME NEW t \in Thread, NEW m, DrainBegin(t, m) PROVE pc'[Looper] = "flush"
    BY <1>1, <1>4, <2>2 DEF DrainBegin
  <2>3. ASSUME NEW t \in Thread, DrainNext(t) PROVE pc'[Looper] = "flush"
    <3>1. pc[t] \in DrainPlace /\ \E p : pc' = [pc EXCEPT ![t] = p]
      BY <2>3 DEF DrainNext, DrainPicture, DrainGive, DrainEmptyEos, DrainInfo, DrainInfoFails,
         DrainCopyFails, DrainEmpty, DrainRound, DrainNothing, DrainPlace
    <3>2. t # Looper
      BY <1>4, <3>1 DEF DrainPlace
    <3>3. QED
      BY <1>1, <1>4, <3>1, <3>2
  <2>4. MppNext \/ UNCHANGED vars => pc'[Looper] = "flush"
    BY <1>4 DEF MppNext, MppDecode, MppInfoChange, vars
  <2>5. QED
    BY <2>1, <2>2, <2>3, <2>4 DEF Next, Thread, Signalled, Broken
<1>5. QED
  BY <1>2, <1>3, <1>4 DEF Signalled, Broken

\* Every step keeps what MPP took, and the end of stream last of all.
LEMMA KeptStep ==
    ASSUME TypeInv, ModesInv, FlushInv, LastInv, SoundInv, RoundsInv, KeptInv, [Next]_vars
    PROVE  KeptInv'
<1> SUFFICES ASSUME prompt', Alone'
             PROVE  /\ fed' \subseteq Kept' \cup lost' \/ Broken'
                    /\ ended' => fed' \subseteq Given' \cup lost' /\ Signalled'
  BY DEF KeptInv
<1>1. prompt /\ (Alone \/ FlushMpp)
  BY PromptStays, AloneStep
<1>2. ~FlushMpp => /\ fed \subseteq Kept \cup lost \/ Broken
                   /\ ended => fed \subseteq Given \cup lost /\ Signalled
  BY <1>1 DEF KeptInv
<1>3. CASE FlushMpp
  BY <1>3 DEF FlushMpp
<1>4. CASE ~FlushMpp
  <2>1. /\ Kept \cup lost \subseteq Kept' \cup lost' \/ mSignalledError'
        /\ Given \subseteq Given' /\ lost \subseteq lost' /\ (SendPacket => work \in Kept')
        /\ Signalled => Signalled'
        /\ Broken => Broken'
    BY <1>1, <1>4, KeepsStep, LostStep, SignalledStep
  <2>2. UNCHANGED fed \/ (SendPacket /\ fed' = fed \cup {work})
    BY <1>4, WhoChanges DEF SendPacket
  <2>3. fed' \subseteq Kept' \cup lost' \/ Broken'
    BY <1>2, <1>4, <2>1, <2>2 DEF Broken
  <2>4. UNCHANGED ended \/ DrainDone
    BY <1>4 DEF Next, ProcessNext, DrainNext, MppNext, vars,
       Process, EnsureFirst, SendPacket,
       SendTimesOut, GetPicture, GetInfo,
       GetFails, Config, NoPicture, Finish,
       DrainEnsureFails, FlushFlags,
       Release, MppDecode, MppInfoChange, DrainPicture, DrainGive,
       DrainEmptyEos, DrainInfo, DrainInfoFails, DrainCopyFails,
       DrainEmpty, DrainRound, DrainBegin
  <2>5. CASE ended
    <3>1. Signalled /\ Signalled'
      BY <1>2, <1>4, <2>1, <2>5
    <3>2. ~SendPacket
      BY <3>1 DEF SendPacket, Signalled, LastInv, WorkPlace
    <3>3. QED
      BY <1>2, <1>4, <2>1, <2>2, <2>3, <2>5, <3>1, <3>2
  <2>6. CASE DrainDone
    <3>1. mOutputEos /\ pc[Looper] = "drain_round" /\ mode[Looper] = "work"
      BY <2>6 DEF DrainDone
    <3>2. packets = <<>> /\ frames = <<>>
      BY <1>1, <1>4, <3>1 DEF RoundsInv, Empty
    <3>3. entry[Looper] = NoFrame
      BY <3>1 DEF TypeInv, ThreadsOK, Thread
    <3>4. Kept = Given
      BY <3>2, <3>3 DEF Kept, Hand, ShownOf, PictureAt, QueuedOf
    <3>5. UNCHANGED fed /\ Signalled'
      BY <2>6 DEF DrainDone, Signalled
    <3>6. ~Broken
      BY <3>1 DEF Broken, SoundInv, TypeInv, WorkOK, AtWork, DrainPlace
    <3>7. QED
      BY <1>2, <1>4, <2>1, <2>3, <3>4, <3>5, <3>6
  <2>7. QED
    BY <2>3, <2>4, <2>5, <2>6
<1>5. QED
  BY <1>3, <1>4

-----------------------------------------------------------------------------
(***************************************************************************)
(* The theorems.                                                           *)
(***************************************************************************)

\* All the invariants that hold whatever the sizes are.
SessionInv ==
    /\ TypeInv /\ ModesInv /\ WorksInv /\ OrderInv
    /\ FlushInv /\ WaitInv /\ LoopInv /\ LastInv /\ SoundInv

\* They hold at the start,
LEMMA SessionInit == Init => SessionInv
<1> SUFFICES ASSUME Init PROVE SessionInv
  OBVIOUS
<1>1. TypeInv
  BY TypeInit
<1> USE DecAssumption DEF Init
<1>2. ModesInv
  BY DEF ModesInv, Thread, DrainPlace
<1>3. WorksInv
  BY DEF WorksInv, Thread, DrainPlace
<1>4. OrderInv
  <2>1. SortedWorks(given) /\ SortedPictures(frames) /\ SortedPackets(packets)
    BY DEF SortedWorks, SortedPictures, SortedPackets, PictureAt
  <2>2. Given = {} /\ Hand = {} /\ ShownOf(frames) = {} /\ QueuedOf(packets) = {}
    BY DEF Given, Hand, ShownOf, PictureAt, QueuedOf, Thread
  <2>3. QED
    BY <2>1, <2>2 DEF OrderInv, Ordered, InStages, Before
<1>5. FlushInv
  BY DEF FlushInv, Thread
<1>6. WaitInv /\ LoopInv
  BY DEF WaitInv, LoopInv, Thread
<1>7. LastInv /\ SoundInv
  BY DEF LastInv, SoundInv, Thread, WorkPlace
<1>8. QED
  BY <1>1, <1>2, <1>3, <1>4, <1>5, <1>6, <1>7 DEF SessionInv

\* every step keeps them,
LEMMA SessionStep == SessionInv /\ [Next]_vars => SessionInv'
  BY TypeStep, ModesStep, WorksStep, OrderStep, FlushStep, WaitStep, LoopStep, LastStep,
     SoundStep
  DEF SessionInv

\* and so they hold always.
LEMMA SessionAlways == Spec => []SessionInv
  BY SessionInit, SessionStep, PTL DEF Spec

\* The variables keep their types (initDecoder() to onRelease()).
THEOREM TypeCorrect == Spec => []TypeOK
<1>1. SessionInv => TypeOK
  BY TypesOfTypeInv DEF SessionInv
<1>2. QED
  BY <1>1, SessionAlways, PTL

\* Until a stop() or reset() drains, and again after a flush that none drained
\* during, process() and drainInternal() hand the frames to the client in the
\* order of their packets.
THEOREM FramesInOrder == Spec => []InOrder
<1>1. SessionInv => InOrder
  BY DEF SessionInv, OrderInv, Ordered, SortedWorks, InOrder
<1>2. QED
  BY <1>1, SessionAlways, PTL

\* If MPP answers in time and no stop() or reset() drains, process() returns no
\* work as unsent: not for a full queue.  (It may still refuse a work, end it as
\* corrupted, or leave the one with the end of stream to its drain.)
THEOREM WorksAreSent == Spec => LoopSends
<1>1. SessionInv /\ [Next]_vars =>
         [\A w \in Work : prompt /\ Alone /\ outcome[w] = "busy" => outcome'[w] # "unsent"]_vars
  BY LoopSendsStep DEF SessionInv
<1>2. QED
  BY <1>1, SessionAlways, PTL DEF Spec, LoopSends

\* Where onStop(), onReset() and onRelease() skip the flush, no flag is raised and
\* nothing is in MPP, also after drains of stop() and reset(), unless one of
\* them overlapped the last flush.
THEOREM SkippedFlush == Spec => []NothingToFlush
<1>1. SessionInv => NothingToFlush
  <2> SUFFICES ASSUME SessionInv, pc[Looper] = "idle" PROVE NothingToFlush
    BY DEF NothingToFlush
  <2>1. mode[Looper] # "WITH_EOS"
    BY DEF SessionInv, ModesInv, DrainPlace
  <2>2. QED
    BY <2>1 DEF SessionInv, FlushInv, NothingToFlush
<1>2. QED
  BY <1>1, SessionAlways, PTL

\* If the rounds of drainInternal() are enough for what MPP's queues hold, MPP
\* answers in time and no stop() or reset() drains, the client has every frame
\* when it has the end of stream, but for those the drain could not copy.
THEOREM EosComplete ==
    ASSUME PacketCap + FrameCap + MaxInfo <= kMaxRetryNum
    PROVE  Spec => []EosIsComplete
<1> DEFINE IInv == SessionInv /\ RoundsInv /\ KeptInv
<1>1. Init => IInv
  <2>1. Init => RoundsInv /\ KeptInv
    BY DecAssumption DEF Init, RoundsInv, KeptInv, Thread
  <2>2. QED
    BY <2>1, SessionInit
<1>2. IInv /\ [Next]_vars => IInv'
  BY SessionStep, RoundsStep, KeptStep DEF SessionInv
<1>3. IInv => EosIsComplete
  BY DEF KeptInv, EosIsComplete
<1>4. QED
  BY <1>1, <1>2, <1>3, PTL DEF Spec
=============================================================================
