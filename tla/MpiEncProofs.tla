---------------------------- MODULE MpiEncProofs ----------------------------
(***************************************************************************)
(* Proofs about the encoder's session (MpiEnc): its counts, its end of     *)
(* stream and its sync frames.                                             *)
(***************************************************************************)
EXTENDS MpiEnc, TLAPS

-----------------------------------------------------------------------------
(***************************************************************************)
(* Types, and where a work is while process() has it.                      *)
(***************************************************************************)

BeforePut == {"prepare", "send", "clear", "force", "put"}
Packets == {"get", "got", "finish"}
LooperPlace == {"idle", "count", "after"} \cup BeforePut \cup Packets
StopPlace == {"idle", "clear", "release"} \cup Packets

\* Where each thread is: a thread inside stop() is in a drain until it is over,
\* and holds a packet between encode_get_packet and finishWork.
PlacesInv ==
    /\ pc \in [Thread -> LooperPlace \cup StopPlace]
    /\ pc[Looper] \in LooperPlace /\ \A t \in Stopper : pc[t] \in StopPlace
    /\ draining \in [Thread -> BOOLEAN]
    /\ \A t \in Thread : draining[t] => pc[t] \in Packets
    /\ \A t \in Stopper : pc[t] \in Packets => draining[t]
    /\ entry \in [Thread -> Packet \cup {NoPacket}]
    /\ \A t \in Thread : pc[t] \in {"got", "finish"} <=> entry[t] # NoPacket
    /\ \A t, u \in Stopper : Idle(t) \/ Idle(u) \/ t = u

\* The members and the rest.
ValuesInv ==
    /\ {mStarted, mMppMpi, mSpsPpsHeaderReceived, mSawInputEOS, mOutputEOS, mSignalledError,
        request, changed, eos, processed, cut} \subseteq BOOLEAN
    /\ mCurLayerCount \in Layers \cup {0}
    /\ mInputMppFmt \in {"nv12", "rgba"} /\ format \in {"nv12", "rgba"}
    /\ input \in Inputs \cup {"none"}
    /\ frames \in Seq(Packet) /\ packets \in Seq(Packet)
    /\ owed \in Nat /\ stops \in 0 .. MaxStop /\ asks \in 0 .. MaxAsk

\* process() has a work, of which it is the last: works come one by one.
WorkInv ==
    /\ work \in Work \cup {NoWork} /\ outcome \in [Work -> Outcome]
    /\ Idle(Looper) => work = NoWork
    /\ pc[Looper] \in BeforePut \cup {"count", "after"} => work # NoWork
    /\ pc[Looper] \in Packets /\ ~draining[Looper] => work # NoWork
    /\ work # NoWork => outcome[work] = "busy" /\ \A v \in Work : v > work => outcome[v] = "none"
    /\ \A v, w \in Work : v < w /\ outcome[w] # "none" => outcome[v] # "none"

\* The client's last end of stream is behind every work in process().
EndedInv ==
    /\ ended \in Work \cup {NoWork}
    /\ ended # NoWork => outcome[ended] # "none" /\ (work # NoWork => ended < work)

-----------------------------------------------------------------------------
(***************************************************************************)
(* The counts.                                                             *)
(***************************************************************************)

One(b) == IF b THEN 1 ELSE 0

\* Frames MPP has taken, in all sessions.
Put == mInputCount + One(pc[Looper] = "count")

\* Packets it has given.
Taken == mOutputCount + One(pc[Looper] = "got") + One(\E t \in Stopper : pc[t] = "got")

\* A frame is for a work; a packet for a frame.
CountsInv ==
    /\ mInputCount \in Nat /\ mOutputCount \in Nat
    /\ Taken + Len(frames) + Len(packets) <= Put
    /\ Put + One(pc[Looper] \in BeforePut) <= NumWork
    /\ \A w \in Work : outcome[w] = "none" => Put + One(pc[Looper] \in BeforePut) <= w

-----------------------------------------------------------------------------
(***************************************************************************)
(* What MPP holds.                                                         *)
(***************************************************************************)

Sorted(s) == \A i, j \in DOMAIN s : i < j => s[i].pts < s[j].pts

\* Packets come before frames, in the order of their works, which process() has seen.
MppInv ==
    /\ Sorted(frames) /\ Sorted(packets)
    /\ \A i \in DOMAIN packets, j \in DOMAIN frames : packets[i].pts < frames[j].pts
    /\ \A i \in DOMAIN frames : outcome[frames[i].pts] # "none"
                                  /\ (pc[Looper] \in BeforePut => frames[i].pts # work)
    /\ \A i \in DOMAIN packets : outcome[packets[i].pts] # "none"
                                  /\ (pc[Looper] \in BeforePut => packets[i].pts # work)

\* Nothing is put before the codec data have been sent, or without an MPP context.
HeaderInv ==
    /\ pc[Looper] \in {"send", "clear", "force", "put", "count"} => mSpsPpsHeaderReceived
    /\ ~mSpsPpsHeaderReceived \/ ~mStarted =>
          frames = <<>> /\ packets = <<>> /\ ~mOutputEOS /\ \A t \in Thread : entry[t] = NoPacket

Calm == \A t \in Stopper : Idle(t)

\* No end of stream has been given, nor refused, and no stop() takes packets.
Open == Calm /\ ended = NoWork /\ ~mSignalledError

\* A frame with the end of stream is that of the work in process().
OfWork(packet) ==
    packet.eos => packet.pts = work /\ work # NoWork /\ eos
                    /\ pc[Looper] \in Packets \cup {"count", "after"}

EosInv ==
    /\ work # NoWork /\ pc[Looper] # "prepare" => mSawInputEOS = eos
    /\ Open => /\ \A i \in DOMAIN frames : OfWork(frames[i])
               /\ \A i \in DOMAIN packets : OfWork(packets[i])
               /\ OfWork(entry[Looper])
               /\ entry[Looper].eos => frames = <<>> /\ packets = <<>>
    /\ Open /\ mOutputEOS =>
          /\ work # NoWork /\ eos /\ frames = <<>> /\ packets = <<>>
          /\ pc[Looper] \in {"get", "finish", "after"}
          /\ pc[Looper] = "get" => draining[Looper]
          /\ pc[Looper] = "finish" => entry[Looper].pts = work
          /\ pc[Looper] = "after" => processed

\* What is left in MPP is of later works.
CompleteInv ==
    ended # NoWork /\ ~cut /\ Calm =>
        /\ \A i \in DOMAIN frames : frames[i].pts > ended
        /\ \A i \in DOMAIN packets : packets[i].pts > ended

-----------------------------------------------------------------------------
(***************************************************************************)
(* The sync frames.                                                        *)
(***************************************************************************)

SyncInv ==
    /\ owed > 0 => mStarted /\ ((request /\ changed) \/ pc[Looper] = "force")
    /\ owed > 1 => Put > 0 /\ owed <= ((Put - 1) % Period) + 2
    /\ owed > 1 /\ pc[Looper] = "put" => mInputCount % Period # 0

-----------------------------------------------------------------------------
(***************************************************************************)
(* Facts about the constants and about sequences.                          *)
(***************************************************************************)

USE DEF signals, flags, counts, config, sync, locals, mpp, history, Goto, Idle, GivesEos

\* The threads and the works.
LEMMA Constants ==
    /\ Looper \in Thread /\ Stopper \subseteq Thread /\ Looper \notin Stopper
    /\ \A t \in Thread : t = Looper \/ t \in Stopper
    /\ NumWork \in Nat /\ Work \subseteq Nat /\ NoWork \notin Work /\ NoWork \in Nat
    /\ \A w \in Nat : w < NumWork => w \in Work
    /\ \A w \in Work : w < NumWork
    /\ NoPacket \notin Packet /\ ~NoPacket.eos /\ ~NoPacket.data
  BY EncAssumption DEF Thread, Work, NoWork, NoPacket, Packet

\* The head and the tail of what MPP holds.
LEMMA HeadTail ==
    ASSUME NEW s \in Seq(Packet), s # <<>>
    PROVE  Head(s) \in Packet /\ Tail(s) \in Seq(Packet) /\ Len(s) = Len(Tail(s)) + 1
  OBVIOUS

\* A packet at the end.
LEMMA AppendType ==
    ASSUME NEW s \in Seq(Packet), NEW p \in Packet
    PROVE  Append(s, p) \in Seq(Packet) /\ Len(Append(s, p)) = Len(s) + 1
  OBVIOUS

-----------------------------------------------------------------------------
(***************************************************************************)
(* Places.                                                                 *)
(***************************************************************************)

\* The looper goes on within process(), or takes up a work or a drain.
LEMMA LooperGoes ==
    ASSUME PlacesInv, UNCHANGED <<entry, draining>>, pc[Looper] \notin Packets,
           NEW place \in LooperPlace \ {"got", "finish"}, Goto(Looper, place)
    PROVE  PlacesInv'
  BY Constants DEF PlacesInv, Packets

\* A thread leaves a drain, or process() its wait for a packet.
LEMMA LeavesGet ==
    ASSUME PlacesInv, NEW t \in Thread, pc[t] \in Packets, entry' = [entry EXCEPT ![t] = NoPacket],
           draining' = [draining EXCEPT ![t] = FALSE],
           NEW place, Goto(t, place),
           t = Looper => place \in {"idle", "after"}, t # Looper => place = "clear"
    PROVE  PlacesInv'
  BY Constants DEF PlacesInv, Packets, LooperPlace, StopPlace

\* Where the actions of a thread in the queue of packets take it.
LEMMA NothingGoes ==
    ASSUME PlacesInv, NEW t \in Thread, pc[t] \in Packets, Nothing(t),
           entry' = [entry EXCEPT ![t] = NoPacket]
    PROVE  PlacesInv'
<1>1. draining \in [Thread -> BOOLEAN] /\ (t # Looper => draining[t])
  BY Constants DEF PlacesInv
<1>2. draining' = [draining EXCEPT ![t] = FALSE]
  BY <1>1 DEF Nothing
<1>3. \E place : /\ Goto(t, place)
                 /\ t = Looper => place \in {"idle", "after"}
                 /\ t # Looper => place = "clear"
  BY <1>1 DEF Nothing, EndDrain, HasWork, End
<1>4. QED
  BY <1>2, <1>3, LeavesGet

\* initEncoder() begins a session in MPP, or leaves none, and process() takes up
\* the work or refuses it.
LEMMA BeginTakes ==
    ASSUME Begin
    PROVE  /\ pc[Looper] = "idle"
           /\ UNCHANGED <<mInputCount, mOutputCount, request, asks, entry, draining, stops>>
           /\ \E w \in Work :
                 /\ outcome[w] = "none" /\ \A v \in Work : v < w => outcome[v] # "none"
                 /\ outcome' = [outcome EXCEPT ![w] = "busy"]
                 /\ \/ UNCHANGED <<pc, work, input, eos, processed>>
                    \/ /\ work' = w /\ Goto(Looper, "prepare")
                       /\ input' \in Inputs /\ eos' \in BOOLEAN /\ UNCHANGED processed
           /\ \/ UNCHANGED <<frames, packets, ended, cut, owed, mSawInputEOS, mOutputEOS,
                            mSignalledError, mSpsPpsHeaderReceived>>
                 /\ (mStarted => UNCHANGED <<mStarted, mCurLayerCount, changed>>)
              \/ ~mStarted /\ ReleaseEncoder
<1>1. PICK w \in Work :
          /\ outcome[w] = "none" /\ \A v \in Work : v < w => outcome[v] # "none"
          /\ outcome' = [outcome EXCEPT ![w] = "busy"]
          /\ Refuse \/ Accept(w)
  BY DEF Begin
<1>2. \/ UNCHANGED <<pc, work, input, eos, processed>>
      \/ /\ work' = w /\ Goto(Looper, "prepare")
         /\ input' \in Inputs /\ eos' \in BOOLEAN /\ UNCHANGED processed
  BY <1>1 DEF Refuse, Accept
<1>3. \/ UNCHANGED <<frames, packets, ended, cut, owed, mSawInputEOS, mOutputEOS,
                    mSignalledError, mSpsPpsHeaderReceived>>
         /\ (mStarted => UNCHANGED <<mStarted, mCurLayerCount, changed>>)
      \/ ~mStarted /\ ReleaseEncoder
  BY DEF Begin, InitEncoder, InitFails, AllocFails
<1>4. /\ pc[Looper] = "idle"
      /\ UNCHANGED <<mInputCount, mOutputCount, request, asks, entry, draining, stops>>
  BY DEF Begin
<1>5. QED
  BY <1>1, <1>2, <1>3, <1>4

\* Each step of process() goes to one of its places.
LEMMA ProcessGoes ==
    ASSUME PlacesInv, Begin \/ Prepare \/ SendFrame \/ ClearSync \/ ForceIdr \/ PutFrame
                        \/ CountInput
    PROVE  PlacesInv'
<1>1. /\ UNCHANGED <<entry, draining>> /\ pc[Looper] \notin Packets
      /\ \/ UNCHANGED pc
         \/ \E place \in LooperPlace \ {"got", "finish"} : Goto(Looper, place)
  <2>1. CASE Begin
    BY <2>1, BeginTakes DEF LooperPlace, BeforePut, Packets
  <2>2. CASE ~Begin
    BY <2>2 DEF Prepare, SendFrame, ClearSync, ForceIdr, PutFrame, CountInput, Corrupted,
           HandleSync, End, LooperPlace, BeforePut, Packets
  <2>3. QED
    BY <2>1, <2>2
<1>2. CASE UNCHANGED pc
  BY <1>1, <1>2 DEF PlacesInv
<1>3. QED
  BY <1>1, <1>2, LooperGoes

\* The threads keep to their places.
LEMMA PlacesStep == ASSUME PlacesInv, ValuesInv, [Next]_vars PROVE PlacesInv'
<1>. USE Constants
<1>1. CASE Begin \/ ProcessNext
  <2>1. CASE After
    <3>1. CASE \E place \in LooperPlace \ {"got", "finish"} :
                  Goto(Looper, place) /\ UNCHANGED <<entry, draining>>
      BY <2>1, <3>1, LooperGoes DEF After, Packets
    <3>2. CASE /\ draining' = [draining EXCEPT ![Looper] = TRUE] /\ UNCHANGED entry
               /\ Goto(Looper, "get") /\ pc[Looper] = "after"
      BY <3>2 DEF PlacesInv, LooperPlace, Packets
    <3>3. QED
      BY <2>1, <3>1, <3>2 DEF After, End, LooperPlace
  <2>2. QED
    BY <1>1, <2>1, ProcessGoes DEF ProcessNext
<1>2. CASE Drain
  BY <1>2 DEF Drain, PlacesInv, LooperPlace, Packets
<1>3. CASE Ask \/ MppEncode
  BY <1>3 DEF Ask, MppEncode, PlacesInv
<1>4. ASSUME NEW t \in Thread, PacketNext(t) PROVE PlacesInv'
  <2>1. CASE GetPacket(t)
    <3>1. Head(packets) \in Packet
      BY <2>1, HeadTail DEF ValuesInv, GetPacket
    <3>2. QED
      BY <2>1, <3>1 DEF GetPacket, PlacesInv, LooperPlace, StopPlace, Packets
  <2>2. CASE GetFails(t)
    <3>1. entry' = [entry EXCEPT ![t] = NoPacket]
      BY <2>2 DEF GetFails, PlacesInv
    <3>2. QED
      BY <2>2, <3>1, NothingGoes DEF GetFails, Packets
  <2>3. CASE CountOutput(t)
    <3>1. CASE Empty(entry[t])
      BY <2>3, <3>1, NothingGoes DEF CountOutput, Packets
    <3>2. CASE ~Empty(entry[t])
      BY <2>3, <3>2 DEF CountOutput, PlacesInv, LooperPlace, StopPlace, Packets
    <3>3. QED
      BY <3>1, <3>2
  <2>4. CASE FinishWork(t)
    <3>1. /\ pc[t] = "finish" /\ entry' = [entry EXCEPT ![t] = NoPacket] /\ UNCHANGED draining
          /\ Goto(t, IF draining[t] THEN "get" ELSE "after")
      BY <2>4 DEF FinishWork
    <3>2. QED
      BY <3>1 DEF PlacesInv, LooperPlace, StopPlace, Packets
  <2>5. QED
    BY <1>4, <2>1, <2>2, <2>3, <2>4 DEF PacketNext
<1>5. ASSUME NEW t \in Stopper, Stop(t) PROVE PlacesInv'
  <2>1. CASE Drained
    BY <1>5, <2>1 DEF Stop, PlacesInv, StopPlace, Packets
  <2>2. CASE ~Drained
    <3>1. /\ \A u \in Stopper : pc[u] = "idle"
          /\ pc' = [pc EXCEPT ![t] = "get"] /\ draining' = [draining EXCEPT ![t] = TRUE]
          /\ UNCHANGED entry
      BY <1>5, <2>2 DEF Stop
    <3>2. \A u \in Thread \ {t} : pc'[u] = pc[u] /\ draining'[u] = draining[u]
      BY <1>5, <3>1 DEF PlacesInv
    <3>3. pc'[t] = "get" /\ draining'[t] /\ entry[t] = NoPacket /\ t # Looper
      BY <1>5, <3>1 DEF PlacesInv
    <3>4. draining' \in [Thread -> BOOLEAN] /\ pc' \in [Thread -> LooperPlace \cup StopPlace]
      BY <1>5, <3>1 DEF PlacesInv, StopPlace, Packets
    <3>5. QED
      BY <1>5, <3>1, <3>2, <3>3, <3>4 DEF PlacesInv, StopPlace, Packets
  <2>3. QED
    BY <2>1, <2>2
<1>6. ASSUME NEW t \in Stopper, StopNext(t) PROVE PlacesInv'
  BY <1>6 DEF StopNext, StopClear, Release, PlacesInv, StopPlace, Packets
<1>7. CASE UNCHANGED vars
  BY <1>7 DEF vars, PlacesInv
<1>8. QED
  BY <1>1, <1>2, <1>3, <1>4, <1>5, <1>6, <1>7 DEF Next

-----------------------------------------------------------------------------
(***************************************************************************)
(* Values.                                                                 *)
(***************************************************************************)

\* Where process() has a work, it is one.
LEMMA WorkThere ==
    ASSUME WorkInv, pc[Looper] \in BeforePut \cup {"count", "after"}
    PROVE  work \in Work
  BY DEF WorkInv

\* What a step of process() sets.
LEMMA ProcessValues ==
    ASSUME PlacesInv, ValuesInv, WorkInv, Begin \/ ProcessNext
    PROVE  ValuesInv'
<1>1. CASE Begin
  <2>1. /\ UNCHANGED <<asks, stops>> /\ eos' \in BOOLEAN /\ processed' \in BOOLEAN
        /\ input' \in Inputs \cup {"none"}
    BY <1>1, BeginTakes DEF ValuesInv
  <2>2. request' \in BOOLEAN
    BY <1>1, BeginTakes DEF ValuesInv
  <2>3. <<>> \in Seq(Packet)
    OBVIOUS
  <2>4. /\ {mSpsPpsHeaderReceived', mSawInputEOS', mOutputEOS', mSignalledError', cut'} \subseteq BOOLEAN
        /\ frames' \in Seq(Packet) /\ packets' \in Seq(Packet) /\ owed' \in Nat
    <3>1. CASE UNCHANGED <<frames, packets, ended, cut, owed, mSawInputEOS, mOutputEOS,
                          mSignalledError, mSpsPpsHeaderReceived>>
      BY <3>1 DEF ValuesInv
    <3>2. CASE ReleaseEncoder
      BY <3>2, <2>3 DEF ReleaseEncoder
    <3>3. QED
      BY <1>1, <3>1, <3>2, BeginTakes
  <2>5. /\ {mStarted', mMppMpi', changed'} \subseteq BOOLEAN
        /\ mCurLayerCount' \in Layers \cup {0}
        /\ mInputMppFmt' \in {"nv12", "rgba"} /\ format' \in {"nv12", "rgba"}
    <3>1. CASE UNCHANGED <<mStarted, config, changed>>
      BY <3>1 DEF ValuesInv
    <3>2. CASE InitEncoder
      BY <3>2 DEF InitEncoder, ValuesInv
    <3>3. CASE InitFails
      BY <3>3 DEF InitFails, ReleaseEncoder, ValuesInv
    <3>4. CASE AllocFails
      BY <3>4 DEF AllocFails, ReleaseEncoder, ValuesInv
    <3>5. QED
      BY <1>1, <3>1, <3>2, <3>3, <3>4 DEF Begin
  <2>6. QED
    BY <2>1, <2>2, <2>4, <2>5 DEF ValuesInv
<1>2. CASE Prepare
  BY <1>2 DEF Prepare, Corrupted, End, TakeInput, ValuesInv
<1>3. CASE SendFrame
  BY <1>3 DEF SendFrame, Corrupted, HandleSync, End, ValuesInv
<1>4. CASE ClearSync \/ ForceIdr \/ CountInput
  <2>1. CASE ClearSync
    BY <2>1 DEF ClearSync, ValuesInv
  <2>2. CASE ForceIdr
    BY <2>2 DEF ForceIdr, ValuesInv
  <2>3. CASE CountInput
    BY <2>3 DEF CountInput, ValuesInv
  <2>4. QED
    BY <1>4, <2>1, <2>2, <2>3
<1>5. CASE PutFrame
  <2>1. CASE Corrupted /\ UNCHANGED <<frames, owed>>
    BY <1>5, <2>1 DEF PutFrame, Corrupted, End, ValuesInv
  <2>2. CASE frames' = Append(frames, [pts |-> work, eos |-> eos, data |-> input # "none"])
    <3>1. [pts |-> work, eos |-> eos, data |-> input # "none"] \in Packet
      BY <1>5, WorkThere DEF PutFrame, BeforePut, ValuesInv, Packet
    <3>2. frames' \in Seq(Packet)
      BY <2>2, <3>1, AppendType DEF ValuesInv
    <3>3. QED
      BY <1>5, <2>2, <3>2 DEF PutFrame, Corrupted, End, ValuesInv
  <2>3. QED
    BY <1>5, <2>1, <2>2 DEF PutFrame
<1>6. CASE After
  BY <1>6 DEF After, End, ValuesInv
<1>7. QED
  BY <1>1, <1>2, <1>3, <1>4, <1>5, <1>6 DEF ProcessNext

\* What a thread sets while it waits for a packet and finishes with it.
LEMMA PacketValues ==
    ASSUME PlacesInv, ValuesInv, WorkInv, NEW t \in Thread, PacketNext(t)
    PROVE  ValuesInv'
<1>. USE Constants
<1>1. CASE GetPacket(t)
  <2>1. packets' \in Seq(Packet)
    BY <1>1, HeadTail DEF GetPacket, ValuesInv
  <2>2. QED
    BY <1>1, <2>1 DEF GetPacket, ValuesInv
<1>2. CASE GetFails(t)
  BY <1>2 DEF GetFails, Nothing, EndDrain, End, ValuesInv
<1>3. CASE CountOutput(t)
  BY <1>3 DEF CountOutput, Nothing, EndDrain, End, ValuesInv, PlacesInv, Packet
<1>4. CASE FinishWork(t)
  BY <1>4 DEF FinishWork, ValuesInv
<1>5. QED
  BY <1>1, <1>2, <1>3, <1>4 DEF PacketNext

\* The variables keep their types.
LEMMA ValuesStep == ASSUME PlacesInv, ValuesInv, WorkInv, [Next]_vars PROVE ValuesInv'
<1>. USE EncAssumption
<1>1. CASE Begin \/ ProcessNext
  BY <1>1, ProcessValues
<1>2. CASE Drain \/ Ask
  <2>1. CASE Drain
    BY <2>1 DEF Drain, ValuesInv
  <2>2. CASE Ask
    BY <2>2 DEF Ask, ValuesInv
  <2>3. QED
    BY <1>2, <2>1, <2>2
<1>3. CASE MppEncode
  <2>1. PICK data \in {Head(frames).data, FALSE} :
            packets' = Append(packets, [Head(frames) EXCEPT !.data = data])
    BY <1>3 DEF MppEncode
  <2>2. Head(frames) \in Packet /\ frames' \in Seq(Packet)
    BY <1>3, HeadTail DEF MppEncode, ValuesInv
  <2>3. [Head(frames) EXCEPT !.data = data] \in Packet
    BY <2>2 DEF Packet
  <2>4. packets' \in Seq(Packet)
    BY <2>1, <2>3, AppendType DEF ValuesInv
  <2>5. QED
    BY <1>3, <2>2, <2>4 DEF MppEncode, ValuesInv
<1>4. ASSUME NEW t \in Thread, PacketNext(t) PROVE ValuesInv'
  BY <1>4, PacketValues
<1>5. ASSUME NEW t \in Stopper, Stop(t) \/ StopNext(t) PROVE ValuesInv'
  <2>1. CASE Stop(t)
    BY <2>1 DEF Stop, ValuesInv
  <2>2. CASE StopClear(t)
    BY <2>2 DEF StopClear, ValuesInv
  <2>3. CASE Release(t)
    <3>1. <<>> \in Seq(Packet)
      OBVIOUS
    <3>2. QED
      BY <2>3, <3>1 DEF Release, ReleaseEncoder, ValuesInv
  <2>4. QED
    BY <1>5, <2>1, <2>2, <2>3 DEF StopNext
<1>6. CASE UNCHANGED vars
  BY <1>6 DEF vars, ValuesInv
<1>7. QED
  BY <1>1, <1>2, <1>3, <1>4, <1>5, <1>6 DEF Next

-----------------------------------------------------------------------------
(***************************************************************************)
(* Works.                                                                  *)
(***************************************************************************)

\* The work in process() is the last of those that were given.
LEMMA LastIsWork ==
    ASSUME WorkInv, work # NoWork
    PROVE  LastWork = work
<1>1. work \in Work /\ outcome[work] # "none" /\ \A v \in Work : v > work => outcome[v] = "none"
  BY DEF WorkInv
<1>2. ASSUME NEW w \in Work, outcome[w] # "none", \A v \in Work : v > w => outcome[v] = "none"
      PROVE  w = work
  BY <1>1, <1>2, Constants
<1>3. QED
  BY <1>1, <1>2 DEF LastWork

\* process() returns.
LEMMA EndKeepsWorks ==
    ASSUME PlacesInv, WorkInv, EndedInv, work # NoWork, NEW done, NEW failed, End(done, failed)
    PROVE  WorkInv' /\ EndedInv'
<1>. USE Constants
<1>1. work \in Work /\ LastWork = work
  BY LastIsWork DEF WorkInv
<1>2. /\ work' = NoWork /\ pc'[Looper] = "idle"
      /\ outcome' \in [Work -> Outcome] /\ ended' \in {ended, work}
      /\ \A v \in Work : outcome'[v] = "none" <=> outcome[v] = "none"
  BY <1>1 DEF End, WorkInv, Outcome, PlacesInv
<1>3. WorkInv'
  BY <1>2 DEF WorkInv, BeforePut, Packets
<1>4. EndedInv'
  BY <1>1, <1>2 DEF WorkInv, EndedInv
<1>5. QED
  BY <1>3, <1>4

\* The looper has a work, unless it is idle or drains.
WorkPlace ==
    /\ Idle(Looper) => work = NoWork
    /\ pc[Looper] \in BeforePut \cup {"count", "after"} => work # NoWork
    /\ pc[Looper] \in Packets /\ ~draining[Looper] => work # NoWork

\* The work in process() stays; pending works may return.
LEMMA ReturnsKeepWorks ==
    ASSUME WorkInv, EndedInv, work' = work, WorkPlace', ended' \in {ended, NoWork},
           outcome' \in [Work -> Outcome],
           \A v \in Work : outcome'[v] = "none" <=> outcome[v] = "none",
           work # NoWork => outcome'[work] = outcome[work]
    PROVE  WorkInv' /\ EndedInv'
  BY Constants DEF WorkInv, EndedInv, WorkPlace

\* Works stay as they are while the looper stays in process(), or outside.
LEMMA StayKeepsWorks ==
    ASSUME WorkInv, EndedInv, UNCHANGED <<outcome, work, ended>>,
           \/ pc'[Looper] = pc[Looper] /\ draining'[Looper] = draining[Looper]
           \/ work # NoWork /\ pc'[Looper] # "idle"
           \/ work = NoWork /\ pc'[Looper] = "idle"
           \/ work = NoWork /\ pc'[Looper] \in Packets /\ draining'[Looper]
    PROVE  WorkInv' /\ EndedInv'
  BY Constants DEF WorkInv, EndedInv, BeforePut, Packets

\* process() begins.
LEMMA BeginKeepsWorks ==
    ASSUME PlacesInv, WorkInv, EndedInv, Begin
    PROVE  WorkInv' /\ EndedInv'
<1>. USE Constants
<1>1. PICK w \in Work :
          /\ outcome[w] = "none" /\ \A v \in Work : v < w => outcome[v] # "none"
          /\ outcome' = [outcome EXCEPT ![w] = "busy"]
          /\ \/ UNCHANGED <<pc, work>>
             \/ work' = w /\ pc'[Looper] = "prepare"
  BY BeginTakes DEF PlacesInv
<1>2. work = NoWork /\ pc[Looper] = "idle" /\ ended' \in {ended, NoWork} /\ draining' = draining
  BY BeginTakes DEF ReleaseEncoder, WorkInv
<1>3. \A v \in Work : v > w => outcome[v] = "none"
  BY <1>1 DEF WorkInv
<1>4. outcome' \in [Work -> Outcome] /\ outcome'[w] = "busy"
      /\ \A v \in Work : v # w => outcome'[v] = outcome[v]
  BY <1>1 DEF WorkInv, Outcome
<1>5. ended # NoWork => ended < w
  BY <1>1, <1>3 DEF EndedInv, WorkInv
<1>6. \A v, u \in Work : v < u /\ outcome'[u] # "none" => outcome'[v] # "none"
  BY <1>1, <1>3, <1>4 DEF WorkInv
<1>7. ended # NoWork => outcome'[ended] # "none" /\ (work' # NoWork => ended < work')
  BY <1>1, <1>2, <1>4, <1>5 DEF EndedInv, WorkInv
<1>8. work' # NoWork => outcome'[work'] = "busy" /\ \A v \in Work : v > work' => outcome'[v] = "none"
  BY <1>1, <1>2, <1>3, <1>4
<1>9. QED
  BY <1>1, <1>2, <1>4, <1>6, <1>7, <1>8 DEF WorkInv, EndedInv, BeforePut, Packets

\* process() goes on, or returns.
LEMMA ProcessKeepsWorks ==
    ASSUME PlacesInv, WorkInv, EndedInv, ProcessNext
    PROVE  WorkInv' /\ EndedInv'
<1>1. work # NoWork
  BY DEF ProcessNext, Prepare, SendFrame, ClearSync, ForceIdr, PutFrame, CountInput, After,
         WorkInv, BeforePut
<1>2. \/ \E done, failed : End(done, failed)
      \/ UNCHANGED <<outcome, work, ended>> /\ pc'[Looper] # "idle"
  <2>1. pc \in [Thread -> LooperPlace \cup StopPlace] /\ Looper \in Thread
    BY Constants DEF PlacesInv
  <2>2. CASE Prepare \/ SendFrame
    BY <2>1, <2>2 DEF Prepare, SendFrame, Corrupted, HandleSync
  <2>3. CASE ClearSync \/ ForceIdr \/ CountInput
    BY <2>1, <2>3 DEF ClearSync, ForceIdr, CountInput
  <2>4. CASE PutFrame
    BY <2>1, <2>4 DEF PutFrame, Corrupted
  <2>5. CASE After
    BY <2>1, <2>5 DEF After
  <2>6. QED
    BY <2>2, <2>3, <2>4, <2>5 DEF ProcessNext
<1>3. QED
  BY <1>1, <1>2, EndKeepsWorks, StayKeepsWorks

\* getoutpacket() gives nothing.
LEMMA NothingKeepsWorks ==
    ASSUME PlacesInv, WorkInv, EndedInv, NEW t \in Thread, pc[t] \in Packets, Nothing(t)
    PROVE  WorkInv' /\ EndedInv'
<1>. USE Constants
<1>1. CASE HasWork(t) /\ draining[t]
  <2>1. work # NoWork /\ End(TRUE, mSignalledError)
    BY <1>1 DEF Nothing, EndDrain, HasWork
  <2>2. QED
    BY <2>1, EndKeepsWorks
<1>2. CASE ~HasWork(t) \/ ~draining[t]
  <2>1. UNCHANGED <<outcome, work, ended>>
    BY <1>2 DEF Nothing, EndDrain
  <2>2. CASE t = Looper
    BY <1>2, <2>1, <2>2, StayKeepsWorks DEF Nothing, EndDrain, HasWork, PlacesInv, WorkInv
  <2>3. CASE t # Looper
    <3>1. pc'[Looper] = pc[Looper] /\ draining'[Looper] = draining[Looper]
      BY <1>2, <2>3 DEF Nothing, EndDrain, HasWork, PlacesInv
    <3>2. QED
      BY <2>1, <3>1, StayKeepsWorks
  <2>4. QED
    BY <2>2, <2>3
<1>3. QED
  BY <1>1, <1>2

\* finishWork() returns a pending work; it never says that the stream has ended.
LEMMA FinishKeepsWorks ==
    ASSUME PlacesInv, WorkInv, EndedInv, NEW t \in Thread, FinishWork(t)
    PROVE  WorkInv' /\ EndedInv'
<1>. USE Constants
<1>1. /\ pc[t] = "finish" /\ UNCHANGED <<work, draining>>
      /\ Goto(t, IF draining[t] THEN "get" ELSE "after")
      /\ ended' = ended
      /\ \/ outcome' = outcome
         \/ \E w : Pending(w) /\ outcome' = [outcome EXCEPT ![w] = "back"]
  BY DEF FinishWork, Pending, Flags
<1>2. /\ outcome' \in [Work -> Outcome]
      /\ \A v \in Work : outcome'[v] = "none" <=> outcome[v] = "none"
      /\ work # NoWork => outcome'[work] = outcome[work]
  BY <1>1 DEF WorkInv, Outcome, Pending
<1>3. WorkPlace'
  BY <1>1 DEF WorkInv, WorkPlace, PlacesInv, BeforePut, Packets
<1>4. QED
  BY <1>1, <1>2, <1>3, ReturnsKeepWorks

\* The works stay in order, and the last one given is that in process().
LEMMA WorkStep ==
    ASSUME PlacesInv, WorkInv, EndedInv, [Next]_vars
    PROVE  WorkInv' /\ EndedInv'
<1>. USE Constants
<1>1. CASE Begin \/ ProcessNext
  BY <1>1, BeginKeepsWorks, ProcessKeepsWorks
<1>2. CASE Drain
  <2>1. UNCHANGED <<outcome, work, ended>> /\ work = NoWork
        /\ pc'[Looper] \in Packets /\ draining'[Looper]
    BY <1>2 DEF Drain, WorkInv, PlacesInv, Packets
  <2>2. QED
    BY <2>1, StayKeepsWorks
<1>3. CASE Ask \/ MppEncode
  BY <1>3, StayKeepsWorks DEF Ask, MppEncode
<1>4. ASSUME NEW t \in Thread, PacketNext(t) PROVE WorkInv' /\ EndedInv'
  <2>1. CASE GetPacket(t)
    <3>1. /\ UNCHANGED <<outcome, work, ended, draining>>
          /\ pc[t] = "get" /\ Goto(t, "got")
      BY <2>1 DEF GetPacket
    <3>2. \/ pc'[Looper] = pc[Looper]
          \/ work # NoWork /\ pc'[Looper] # "idle"
          \/ pc'[Looper] \in Packets /\ draining'[Looper] /\ work = NoWork
      BY <3>1 DEF PlacesInv, WorkInv, Packets
    <3>3. QED
      BY <3>1, <3>2, StayKeepsWorks
  <2>2. CASE GetFails(t)
    BY <2>2, NothingKeepsWorks DEF GetFails, Packets
  <2>3. CASE CountOutput(t)
    <3>1. CASE Nothing(t)
      BY <2>3, <3>1, NothingKeepsWorks DEF CountOutput, Packets
    <3>2. CASE ~Empty(entry[t])
      <4>1. UNCHANGED <<outcome, work, ended, draining>> /\ pc[t] = "got" /\ Goto(t, "finish")
        BY <2>3, <3>2 DEF CountOutput
      <4>2. \/ pc'[Looper] = pc[Looper]
            \/ work # NoWork /\ pc'[Looper] # "idle"
            \/ pc'[Looper] \in Packets /\ draining'[Looper] /\ work = NoWork
        BY <4>1 DEF PlacesInv, WorkInv, Packets
      <4>3. QED
        BY <4>1, <4>2, StayKeepsWorks
    <3>3. QED
      BY <2>3, <3>1, <3>2 DEF CountOutput
  <2>4. CASE FinishWork(t)
    BY <2>4, FinishKeepsWorks
  <2>5. QED
    BY <1>4, <2>1, <2>2, <2>3, <2>4 DEF PacketNext
<1>5. ASSUME NEW t \in Stopper, Stop(t) \/ StopNext(t) PROVE WorkInv' /\ EndedInv'
  <2>1. pc'[Looper] = pc[Looper] /\ draining'[Looper] = draining[Looper] /\ work' = work
    BY <1>5 DEF Stop, StopNext, StopClear, Release, PlacesInv
  <2>2. ended' \in {ended, NoWork}
    BY <1>5 DEF Stop, StopNext, StopClear, Release, ReleaseEncoder
  <2>3. /\ outcome' \in [Work -> Outcome]
        /\ \A v \in Work : outcome'[v] = "none" <=> outcome[v] = "none"
        /\ work # NoWork => outcome'[work] = outcome[work]
    BY <1>5 DEF Stop, StopNext, StopClear, Release, Pending, WorkInv, Outcome
  <2>4. WorkPlace'
    BY <2>1 DEF WorkInv, WorkPlace
  <2>5. QED
    BY <2>1, <2>2, <2>3, <2>4, ReturnsKeepWorks
<1>6. CASE UNCHANGED vars
  BY <1>6, StayKeepsWorks DEF vars
<1>7. QED
  BY <1>1, <1>2, <1>3, <1>4, <1>5, <1>6 DEF Next

-----------------------------------------------------------------------------
(***************************************************************************)
(* Counts.                                                                 *)
(***************************************************************************)

\* The numbers are natural.
LEMMA CountTypes ==
    ASSUME ValuesInv, CountsInv
    PROVE  Put \in Nat /\ Taken \in Nat /\ Len(frames) \in Nat /\ Len(packets) \in Nat
<1>1. Len(frames) \in Nat /\ Len(packets) \in Nat
  BY DEF ValuesInv
<1>2. Put \in Nat /\ Taken \in Nat
  BY DEF CountsInv, Put, Taken, One
<1>3. QED
  BY <1>1, <1>2

\* The sums.
LEMMA Sums ==
    /\ \A a, b, c, p \in Nat : a + b + c <= p => a + (b + 1) + c <= p + 1
    /\ \A a, b, c, p \in Nat : a + (b + 1) + c <= p => a + b + (c + 1) <= p
    /\ \A a, b, c, p \in Nat : a + b + (c + 1) <= p => (a + 1) + b + c <= p
    /\ \A a, b, c, p \in Nat : a + b + c <= p => a + 0 + 0 <= p
  OBVIOUS

\* No frame is taken, and none is on its way that was not before.
LEMMA PutStays ==
    ASSUME CountsInv, UNCHANGED mInputCount,
           \A w \in Work : outcome'[w] = "none" => outcome[w] = "none",
           pc'[Looper] = "count" <=> pc[Looper] = "count",
           pc'[Looper] \in BeforePut => pc[Looper] \in BeforePut
    PROVE  /\ Put' = Put /\ (mInputCount \in Nat)'
           /\ (Put + One(pc[Looper] \in BeforePut) <= NumWork)'
           /\ (\A w \in Work : outcome[w] = "none" => Put + One(pc[Looper] \in BeforePut) <= w)'
  BY Constants DEF CountsInv, Put, One

\* A step that puts nothing, takes nothing and gives nothing.
LEMMA CountsStay ==
    ASSUME CountsInv, UNCHANGED <<mInputCount, mOutputCount, frames, packets>>,
           \A w \in Work : outcome'[w] = "none" => outcome[w] = "none",
           pc'[Looper] = "count" <=> pc[Looper] = "count",
           pc'[Looper] \in BeforePut => pc[Looper] \in BeforePut,
           \A t \in Thread : pc'[t] = "got" <=> pc[t] = "got"
    PROVE  CountsInv'
<1>1. Taken' = Taken
  BY Constants DEF Taken, One
<1>2. QED
  BY <1>1, PutStays DEF CountsInv

\* A packet in hand is counted as taken, before its count and after.
LEMMA TakenBy ==
    ASSUME PlacesInv, CountsInv, NEW t \in Thread, PlacesInv', mOutputCount' \in Nat
    PROVE  /\ pc[t] = "get" /\ Goto(t, "got") /\ UNCHANGED mOutputCount => Taken' = Taken + 1
           /\ pc[t] = "got" /\ pc'[t] # "got" /\ mOutputCount' = mOutputCount + 1
                /\ (\A u \in Thread : u # t => pc'[u] = pc[u]) => Taken' = Taken
<1>. USE Constants
<1>1. CASE t = Looper
  <2>1. ASSUME pc[t] = "get", Goto(t, "got"), UNCHANGED mOutputCount PROVE Taken' = Taken + 1
    <3>1. pc'[Looper] = "got" /\ pc[Looper] # "got" /\ \A u \in Stopper : pc'[u] = pc[u]
      BY <1>1, <2>1 DEF PlacesInv
    <3>2. QED
      BY <2>1, <3>1 DEF CountsInv, Taken, One
  <2>2. ASSUME pc[t] = "got", pc'[t] # "got", mOutputCount' = mOutputCount + 1,
               \A u \in Thread : u # t => pc'[u] = pc[u]
        PROVE  Taken' = Taken
    <3>1. \A u \in Stopper : pc'[u] = pc[u]
      BY <1>1, <2>2
    <3>2. QED
      BY <1>1, <2>2, <3>1 DEF CountsInv, Taken, One
  <2>3. QED
    BY <2>1, <2>2
<1>2. CASE t \in Stopper
  <2>1. ASSUME pc[t] = "get", Goto(t, "got"), UNCHANGED mOutputCount PROVE Taken' = Taken + 1
    <3>1. ~\E u \in Stopper : pc[u] = "got"
      BY <1>2, <2>1 DEF PlacesInv
    <3>2. (\E u \in Stopper : pc'[u] = "got") /\ pc'[Looper] = pc[Looper]
      BY <1>2, <2>1 DEF PlacesInv
    <3>3. QED
      BY <2>1, <3>1, <3>2 DEF CountsInv, Taken, One
  <2>2. ASSUME pc[t] = "got", pc'[t] # "got", mOutputCount' = mOutputCount + 1,
               \A u \in Thread : u # t => pc'[u] = pc[u]
        PROVE  Taken' = Taken
    <3>1. ~\E u \in Stopper : pc'[u] = "got"
      BY <1>2, <2>2 DEF PlacesInv
    <3>2. (\E u \in Stopper : pc[u] = "got") /\ pc'[Looper] = pc[Looper]
      BY <1>2, <2>2
    <3>3. QED
      BY <2>2, <3>1, <3>2 DEF CountsInv, Taken, One
  <2>3. QED
    BY <2>1, <2>2
<1>3. QED
  BY <1>1, <1>2

\* process() begins with a work no frame was put for.
LEMMA BeginCounts ==
    ASSUME PlacesInv, WorkInv, CountsInv, HeaderInv, Begin
    PROVE  CountsInv'
<1>. USE Constants
<1>1. PICK w \in Work :
          /\ outcome[w] = "none" /\ \A v \in Work : v < w => outcome[v] # "none"
          /\ outcome' = [outcome EXCEPT ![w] = "busy"]
          /\ \/ UNCHANGED <<pc, work>>
             \/ work' = w /\ Goto(Looper, "prepare")
  BY BeginTakes
<1>2. /\ UNCHANGED <<mInputCount, mOutputCount, frames, packets>> /\ pc[Looper] = "idle"
      /\ \A v \in Work : outcome'[v] = "none" => outcome[v] = "none" /\ v # w
  BY <1>1, BeginTakes DEF ReleaseEncoder, HeaderInv, WorkInv
<1>3. CASE UNCHANGED pc
  BY <1>2, <1>3, CountsStay
<1>4. CASE Goto(Looper, "prepare")
  <2>1. Put' = Put /\ Taken' = Taken /\ Put \in Nat /\ Put = mInputCount
    BY <1>2, <1>4 DEF PlacesInv, Put, Taken, One, CountsInv
  <2>2. pc'[Looper] \in BeforePut /\ pc[Looper] \notin BeforePut
    BY <1>2, <1>4 DEF PlacesInv, BeforePut
  <2>3. Put <= w
    BY <1>1, <2>1, <2>2 DEF CountsInv, One
  <2>4. \A v \in Work : outcome'[v] = "none" => Put + 1 <= v
    <3>1. \A v \in Work : outcome'[v] = "none" => v > w
      BY <1>1, <1>2
    <3>2. QED
      BY <2>1, <2>3, <3>1
  <2>5. Put + 1 <= NumWork
    BY <2>1, <2>3
  <2>6. One(pc'[Looper] \in BeforePut) = 1
    BY <2>2 DEF One
  <2>7. QED
    BY <1>2, <2>1, <2>4, <2>5, <2>6 DEF CountsInv
<1>5. QED
  BY <1>1, <1>3, <1>4

\* encode_put_frame, before its count.
LEMMA PutCounts ==
    ASSUME PlacesInv, ValuesInv, WorkInv, CountsInv, PutFrame, UNCHANGED packets,
           frames' = Append(frames, [pts |-> work, eos |-> eos, data |-> input # "none"]),
           UNCHANGED outcome, Goto(Looper, "count")
    PROVE  CountsInv'
<1>1. [pts |-> work, eos |-> eos, data |-> input # "none"] \in Packet
  BY WorkThere DEF PutFrame, BeforePut, ValuesInv, Packet
<1>2. Len(frames') = Len(frames) + 1
  BY <1>1, AppendType DEF ValuesInv
<1>3. /\ UNCHANGED <<mInputCount, mOutputCount>> /\ pc[Looper] = "put" /\ pc'[Looper] = "count"
      /\ \A t \in Stopper : pc'[t] = pc[t]
  BY Constants DEF PutFrame, PlacesInv
<1>4. Put' = Put + 1 /\ Taken' = Taken
  BY <1>3 DEF Put, Taken, One, CountsInv
<1>5. One(pc[Looper] \in BeforePut) = 1 /\ One(pc'[Looper] \in BeforePut) = 0
  BY <1>3 DEF One, BeforePut
<1>6. Taken + (Len(frames) + 1) + Len(packets) <= Put + 1
  BY CountTypes, Sums, Zenon DEF CountsInv
<1>7. \A n \in Nat : n + 0 = n
  OBVIOUS
<1>8. Put + 1 \in Nat
  BY CountTypes
<1>9. QED
  BY <1>2, <1>3, <1>4, <1>5, <1>6, <1>7, <1>8 DEF CountsInv

\* process() goes on, or returns.
LEMMA ProcessCounts ==
    ASSUME PlacesInv, ValuesInv, WorkInv, CountsInv, ProcessNext
    PROVE  CountsInv'
<1>. USE Constants
<1>1. pc \in [Thread -> LooperPlace \cup StopPlace] /\ outcome \in [Work -> Outcome]
      /\ (work \in Work => outcome[work] # "none")
  BY DEF PlacesInv, WorkInv
<1>2. ASSUME NEW done, NEW failed, End(done, failed)
      PROVE  \A w \in Work : outcome'[w] = "none" => outcome[w] = "none"
  BY <1>1, <1>2 DEF End
<1>3. CASE Prepare \/ SendFrame \/ After
  <2>1. UNCHANGED <<mInputCount, mOutputCount, frames, packets>>
    BY <1>3 DEF Prepare, SendFrame, After
  <2>2. UNCHANGED outcome \/ \E done, failed : End(done, failed)
    BY <1>3 DEF Prepare, SendFrame, Corrupted, HandleSync, After
  <2>3. \E place \in {"idle", "send", "clear", "put", "get"} :
            Goto(Looper, place) /\ (pc[Looper] = "after" => place \in {"idle", "get"})
    BY <1>3 DEF Prepare, SendFrame, Corrupted, HandleSync, After, End
  <2>4. pc[Looper] \in BeforePut \cup {"after"} /\ pc[Looper] \notin {"count", "got"}
    BY <1>3 DEF Prepare, SendFrame, After, BeforePut
  <2>5. /\ pc'[Looper] = "count" <=> pc[Looper] = "count"
        /\ pc'[Looper] \in BeforePut => pc[Looper] \in BeforePut
        /\ \A t \in Thread : pc'[t] = "got" <=> pc[t] = "got"
    BY <1>1, <2>3, <2>4 DEF BeforePut
  <2>6. \A w \in Work : outcome'[w] = "none" => outcome[w] = "none"
    BY <1>2, <2>2
  <2>7. QED
    BY <2>1, <2>5, <2>6, CountsStay
<1>4. CASE ClearSync \/ ForceIdr
  <2>1. /\ UNCHANGED <<mInputCount, mOutputCount, frames, packets, outcome>>
        /\ pc[Looper] \in {"clear", "force"}
        /\ Goto(Looper, "force") \/ Goto(Looper, "put")
    BY <1>4 DEF ClearSync, ForceIdr
  <2>2. /\ pc'[Looper] = "count" <=> pc[Looper] = "count"
        /\ pc'[Looper] \in BeforePut => pc[Looper] \in BeforePut
        /\ \A t \in Thread : pc'[t] = "got" <=> pc[t] = "got"
    BY <1>1, <2>1 DEF BeforePut
  <2>3. QED
    BY <2>1, <2>2, CountsStay
<1>5. CASE PutFrame
  <2>1. CASE Corrupted /\ UNCHANGED frames
    <3>1. /\ UNCHANGED <<mInputCount, mOutputCount, frames, packets>>
          /\ pc[Looper] = "put" /\ Goto(Looper, "idle")
      BY <1>5, <2>1 DEF PutFrame, Corrupted, End
    <3>2. /\ pc'[Looper] = "count" <=> pc[Looper] = "count"
          /\ pc'[Looper] \in BeforePut => pc[Looper] \in BeforePut
          /\ \A t \in Thread : pc'[t] = "got" <=> pc[t] = "got"
      BY <1>1, <3>1 DEF BeforePut
    <3>3. \A w \in Work : outcome'[w] = "none" => outcome[w] = "none"
      BY <1>2, <2>1 DEF Corrupted
    <3>4. QED
      BY <3>1, <3>2, <3>3, CountsStay
  <2>2. QED
    BY <1>5, <2>1, PutCounts DEF PutFrame
<1>6. CASE CountInput
  <2>1. /\ mInputCount' = mInputCount + 1 /\ pc[Looper] = "count" /\ Goto(Looper, "get")
        /\ UNCHANGED <<mOutputCount, frames, packets, outcome>>
    BY <1>6 DEF CountInput
  <2>2. pc'[Looper] = "get" /\ \A t \in Stopper : pc'[t] = pc[t]
    BY <1>1, <2>1
  <2>3. Put' = Put /\ Taken' = Taken /\ (mInputCount \in Nat)'
    BY <2>1, <2>2 DEF Put, Taken, One, CountsInv
  <2>4. One(pc[Looper] \in BeforePut) = 0 /\ One(pc'[Looper] \in BeforePut) = 0
    BY <2>1, <2>2 DEF One, BeforePut
  <2>5. QED
    BY <2>1, <2>3, <2>4 DEF CountsInv
<1>7. QED
  BY <1>3, <1>4, <1>5, <1>6 DEF ProcessNext

\* A thread takes a packet, counts it and goes on.
LEMMA PacketCounts ==
    ASSUME PlacesInv, PlacesInv', ValuesInv, WorkInv, CountsInv, NEW t \in Thread, PacketNext(t)
    PROVE  CountsInv'
<1>. USE Constants
<1>1. pc \in [Thread -> LooperPlace \cup StopPlace] /\ outcome \in [Work -> Outcome]
      /\ (work \in Work => outcome[work] # "none")
  BY DEF PlacesInv, WorkInv
<1>2. pc[t] \in Packets /\ UNCHANGED <<mInputCount, frames>>
  BY DEF PacketNext, GetPacket, GetFails, CountOutput, FinishWork, Packets
<1>3. \A w \in Work : outcome'[w] = "none" => outcome[w] = "none"
  BY <1>1 DEF PacketNext, GetPacket, GetFails, CountOutput, FinishWork, Nothing, EndDrain, End,
              Pending, HasWork
<1>4. \E place \in Packets \cup {"idle", "clear", "after"} :
          Goto(t, place) /\ (place = "clear" => t # Looper)
  BY DEF PacketNext, GetPacket, GetFails, CountOutput, FinishWork, Nothing, EndDrain, HasWork, End,
         Packets
<1>5. /\ pc'[Looper] = "count" <=> pc[Looper] = "count"
      /\ pc'[Looper] \in BeforePut => pc[Looper] \in BeforePut
      /\ \A u \in Thread : u # t => pc'[u] = pc[u]
  <2>1. \A u \in Thread : u # t => pc'[u] = pc[u]
    BY <1>1, <1>4
  <2>2. pc'[t] \in Packets \cup {"idle", "clear", "after"} /\ (t = Looper => pc'[t] # "clear")
    BY <1>1, <1>4
  <2>3. CASE t = Looper
    BY <1>2, <2>1, <2>2, <2>3 DEF Packets, BeforePut
  <2>4. CASE t # Looper
    BY <2>1, <2>4
  <2>5. QED
    BY <2>1, <2>3, <2>4
<1>6. CASE GetPacket(t)
  <2>1. /\ pc[t] = "get" /\ Goto(t, "got") /\ UNCHANGED mOutputCount
        /\ Len(packets) = Len(packets') + 1 /\ packets' \in Seq(Packet)
    BY <1>6, HeadTail DEF GetPacket, ValuesInv
  <2>2. mOutputCount \in Nat /\ mOutputCount' \in Nat
    BY <2>1 DEF CountsInv
  <2>3. Taken' = Taken + 1
    BY <2>1, <2>2, TakenBy
  <2>4. Taken + Len(frames) + (Len(packets') + 1) <= Put
    BY <2>1 DEF CountsInv
  <2>5. (Taken + 1) + Len(frames) + Len(packets') <= Put
    <3>1. Len(packets') \in Nat
      BY <2>1
    <3>2. QED
      BY <2>4, <3>1, CountTypes, Sums, Zenon
  <2>6. /\ Put' = Put /\ (mInputCount \in Nat)'
        /\ (Put + One(pc[Looper] \in BeforePut) <= NumWork)'
        /\ (\A w \in Work : outcome[w] = "none" => Put + One(pc[Looper] \in BeforePut) <= w)'
    BY <1>2, <1>3, <1>5, PutStays
  <2>7. QED
    BY <1>2, <2>2, <2>3, <2>5, <2>6 DEF CountsInv
<1>7. CASE CountOutput(t)
  <2>1. /\ pc[t] = "got" /\ mOutputCount' = mOutputCount + 1 /\ UNCHANGED packets
        /\ pc'[t] # "got"
    BY <1>1, <1>7 DEF CountOutput, Nothing, EndDrain, HasWork, End
  <2>2. mOutputCount' \in Nat
    BY <2>1 DEF CountsInv
  <2>3. Taken' = Taken
    BY <1>5, <2>1, <2>2, TakenBy
  <2>4. /\ Put' = Put /\ (mInputCount \in Nat)'
        /\ (Put + One(pc[Looper] \in BeforePut) <= NumWork)'
        /\ (\A w \in Work : outcome[w] = "none" => Put + One(pc[Looper] \in BeforePut) <= w)'
    BY <1>2, <1>3, <1>5, PutStays
  <2>5. QED
    BY <1>2, <2>1, <2>2, <2>3, <2>4 DEF CountsInv
<1>8. CASE GetFails(t) \/ FinishWork(t)
  <2>1. /\ UNCHANGED <<mOutputCount, packets>> /\ pc[t] \in {"get", "finish"} /\ pc'[t] # "got"
    BY <1>1, <1>8 DEF GetFails, FinishWork, Nothing, EndDrain, HasWork, End
  <2>2. \A u \in Thread : pc'[u] = "got" <=> pc[u] = "got"
    BY <1>5, <2>1
  <2>3. QED
    BY <1>2, <1>3, <1>5, <2>1, <2>2, CountsStay
<1>9. QED
  BY <1>6, <1>7, <1>8 DEF PacketNext

\* The counts fit together in every session.
LEMMA CountsStep ==
    ASSUME PlacesInv, PlacesInv', ValuesInv, WorkInv, CountsInv, HeaderInv, [Next]_vars
    PROVE  CountsInv'
<1>. USE Constants
<1>1. CASE Begin \/ ProcessNext
  BY <1>1, BeginCounts, ProcessCounts
<1>2. CASE Drain
  <2>1. UNCHANGED <<mInputCount, mOutputCount, frames, packets, outcome>>
        /\ pc[Looper] = "idle" /\ Goto(Looper, "get")
    BY <1>2 DEF Drain
  <2>2. /\ pc'[Looper] = "count" <=> pc[Looper] = "count"
        /\ pc'[Looper] \in BeforePut => pc[Looper] \in BeforePut
        /\ \A t \in Thread : pc'[t] = "got" <=> pc[t] = "got"
    BY <2>1 DEF PlacesInv, BeforePut
  <2>3. QED
    BY <2>1, <2>2, CountsStay
<1>3. CASE Ask \/ UNCHANGED vars
  <2>1. UNCHANGED <<mInputCount, mOutputCount, frames, packets, outcome, pc>>
    BY <1>3 DEF Ask, vars
  <2>2. QED
    BY <2>1, CountsStay
<1>4. CASE MppEncode
  <2>1. UNCHANGED <<mInputCount, mOutputCount, outcome, pc>>
    BY <1>4 DEF MppEncode
  <2>2. PICK data \in {Head(frames).data, FALSE} :
            packets' = Append(packets, [Head(frames) EXCEPT !.data = data])
    BY <1>4 DEF MppEncode
  <2>3. /\ Head(frames) \in Packet /\ frames' \in Seq(Packet) /\ Len(frames) = Len(frames') + 1
    BY <1>4, HeadTail DEF MppEncode, ValuesInv
  <2>4. [Head(frames) EXCEPT !.data = data] \in Packet
    BY <2>3 DEF Packet
  <2>5. Len(packets') = Len(packets) + 1
    BY <2>2, <2>4, AppendType DEF ValuesInv
  <2>6. Taken + (Len(frames') + 1) + Len(packets) <= Put
    BY <2>3 DEF CountsInv
  <2>7. Taken + Len(frames') + (Len(packets) + 1) <= Put
    <3>1. Len(frames') \in Nat
      BY <2>3
    <3>2. QED
      BY <2>6, <3>1, CountTypes, Sums, Zenon
  <2>8. Put' = Put /\ Taken' = Taken
    BY <2>1 DEF Put, Taken
  <2>9. QED
    BY <2>1, <2>5, <2>7, <2>8 DEF CountsInv
<1>5. ASSUME NEW t \in Thread, PacketNext(t) PROVE CountsInv'
  BY <1>5, PacketCounts
<1>6. ASSUME NEW t \in Stopper, Stop(t) \/ StopNext(t) PROVE CountsInv'
  <2>1. /\ UNCHANGED <<mInputCount, mOutputCount>> /\ pc[t] \in {"idle", "clear", "release"}
        /\ \E place \in {"idle", "get", "clear", "release"} : Goto(t, place)
        /\ UNCHANGED <<frames, packets>> \/ (frames' = <<>> /\ packets' = <<>>)
    BY <1>6 DEF Stop, StopNext, StopClear, Release, ReleaseEncoder
  <2>2. /\ pc'[Looper] = pc[Looper]
        /\ \A u \in Thread : pc'[u] = "got" <=> pc[u] = "got"
    BY <2>1 DEF PlacesInv
  <2>3. \A w \in Work : outcome'[w] = "none" => outcome[w] = "none"
    BY <1>6 DEF Stop, StopNext, StopClear, Release, Pending
  <2>4. CASE UNCHANGED <<frames, packets>>
    BY <2>1, <2>2, <2>3, <2>4, CountsStay
  <2>5. CASE frames' = <<>> /\ packets' = <<>>
    <3>1. Taken' = Taken
      BY <2>1, <2>2 DEF Taken, One
    <3>2. Taken + 0 + 0 <= Put
      BY CountTypes, Sums, Zenon DEF CountsInv
    <3>3. Len(frames') = 0 /\ Len(packets') = 0
      BY <2>5
    <3>4. /\ Put' = Put /\ (mInputCount \in Nat)'
          /\ (Put + One(pc[Looper] \in BeforePut) <= NumWork)'
          /\ (\A w \in Work : outcome[w] = "none" => Put + One(pc[Looper] \in BeforePut) <= w)'
      BY <2>1, <2>2, <2>3, PutStays
    <3>5. QED
      BY <2>1, <3>1, <3>2, <3>3, <3>4 DEF CountsInv
  <2>6. QED
    BY <2>1, <2>4, <2>5
<1>7. QED
  BY <1>1, <1>2, <1>3, <1>4, <1>5, <1>6 DEF Next

-----------------------------------------------------------------------------
(***************************************************************************)
(* The order of what MPP holds.                                            *)
(***************************************************************************)

\* What the entries of a sequence are after a packet is taken from its head.
LEMMA TailEntries ==
    ASSUME NEW s \in Seq(Packet), s # <<>>
    PROVE  /\ Head(s) = s[1] /\ 1 \in DOMAIN s
           /\ \A i \in DOMAIN Tail(s) : i + 1 \in DOMAIN s /\ Tail(s)[i] = s[i + 1] /\ 1 < i + 1
           /\ \A i, j \in DOMAIN Tail(s) : i < j => i + 1 < j + 1
  OBVIOUS

\* The entries of a sequence with one more at its end.
LEMMA AppendEntries ==
    ASSUME NEW s \in Seq(Packet), NEW p
    PROVE  \A i \in DOMAIN Append(s, p) :
              \/ i \in DOMAIN s /\ Append(s, p)[i] = s[i]
              \/ i = Len(s) + 1 /\ Append(s, p)[i] = p /\ \A j \in DOMAIN s : j < i
  OBVIOUS

\* Entries are packets.
LEMMA EntryType ==
    ASSUME NEW s \in Seq(Packet), NEW i \in DOMAIN s
    PROVE  s[i] \in Packet /\ s[i].pts \in Work /\ i \in Nat
<1>1. s[i] \in Packet /\ i \in Nat
  OBVIOUS
<1>2. QED
  BY <1>1 DEF Packet

\* A sorted queue without its head.
LEMMA TailSorted ==
    ASSUME NEW s \in Seq(Packet), s # <<>>, Sorted(s)
    PROVE  Sorted(Tail(s)) /\ \A i \in DOMAIN Tail(s) : Head(s).pts < Tail(s)[i].pts
  BY TailEntries DEF Sorted

\* A sorted queue with a later packet.
LEMMA AppendSorted ==
    ASSUME NEW s \in Seq(Packet), NEW p \in Packet, Sorted(s),
           \A i \in DOMAIN s : s[i].pts < p.pts
    PROVE  Sorted(Append(s, p))
<1>1. ASSUME NEW i \in DOMAIN Append(s, p), NEW j \in DOMAIN Append(s, p), i < j
      PROVE  Append(s, p)[i].pts < Append(s, p)[j].pts
  <2>1. i \in DOMAIN s /\ Append(s, p)[i] = s[i]
    <3>1. ~(i = Len(s) + 1)
      BY <1>1
    <3>2. QED
      BY <3>1, AppendEntries
  <2>2. CASE j \in DOMAIN s /\ Append(s, p)[j] = s[j]
    BY <1>1, <2>1, <2>2 DEF Sorted
  <2>3. CASE Append(s, p)[j] = p
    BY <2>1, <2>3
  <2>4. QED
    BY <2>2, <2>3, AppendEntries
<1>2. QED
  BY <1>1 DEF Sorted

\* A packet of MPP is of a work that was given and is not before its put.
Seen(p) == outcome[p.pts] # "none" /\ (pc[Looper] \in BeforePut => p.pts # work)

\* What MPP holds stays in order while it does not change.
LEMMA MppStays ==
    ASSUME MppInv, ValuesInv, UNCHANGED <<frames, packets>>,
           \A w \in Work : outcome'[w] = "none" => outcome[w] = "none",
           \/ pc'[Looper] \notin BeforePut
           \/ pc[Looper] \in BeforePut /\ work' = work
           \/ outcome[work'] = "none"
    PROVE  MppInv'
<1>1. /\ \A i \in DOMAIN frames : frames[i].pts \in Work
      /\ \A i \in DOMAIN packets : packets[i].pts \in Work
  BY EntryType DEF ValuesInv
<1>2. QED
  BY <1>1 DEF MppInv, Sorted

\* Packets are given in the order of frames.
LEMMA EncodeInOrder == ASSUME MppInv, ValuesInv, MppEncode PROVE MppInv'
<1>1. PICK data \in {Head(frames).data, FALSE} :
          packets' = Append(packets, [Head(frames) EXCEPT !.data = data])
  BY DEF MppEncode
<1>. DEFINE p == [Head(frames) EXCEPT !.data = data]
<1>2. /\ frames \in Seq(Packet) /\ packets \in Seq(Packet) /\ frames # <<>>
      /\ frames' = Tail(frames) /\ UNCHANGED <<outcome, pc, work>>
  BY DEF MppEncode, ValuesInv
<1>3. Head(frames) \in Packet
  BY <1>2, HeadTail
<1>4. p \in Packet /\ p.pts = Head(frames).pts
  BY <1>3 DEF Packet
<1>5. Head(frames) = frames[1] /\ 1 \in DOMAIN frames
  BY <1>2, TailEntries
<1>6. packets' = Append(packets, p)
  BY <1>1
<1>. HIDE DEF p
<1>7. \A i \in DOMAIN packets : packets[i].pts < p.pts
  BY <1>4, <1>5 DEF MppInv
<1>8. Sorted(packets')
  BY <1>2, <1>4, <1>6, <1>7, AppendSorted DEF MppInv
<1>9. Sorted(frames') /\ \A j \in DOMAIN frames' : p.pts < frames'[j].pts
  BY <1>2, <1>4, TailSorted DEF MppInv
<1>10. \A j \in DOMAIN frames' : \E k \in DOMAIN frames : frames'[j] = frames[k]
  BY <1>2, TailEntries
<1>11. \A i \in DOMAIN packets' :
          packets'[i] = p \/ \E k \in DOMAIN packets : packets'[i] = packets[k]
  BY <1>2, <1>6, AppendEntries
<1>12. \A i \in DOMAIN packets', j \in DOMAIN frames' : packets'[i].pts < frames'[j].pts
  BY <1>9, <1>10, <1>11 DEF MppInv
<1>13. Seen(p)
  BY <1>4, <1>5 DEF MppInv, Seen
<1>14. \A i \in DOMAIN frames' : Seen(frames'[i])
  BY <1>10 DEF MppInv, Seen
<1>15. \A i \in DOMAIN packets' : Seen(packets'[i])
  BY <1>11, <1>13 DEF MppInv, Seen
<1>16. QED
  BY <1>2, <1>8, <1>9, <1>12, <1>14, <1>15 DEF MppInv, Seen

\* The frame of the work in process() is behind all that MPP holds.
LEMMA PutInOrder ==
    ASSUME MppInv, ValuesInv, WorkInv, pc[Looper] = "put", work \in Work, UNCHANGED <<packets, outcome, work>>,
           frames' = Append(frames, [pts |-> work, eos |-> eos, data |-> input # "none"]),
           pc'[Looper] = "count"
    PROVE  MppInv'
<1>. DEFINE p == [pts |-> work, eos |-> eos, data |-> input # "none"]
<1>1. p \in Packet /\ p.pts = work
  BY DEF ValuesInv, Packet
<1>2. /\ frames \in Seq(Packet) /\ packets \in Seq(Packet) /\ frames' = Append(frames, p)
      /\ pc[Looper] \in BeforePut /\ pc'[Looper] \notin BeforePut
  BY DEF ValuesInv, BeforePut
<1>. HIDE DEF p
<1>3. \A q \in Packet : Seen(q) => q.pts < work
  <2>1. work \in Nat /\ \A v \in Work : v \in Nat
    BY Constants
  <2>2. \A v \in Work : outcome[v] # "none" /\ v # work => v < work
    BY <2>1, Constants DEF WorkInv
  <2>3. \A q \in Packet : q.pts \in Work
    BY DEF Packet
  <2>4. QED
    BY <1>2, <2>2, <2>3 DEF Seen
<1>4. /\ \A i \in DOMAIN frames : frames[i].pts < p.pts
      /\ \A i \in DOMAIN packets : packets[i].pts < p.pts
  <2>1. /\ \A i \in DOMAIN frames : Seen(frames[i]) /\ frames[i] \in Packet
        /\ \A i \in DOMAIN packets : Seen(packets[i]) /\ packets[i] \in Packet
    BY <1>2, EntryType DEF MppInv, Seen
  <2>2. QED
    BY <1>1, <1>3, <2>1
<1>5. Sorted(frames')
  BY <1>1, <1>2, <1>4, AppendSorted DEF MppInv
<1>6. \A i \in DOMAIN frames' :
          frames'[i] = p \/ \E k \in DOMAIN frames : frames'[i] = frames[k]
  BY <1>2, AppendEntries
<1>7. \A i \in DOMAIN packets, j \in DOMAIN frames' : packets[i].pts < frames'[j].pts
  BY <1>4, <1>6 DEF MppInv
<1>8. outcome[p.pts] # "none"
  BY <1>1, Constants DEF WorkInv
<1>9. \A i \in DOMAIN frames' : outcome[frames'[i].pts] # "none"
  BY <1>6, <1>8 DEF MppInv
<1>10. QED
  BY <1>2, <1>5, <1>7, <1>9 DEF MppInv, Sorted

\* A packet is taken from the head.
LEMMA GetInOrder == ASSUME MppInv, ValuesInv, NEW t \in Thread, GetPacket(t), PlacesInv PROVE MppInv'
<1>1. /\ packets \in Seq(Packet) /\ packets # <<>> /\ packets' = Tail(packets)
      /\ UNCHANGED <<outcome, work, frames>>
      /\ pc'[Looper] \in BeforePut => pc[Looper] \in BeforePut
  BY Constants DEF GetPacket, ValuesInv, BeforePut, PlacesInv
<1>2. Sorted(packets')
  BY <1>1, TailSorted DEF MppInv
<1>3. \A i \in DOMAIN packets' : \E k \in DOMAIN packets : packets'[i] = packets[k]
  BY <1>1, TailEntries
<1>4. \A i \in DOMAIN packets', j \in DOMAIN frames : packets'[i].pts < frames[j].pts
  BY <1>3 DEF MppInv
<1>5. QED
  BY <1>1, <1>2, <1>3, <1>4 DEF MppInv, Sorted

\* A work that is given stays given, and only Begin gives one.
LEMMA OutcomesKeep ==
    ASSUME WorkInv, [Next]_vars
    PROVE  \A w \in Work : outcome'[w] = "none" => outcome[w] = "none"
<1>1. ASSUME NEW done, NEW failed, End(done, failed)
      PROVE  \A w \in Work : outcome'[w] = "none" => outcome[w] = "none"
  BY <1>1 DEF End, WorkInv
<1>2. CASE Begin
  BY <1>2 DEF Begin, WorkInv
<1>3. CASE ProcessNext
  BY <1>1, <1>3 DEF ProcessNext, Prepare, SendFrame, ClearSync, ForceIdr, PutFrame,
     CountInput, After,
                    Corrupted, HandleSync
<1>4. CASE Drain \/ Ask \/ MppEncode \/ UNCHANGED vars
  BY <1>4 DEF Drain, Ask, MppEncode, vars
<1>5. ASSUME NEW t \in Thread, PacketNext(t)
      PROVE  \A w \in Work : outcome'[w] = "none" => outcome[w] = "none"
  BY <1>1, <1>5 DEF PacketNext, GetPacket, GetFails, CountOutput, FinishWork, Nothing, EndDrain,
                    Pending, WorkInv
<1>6. ASSUME NEW t \in Stopper, Stop(t) \/ StopNext(t)
      PROVE  \A w \in Work : outcome'[w] = "none" => outcome[w] = "none"
  BY <1>6 DEF Stop, StopNext, StopClear, Release, Pending
<1>7. QED
  BY <1>2, <1>3, <1>4, <1>5, <1>6 DEF Next

\* A place before the put is reached from another, or with a new work.
LEMMA BeforePutKeeps ==
    ASSUME PlacesInv, [Next]_vars
    PROVE  \/ pc'[Looper] \notin BeforePut
           \/ pc[Looper] \in BeforePut /\ work' = work
           \/ Begin
<1>. USE Constants
<1>1. pc \in [Thread -> LooperPlace \cup StopPlace] /\ Looper \in Thread
  BY DEF PlacesInv
<1>2. CASE Prepare \/ SendFrame
  BY <1>1, <1>2 DEF Prepare, SendFrame, Corrupted, HandleSync, End, BeforePut
<1>3. CASE ClearSync \/ ForceIdr \/ PutFrame \/ CountInput
  BY <1>1, <1>3 DEF ClearSync, ForceIdr, PutFrame, CountInput, Corrupted, End, BeforePut
<1>4. CASE After \/ Drain
  BY <1>1, <1>4 DEF After, Drain, End, BeforePut
<1>5. CASE Ask \/ MppEncode \/ UNCHANGED vars
  BY <1>5 DEF Ask, MppEncode, vars
<1>6. ASSUME NEW t \in Thread, PacketNext(t)
      PROVE  pc'[Looper] \notin BeforePut \/ (pc[Looper] \in BeforePut /\ work' = work)
  <2>1. \/ UNCHANGED work
        \/ t = Looper
    BY <1>6 DEF PacketNext, GetPacket, GetFails, CountOutput, FinishWork, Nothing, EndDrain, HasWork
  <2>2. \E place \in Packets \cup {"idle", "clear", "after"} :
            Goto(t, place) /\ (place = "clear" => t # Looper)
    BY <1>6 DEF PacketNext, GetPacket, GetFails, CountOutput, FinishWork, Nothing, EndDrain,
                HasWork, End, Packets
  <2>3. CASE t = Looper
    BY <1>1, <2>2, <2>3 DEF Packets, BeforePut
  <2>4. CASE t # Looper
    BY <1>1, <2>1, <2>2, <2>4
  <2>5. QED
    BY <2>3, <2>4
<1>7. ASSUME NEW t \in Stopper, Stop(t) \/ StopNext(t)
      PROVE  pc'[Looper] = pc[Looper] /\ work' = work
  BY <1>1, <1>7 DEF Stop, StopNext, StopClear, Release
<1>8. QED
  BY <1>2, <1>3, <1>4, <1>5, <1>6, <1>7 DEF Next, ProcessNext

\* Only these change what MPP holds.
LEMMA MppChanges ==
    ASSUME [Next]_vars
    PROVE  \/ UNCHANGED <<frames, packets>>
           \/ MppEncode \/ PutFrame
           \/ \E t \in Thread : GetPacket(t)
           \/ \E t \in Stopper : Release(t)
           \/ frames' = <<>> /\ packets' = <<>>
  BY BeginTakes DEF Next, vars, ProcessNext, PacketNext, StopNext, ReleaseEncoder, Prepare, SendFrame, ClearSync,
     ForceIdr,
         CountInput, After, Drain, Ask, GetFails, CountOutput, FinishWork, Stop, StopClear

\* MPP's queues stay in order.
LEMMA MppStep ==
    ASSUME PlacesInv, ValuesInv, WorkInv, MppInv, [Next]_vars
    PROVE  MppInv'
<1>. USE Constants
<1>1. CASE UNCHANGED <<frames, packets>>
  <2>1. CASE Begin
    <3>1. outcome[work'] = "none" \/ pc'[Looper] = pc[Looper]
      BY <2>1, BeginTakes
    <3>2. work' = work \/ outcome[work'] = "none"
      BY <2>1, BeginTakes
    <3>3. pc[Looper] \notin BeforePut
      BY <2>1, BeginTakes DEF BeforePut
    <3>4. QED
      BY <1>1, <3>1, <3>2, <3>3, OutcomesKeep, MppStays
  <2>2. QED
    BY <1>1, <2>1, BeforePutKeeps, OutcomesKeep, MppStays
<1>2. CASE MppEncode
  BY <1>2, EncodeInOrder
<1>3. CASE PutFrame /\ ~UNCHANGED <<frames, packets>>
  <2>1. /\ pc[Looper] = "put" /\ UNCHANGED <<packets, outcome, work>> /\ Goto(Looper, "count")
        /\ frames' = Append(frames, [pts |-> work, eos |-> eos, data |-> input # "none"])
    BY <1>3 DEF PutFrame
  <2>2. work \in Work /\ pc'[Looper] = "count"
    BY <2>1, WorkThere DEF BeforePut, PlacesInv
  <2>3. QED
    BY <2>1, <2>2, PutInOrder
<1>4. ASSUME NEW t \in Thread, GetPacket(t) PROVE MppInv'
  BY <1>4, GetInOrder
<1>5. CASE frames' = <<>> /\ packets' = <<>>
  BY <1>5 DEF MppInv, Sorted
<1>6. ASSUME NEW t \in Stopper, Release(t) PROVE MppInv'
  BY <1>5, <1>6 DEF Release, ReleaseEncoder
<1>7. QED
  BY <1>1, <1>2, <1>3, <1>4, <1>5, <1>6, MppChanges

-----------------------------------------------------------------------------
(***************************************************************************)
(* The codec data come first.                                              *)
(***************************************************************************)

\* What is put, or was taken, came after the codec data.
LEMMA HeaderStep ==
    ASSUME PlacesInv, ValuesInv, WorkInv, HeaderInv, [Next]_vars
    PROVE  HeaderInv'
<1>. USE Constants
<1>1. pc \in [Thread -> LooperPlace \cup StopPlace] /\ Looper \in Thread
      /\ entry \in [Thread -> Packet \cup {NoPacket}]
  BY DEF PlacesInv
<1>2. CASE Prepare
  BY <1>1, <1>2 DEF Prepare, Corrupted, End, HeaderInv
<1>3. CASE SendFrame
  BY <1>1, <1>3 DEF SendFrame, Corrupted, HandleSync, End, HeaderInv
<1>4. CASE ClearSync \/ ForceIdr \/ CountInput
  BY <1>1, <1>4 DEF ClearSync, ForceIdr, CountInput, HeaderInv
<1>5. CASE PutFrame
  BY <1>1, <1>5 DEF PutFrame, Corrupted, End, HeaderInv
<1>6. CASE After
  BY <1>1, <1>6 DEF After, End, HeaderInv
<1>7. CASE Begin
  <2>1. pc'[Looper] \notin {"send", "clear", "force", "put", "count"} /\ UNCHANGED entry
    BY <1>1, <1>7, BeginTakes
  <2>2. CASE ReleaseEncoder /\ ~mStarted
    BY <2>1, <2>2 DEF ReleaseEncoder, HeaderInv
  <2>3. CASE /\ UNCHANGED <<frames, packets, mOutputEOS, mSpsPpsHeaderReceived>>
             /\ mStarted => UNCHANGED mStarted
    BY <2>1, <2>3 DEF HeaderInv
  <2>4. QED
    BY <1>7, <2>2, <2>3, BeginTakes
<1>8. CASE Drain \/ Ask \/ UNCHANGED vars
  BY <1>1, <1>8 DEF Drain, Ask, vars, HeaderInv
<1>9. CASE MppEncode
  BY <1>1, <1>9 DEF MppEncode, HeaderInv
<1>10. ASSUME NEW t \in Thread, PacketNext(t) PROVE HeaderInv'
  <2>1. UNCHANGED <<mStarted, mSpsPpsHeaderReceived>>
    BY <1>10 DEF PacketNext, GetPacket, GetFails, CountOutput, FinishWork
  <2>2. pc'[Looper] \in {"send", "clear", "force", "put", "count"} => pc'[Looper] = pc[Looper]
    <3>1. \E place \in Packets \cup {"idle", "clear", "after"} :
              Goto(t, place) /\ (place = "clear" => t # Looper)
      BY <1>10 DEF PacketNext, GetPacket, GetFails, CountOutput, FinishWork, Nothing, EndDrain,
                  HasWork, End, Packets
    <3>2. QED
      BY <1>1, <3>1 DEF Packets
  <2>3. CASE ~mSpsPpsHeaderReceived \/ ~mStarted
    <3>1. frames = <<>> /\ packets = <<>> /\ ~mOutputEOS /\ \A u \in Thread : entry[u] = NoPacket
      BY <2>3 DEF HeaderInv
    <3>2. pc[t] \notin {"got", "finish"}
      BY <3>1 DEF PlacesInv
    <3>3. GetFails(t)
      BY <1>10, <3>1, <3>2 DEF PacketNext, GetPacket, CountOutput, FinishWork
    <3>4. QED
      BY <2>1, <2>2, <2>3, <3>1, <3>3 DEF GetFails, HeaderInv
  <2>4. QED
    BY <2>1, <2>2, <2>3 DEF HeaderInv
<1>11. ASSUME NEW t \in Stopper, Stop(t) \/ StopClear(t) PROVE HeaderInv'
  BY <1>1, <1>11 DEF Stop, StopClear, HeaderInv
<1>12. ASSUME NEW t \in Stopper, Release(t) PROVE HeaderInv'
  <2>1. \A u \in Thread : entry[u] = NoPacket
    <3>1. \A u \in Thread : pc[u] \notin {"got", "finish"}
      BY <1>12 DEF Release, ReleaseEncoder, PlacesInv
    <3>2. QED
      BY <3>1 DEF PlacesInv
  <2>2. QED
    BY <1>1, <1>12, <2>1 DEF Release, ReleaseEncoder, HeaderInv
<1>13. QED
  BY <1>2, <1>3, <1>4, <1>5, <1>6, <1>7, <1>8, <1>9, <1>10, <1>11, <1>12
  DEF Next, ProcessNext, StopNext

-----------------------------------------------------------------------------
(***************************************************************************)
(* The end of stream.                                                      *)
(***************************************************************************)

\* The frames and packets of MPP, by what a property asks of each.
InMpp(p) == (\E i \in DOMAIN frames : frames[i] = p) \/ (\E i \in DOMAIN packets : packets[i] = p)

\* All that MPP holds is the work's or older.
LEMMA NotLater ==
    ASSUME ValuesInv, WorkInv, MppInv, work # NoWork, NEW p, InMpp(p)
    PROVE  p.pts \in Work /\ p.pts <= work
<1>1. p.pts \in Work /\ outcome[p.pts] # "none"
  BY EntryType DEF InMpp, MppInv, ValuesInv
<1>2. p.pts \in Nat /\ work \in Nat
  BY <1>1, Constants DEF WorkInv
<1>3. ~(p.pts > work)
  BY <1>1 DEF WorkInv
<1>4. QED
  BY <1>1, <1>2, <1>3

\* When the packet of the work is taken, MPP is left with nothing.
LEMMA LastTaken ==
    ASSUME ValuesInv, WorkInv, MppInv, work # NoWork, packets # <<>>, Head(packets).pts = work
    PROVE  frames = <<>> /\ Tail(packets) = <<>>
<1>1. packets \in Seq(Packet) /\ frames \in Seq(Packet)
  BY DEF ValuesInv
<1>2. /\ Head(packets) = packets[1] /\ 1 \in DOMAIN packets
      /\ \A i \in DOMAIN Tail(packets) :
            i + 1 \in DOMAIN packets /\ Tail(packets)[i] = packets[i + 1] /\ 1 < i + 1
  BY <1>1, TailEntries
<1>3. work \in Work /\ work \in Nat
  BY Constants DEF WorkInv
<1>4. \A p : InMpp(p) => p.pts \in Nat /\ p.pts <= work
  BY NotLater, Constants
<1>5. ASSUME frames # <<>> PROVE FALSE
  <2>1. 1 \in DOMAIN frames
    BY <1>1, <1>5
  <2>2. packets[1].pts < frames[1].pts
    BY <1>2, <2>1 DEF MppInv
  <2>3. frames[1].pts <= work /\ frames[1].pts \in Nat
    BY <1>4, <2>1 DEF InMpp
  <2>4. QED
    BY <1>2, <1>3, <2>2, <2>3
<1>6. ASSUME Tail(packets) # <<>> PROVE FALSE
  <2>1. 1 \in DOMAIN Tail(packets)
    BY <1>1, <1>6
  <2>2. 1 + 1 \in DOMAIN packets /\ 1 < 1 + 1
    BY <1>2, <2>1
  <2>3. packets[1].pts < packets[1 + 1].pts
    BY <1>2, <2>2 DEF MppInv, Sorted
  <2>4. packets[1 + 1].pts <= work /\ packets[1 + 1].pts \in Nat
    BY <1>4, <2>2 DEF InMpp
  <2>5. QED
    BY <1>2, <1>3, <2>3, <2>4
<1>7. QED
  BY <1>5, <1>6

\* A state without an end of stream between the client's input and its output.
Quiet == (\A p : InMpp(p) => ~p.eos) /\ ~entry[Looper].eos /\ ~mOutputEOS

\* process() has not put its frame, or there is no work.
LEMMA QuietBefore ==
    ASSUME PlacesInv, WorkInv, EosInv, Open, pc[Looper] \in BeforePut \/ work = NoWork
    PROVE  Quiet
<1>1. pc[Looper] \in BeforePut => pc[Looper] \notin Packets \cup {"count", "after"}
  BY DEF BeforePut, Packets
<1>2. \A p : InMpp(p) => ~p.eos
  BY <1>1 DEF EosInv, OfWork, InMpp
<1>3. ~entry[Looper].eos
  BY <1>1 DEF EosInv, OfWork
<1>4. ~mOutputEOS
  BY <1>1 DEF EosInv, Packets
<1>5. QED
  BY <1>2, <1>3, <1>4 DEF Quiet

\* Where all is quiet only the flag of the input matters.
LEMMA QuietEnough ==
    ASSUME (Open)' => (Quiet)', (work # NoWork /\ pc[Looper] # "prepare" => mSawInputEOS = eos)'
    PROVE  EosInv'
  BY DEF EosInv, OfWork, Quiet, InMpp

\* MPP is quiet still.
LEMMA QuietStays ==
    ASSUME Quiet, UNCHANGED <<frames, packets, mOutputEOS>>, entry'[Looper] \in {entry[Looper], NoPacket}
    PROVE  Quiet'
  BY Constants DEF Quiet, InMpp

\* process() returns.
LEMMA EndSets ==
    ASSUME PlacesInv, WorkInv, work # NoWork, NEW done, NEW failed, End(done, failed)
    PROVE  /\ work' = NoWork /\ pc'[Looper] = "idle" /\ \A t \in Stopper : pc'[t] = pc[t]
           /\ ended = NoWork /\ eos /\ done /\ ~failed => ended' = work
           /\ ~(ended = NoWork /\ eos /\ done /\ ~failed) => ended' = ended
  BY LastIsWork, Constants DEF End, PlacesInv

\* A thread inside stop() ends the quiet that the properties ask for.
LEMMA NotCalm ==
    ASSUME EosInv, NEW t \in Stopper, pc'[t] # "idle",
           UNCHANGED <<work, eos, mSawInputEOS>>, pc'[Looper] = pc[Looper]
    PROVE  EosInv' /\ CompleteInv'
  BY DEF EosInv, CompleteInv, Open, Calm

\* Counts that agree: no thread has a packet in hand, and MPP holds nothing.
LEMMA NothingHeld ==
    ASSUME CountsInv, ValuesInv, Drained, pc[Looper] # "count", \A t \in Thread : pc[t] # "got"
    PROVE  frames = <<>> /\ packets = <<>>
<1>1. Put = mInputCount /\ Taken = mInputCount /\ mInputCount \in Nat
  BY Constants DEF Put, Taken, One, Drained, CountsInv
<1>2. \A a, b, c \in Nat : a + b + c <= a => b = 0 /\ c = 0
  OBVIOUS
<1>3. Len(frames) \in Nat /\ Len(packets) \in Nat
  BY DEF ValuesInv
<1>4. mInputCount + Len(frames) + Len(packets) <= mInputCount
  BY <1>1 DEF CountsInv
<1>5. Len(frames) = 0 /\ Len(packets) = 0
  BY <1>1, <1>2, <1>3, <1>4, Zenon
<1>6. QED
  BY <1>5 DEF ValuesInv

\* The last work of the stream: at the end of process() without a drain, MPP
\* has given all.
LEMMA AfterIsComplete ==
    ASSUME PlacesInv, ValuesInv, WorkInv, CountsInv, EosInv, pc[Looper] = "after",
           ~(mSawInputEOS /\ ~mOutputEOS /\ ~Drained), eos, Open
    PROVE  frames = <<>> /\ packets = <<>> /\ (mOutputEOS => processed) /\ ~entry[Looper].eos
<1>1. mSawInputEOS /\ entry[Looper] = NoPacket
  <2>1. entry[Looper] = NoPacket
    BY Constants DEF PlacesInv
  <2>2. work # NoWork
    BY DEF WorkInv
  <2>3. mSawInputEOS = eos
    BY <2>2 DEF EosInv
  <2>4. QED
    BY <2>1, <2>3
<1>2. CASE mOutputEOS
  BY <1>1, <1>2, Constants DEF EosInv
<1>3. CASE Drained /\ ~mOutputEOS
  <2>1. \A t \in Thread : pc[t] # "got"
    BY Constants DEF Open, Calm
  <2>2. QED
    BY <1>1, <1>3, <2>1, NothingHeld, Constants
<1>4. QED
  BY <1>1, <1>2, <1>3

\* process() gives the end of stream away, or keeps none.
LEMMA EndIsQuiet ==
    ASSUME PlacesInv, WorkInv, EosInv, work # NoWork, NEW done, NEW failed, End(done, failed),
           UNCHANGED <<frames, packets>>, entry'[Looper] \in {entry[Looper], NoPacket},
           (Open)' => Open /\ (eos => Quiet /\ ~mOutputEOS') /\ (~eos => ~mOutputEOS')
    PROVE  EosInv'
<1>1. work' = NoWork
  BY EndSets
<1>2. ASSUME Open' PROVE Quiet'
  <2>1. Open /\ (eos => Quiet) /\ ~mOutputEOS'
    BY <1>2
  <2>2. (\A p : InMpp(p) => ~p.eos) /\ ~entry[Looper].eos
    <3>1. CASE eos
      BY <2>1, <3>1 DEF Quiet
    <3>2. CASE ~eos
      BY <2>1, <3>2 DEF EosInv, OfWork, InMpp
    <3>3. QED
      BY <3>1, <3>2
  <2>3. QED
    BY <2>1, <2>2, Constants DEF Quiet, InMpp
<1>3. QED
  BY <1>1, <1>2, QuietEnough

\* The steps of process() before its put, and after.
LEMMA ProcessEos ==
    ASSUME PlacesInv, PlacesInv', ValuesInv, WorkInv, CountsInv, HeaderInv, EosInv, ProcessNext
    PROVE  EosInv'
<1>. USE Constants
<1>1. pc \in [Thread -> LooperPlace \cup StopPlace] /\ Looper \in Thread /\ work # NoWork
  <2>1. pc[Looper] \in BeforePut \cup {"count", "after"}
    BY DEF ProcessNext, Prepare, SendFrame, ClearSync, ForceIdr, PutFrame, CountInput, After,
       BeforePut
  <2>2. QED
    BY <2>1 DEF PlacesInv, WorkInv
<1>2. CASE pc[Looper] \in {"prepare", "send", "clear", "force"}
  <2>1. UNCHANGED <<frames, packets, mOutputEOS, entry>> /\ pc[Looper] \in BeforePut
    BY <1>2 DEF ProcessNext, Prepare, SendFrame, ClearSync, ForceIdr, PutFrame, CountInput,
       After, BeforePut
  <2>2. Open' => Open
    <3>1. \A t \in Stopper : pc'[t] = pc[t]
      BY <1>1, <1>2 DEF ProcessNext, Prepare, SendFrame, ClearSync, ForceIdr, PutFrame, CountInput,
                   After, Corrupted, HandleSync, End
    <3>2. ended' = NoWork => ended = NoWork
      BY <1>2, <1>1, LastIsWork
      DEF ProcessNext, Prepare, SendFrame, ClearSync, ForceIdr, PutFrame, CountInput, After,
          Corrupted, HandleSync, End
    <3>3. mSignalledError => mSignalledError'
      BY <1>2
      DEF ProcessNext, Prepare, SendFrame, ClearSync, ForceIdr, PutFrame, CountInput, After,
          Corrupted, HandleSync
    <3>4. QED
      BY <3>1, <3>2, <3>3 DEF Open, Calm
  <2>3. Open' => Quiet'
    BY <2>1, <2>2, QuietBefore, QuietStays
  <2>4. work' # NoWork /\ pc'[Looper] # "prepare" => mSawInputEOS' = eos'
    <3>1. CASE work' = NoWork
      BY <3>1
    <3>2. CASE Prepare /\ work' # NoWork
      BY <3>2 DEF Prepare, Corrupted, End
    <3>3. CASE (SendFrame \/ ClearSync \/ ForceIdr) /\ work' # NoWork
      <4>1. UNCHANGED <<mSawInputEOS, eos>> /\ pc[Looper] # "prepare"
        BY <3>3 DEF SendFrame, ClearSync, ForceIdr, Corrupted, HandleSync, End
      <4>2. QED
        BY <1>1, <4>1 DEF EosInv
    <3>4. QED
      BY <1>2, <3>1, <3>2, <3>3 DEF ProcessNext, PutFrame, CountInput, After
  <2>5. QED
    BY <2>3, <2>4, QuietEnough
<1>3. CASE PutFrame
  <2>1. CASE Corrupted
    <3>1. work' = NoWork /\ mSignalledError'
      BY <2>1 DEF Corrupted, End
    <3>2. QED
      BY <3>1, QuietEnough DEF Open
  <2>2. CASE ~Corrupted
    <3>. DEFINE p == [pts |-> work, eos |-> eos, data |-> input # "none"]
    <3>1. /\ frames' = Append(frames, p) /\ pc' = [pc EXCEPT ![Looper] = "count"]
          /\ UNCHANGED <<packets, entry, mOutputEOS, mSawInputEOS, eos, work, ended, mSignalledError>>
          /\ pc[Looper] = "put"
      BY <1>3, <2>2 DEF PutFrame
    <3>2. p.pts = work /\ p.eos = eos
      OBVIOUS
    <3>. HIDE DEF p
    <3>3. Open' => Open
      BY <1>1, <3>1 DEF Open, Calm
    <3>4. \A i \in DOMAIN frames' : frames'[i] = p \/ \E k \in DOMAIN frames : frames'[i] = frames[k]
      BY <3>1, AppendEntries DEF ValuesInv
    <3>5. pc'[Looper] = "count" /\ mSawInputEOS = eos
      BY <1>1, <3>1 DEF EosInv
    <3>6. Open => Quiet
      BY <3>1, QuietBefore DEF BeforePut
    <3>7. Open' => (\A i \in DOMAIN frames : OfWork(frames[i]))'
      BY <1>1, <3>1, <3>2, <3>3, <3>4, <3>5, <3>6 DEF OfWork, Quiet, InMpp
    <3>8. Open' => (\A i \in DOMAIN packets : OfWork(packets[i]))'
      BY <3>1, <3>3, <3>6 DEF OfWork, Quiet, InMpp
    <3>9. QED
      BY <3>1, <3>3, <3>5, <3>6, <3>7, <3>8 DEF EosInv, OfWork, Quiet
  <2>3. QED
    BY <2>1, <2>2
<1>4. CASE CountInput
  <2>1. /\ pc' = [pc EXCEPT ![Looper] = "get"] /\ pc[Looper] = "count"
        /\ UNCHANGED <<frames, packets, entry, mOutputEOS, mSawInputEOS, eos, work, ended,
                       mSignalledError>>
    BY <1>4 DEF CountInput
  <2>2. Open' => Open /\ ~mOutputEOS
    BY <1>1, <2>1 DEF Open, Calm, EosInv
  <2>3. pc'[Looper] = "get"
    BY <1>1, <2>1
  <2>4. QED
    BY <2>1, <2>2, <2>3 DEF EosInv, OfWork, Packets
<1>5. CASE After
  <2>1. CASE mSawInputEOS /\ ~mOutputEOS /\ ~Drained
    <3>1. /\ pc' = [pc EXCEPT ![Looper] = "get"] /\ pc[Looper] = "after" /\ ~mOutputEOS
          /\ UNCHANGED <<frames, packets, entry, mOutputEOS, mSawInputEOS, eos, work, ended,
                         mSignalledError>>
      BY <1>5, <2>1 DEF After
    <3>2. Open' => Open
      BY <1>1, <3>1 DEF Open, Calm
    <3>3. pc'[Looper] = "get"
      BY <1>1, <3>1
    <3>4. QED
      BY <3>1, <3>2, <3>3 DEF EosInv, OfWork, Packets
  <2>2. CASE ~(mSawInputEOS /\ ~mOutputEOS /\ ~Drained)
    <3>. DEFINE done == processed \/ (~mSawInputEOS /\ input = "none")
    <3>1. /\ End(done, mSignalledError) /\ pc[Looper] = "after"
          /\ UNCHANGED <<frames, packets, entry, mOutputEOS, mSignalledError>>
      BY <1>5, <2>2 DEF After
    <3>2. processed => done
      OBVIOUS
    <3>. HIDE DEF done
    <3>3. /\ \A t \in Stopper : pc'[t] = pc[t]
          /\ ended = NoWork /\ eos /\ done /\ ~mSignalledError => ended' = work
          /\ ~(ended = NoWork /\ eos /\ done /\ ~mSignalledError) => ended' = ended
      BY <1>1, <3>1, EndSets
    <3>4. ASSUME Open'
          PROVE  Open /\ (eos => Quiet) /\ ~mOutputEOS
      <4>1. Open /\ ~(eos /\ done)
        BY <1>1, <3>1, <3>3, <3>4 DEF Open, Calm
      <4>2. CASE eos
        <5>1. frames = <<>> /\ packets = <<>> /\ ~mOutputEOS /\ ~entry[Looper].eos
          BY <2>2, <3>1, <3>2, <4>1, <4>2, AfterIsComplete
        <5>2. QED
          BY <4>1, <5>1 DEF Quiet, InMpp
      <4>3. CASE ~eos
        BY <4>1, <4>3 DEF EosInv
      <4>4. QED
        BY <4>1, <4>2, <4>3
    <3>5. QED
      BY <1>1, <3>1, <3>4, EndIsQuiet
  <2>3. QED
    BY <2>1, <2>2
<1>6. QED
  BY <1>2, <1>3, <1>4, <1>5 DEF ProcessNext, Prepare, SendFrame, ClearSync, ForceIdr

\* Nothing changes that EosInv speaks of.
LEMMA EosSame ==
    ASSUME EosInv, UNCHANGED <<frames, packets, mOutputEOS, mSawInputEOS, eos, work>>,
           entry'[Looper] = entry[Looper], pc'[Looper] = pc[Looper],
           draining'[Looper] = draining[Looper], processed' = processed, Open' => Open
    PROVE  EosInv'
  BY DEF EosInv, OfWork

\* The packets MPP makes are of its frames.
LEMMA EncodeEos == ASSUME PlacesInv, ValuesInv, EosInv, MppEncode PROVE EosInv'
<1>1. PICK data \in {Head(frames).data, FALSE} :
          packets' = Append(packets, [Head(frames) EXCEPT !.data = data])
  BY DEF MppEncode
<1>. DEFINE p == [Head(frames) EXCEPT !.data = data]
<1>2. /\ frames \in Seq(Packet) /\ packets \in Seq(Packet) /\ frames # <<>>
      /\ frames' = Tail(frames)
      /\ UNCHANGED <<pc, entry, mOutputEOS, mSawInputEOS, eos, work, ended, mSignalledError>>
  BY DEF MppEncode, ValuesInv
<1>3. Head(frames) \in Packet
  BY <1>2, HeadTail
<1>4. p.pts = Head(frames).pts /\ p.eos = Head(frames).eos /\ packets' = Append(packets, p)
  BY <1>1, <1>3 DEF Packet
<1>. HIDE DEF p
<1>5. Head(frames) = frames[1] /\ 1 \in DOMAIN frames
  BY <1>2, TailEntries
<1>6. \A j \in DOMAIN frames' : \E k \in DOMAIN frames : frames'[j] = frames[k]
  BY <1>2, TailEntries
<1>7. \A i \in DOMAIN packets' :
          packets'[i] = p \/ \E k \in DOMAIN packets : packets'[i] = packets[k]
  BY <1>2, <1>4, AppendEntries
<1>8. Open' => Open
  BY <1>2 DEF Open, Calm
<1>9. Open => OfWork(p)
  BY <1>4, <1>5 DEF EosInv, OfWork
<1>10. Open' => (\A i \in DOMAIN frames : OfWork(frames[i]))'
  BY <1>2, <1>6, <1>8 DEF EosInv, OfWork
<1>11. Open' => (\A i \in DOMAIN packets : OfWork(packets[i]))'
  <2>1. Open => \A i \in DOMAIN packets : OfWork(packets[i])
    BY DEF EosInv
  <2>2. Open => \A i \in DOMAIN packets' : OfWork(packets'[i])
    BY <1>7, <1>9, <2>1
  <2>3. QED
    BY <1>2, <1>8, <2>2 DEF OfWork
<1>12. Open => ~mOutputEOS /\ ~entry[Looper].eos
  BY <1>2 DEF EosInv
<1>13. QED
  BY <1>2, <1>8, <1>10, <1>11, <1>12 DEF EosInv, OfWork

\* The looper takes a packet.
LEMMA GetEos ==
    ASSUME PlacesInv, ValuesInv, WorkInv, MppInv, EosInv, GetPacket(Looper)
    PROVE  EosInv'
<1>. USE Constants
<1>1. /\ pc[Looper] = "get" /\ packets # <<>> /\ packets' = Tail(packets)
      /\ pc' = [pc EXCEPT ![Looper] = "got"] /\ entry' = [entry EXCEPT ![Looper] = Head(packets)]
      /\ UNCHANGED <<frames, mOutputEOS, mSawInputEOS, eos, work, ended, mSignalledError>>
      /\ packets \in Seq(Packet)
  BY DEF GetPacket, ValuesInv
<1>2. pc'[Looper] = "got" /\ entry'[Looper] = Head(packets) /\ \A t \in Stopper : pc'[t] = pc[t]
  BY <1>1 DEF PlacesInv
<1>3. Open' => Open
  BY <1>1, <1>2 DEF Open, Calm
<1>4. Head(packets) = packets[1] /\ 1 \in DOMAIN packets
  BY <1>1, TailEntries
<1>5. \A i \in DOMAIN packets' : \E k \in DOMAIN packets : packets'[i] = packets[k]
  BY <1>1, TailEntries
<1>6. Open => ~mOutputEOS /\ OfWork(Head(packets))
  BY <1>1, <1>4 DEF EosInv
<1>7. Open /\ Head(packets).eos => frames = <<>> /\ Tail(packets) = <<>>
  BY <1>1, <1>6, LastTaken DEF OfWork
<1>8. Open => /\ \A i \in DOMAIN frames : OfWork(frames[i])
              /\ \A i \in DOMAIN packets' : OfWork(packets'[i])
  BY <1>5 DEF EosInv
<1>9. ASSUME NEW p, OfWork(p)
      PROVE  p.eos => p.pts = work' /\ work' # NoWork /\ eos'
                        /\ pc'[Looper] \in Packets \cup {"count", "after"}
  BY <1>1, <1>2, <1>9 DEF OfWork, Packets
<1>10. Open' => /\ (\A i \in DOMAIN frames : OfWork(frames[i]))'
                /\ (\A i \in DOMAIN packets : OfWork(packets[i]))'
                /\ OfWork(entry[Looper])'
  BY <1>1, <1>2, <1>3, <1>6, <1>8, <1>9 DEF OfWork
<1>11. Open' /\ entry'[Looper].eos => frames' = <<>> /\ packets' = <<>>
  BY <1>1, <1>2, <1>3, <1>7
<1>12. work' # NoWork /\ pc'[Looper] # "prepare" => mSawInputEOS' = eos'
  BY <1>1 DEF EosInv
<1>13. Open' => ~mOutputEOS'
  BY <1>1, <1>3, <1>6
<1>14. QED
  BY <1>10, <1>11, <1>12, <1>13 DEF EosInv

\* getoutpacket() gives nothing to the looper.
LEMMA NothingEos ==
    ASSUME PlacesInv, WorkInv, EosInv, pc[Looper] \in {"get", "got"}, Nothing(Looper),
           UNCHANGED <<frames, packets, mSawInputEOS, mSignalledError>>,
           entry' = [entry EXCEPT ![Looper] = NoPacket],
           mOutputEOS' = (mOutputEOS \/ entry[Looper].eos)
    PROVE  EosInv'
<1>. USE Constants
<1>1. /\ entry'[Looper] = NoPacket /\ pc \in [Thread -> LooperPlace \cup StopPlace]
      /\ draining \in [Thread -> BOOLEAN]
  BY DEF PlacesInv
<1>2. CASE draining[Looper]
  <2>1. CASE work # NoWork
    <3>1. End(TRUE, mSignalledError)
      BY <1>2, <2>1 DEF Nothing, EndDrain, HasWork
    <3>2. /\ \A t \in Stopper : pc'[t] = pc[t]
          /\ ended = NoWork /\ eos /\ ~mSignalledError => ended' = work
          /\ ~(ended = NoWork /\ eos /\ ~mSignalledError) => ended' = ended
      BY <2>1, <3>1, LastIsWork DEF End, PlacesInv
    <3>3. ASSUME Open' PROVE Open /\ ~eos
      BY <2>1, <3>2, <3>3 DEF Open, Calm
    <3>4. ASSUME Open' PROVE ~mOutputEOS'
      BY <3>3, <3>4 DEF EosInv, OfWork
    <3>5. QED
      BY <1>1, <2>1, <3>1, <3>3, <3>4, EndIsQuiet
  <2>2. CASE work = NoWork
    <3>1. /\ UNCHANGED <<outcome, ended, work>> /\ Goto(Looper, "idle")
      BY <1>2, <2>2 DEF Nothing, EndDrain, HasWork
    <3>2. Open' => Open
      BY <1>1, <3>1 DEF Open, Calm
    <3>3. Open => Quiet
      BY <2>2, QuietBefore
    <3>4. Open' => Quiet'
      BY <1>1, <3>2, <3>3 DEF Quiet, InMpp
    <3>5. QED
      BY <2>2, <3>1, <3>4, QuietEnough
  <2>3. QED
    BY <2>1, <2>2
<1>3. CASE ~draining[Looper]
  <2>1. /\ processed' = TRUE /\ Goto(Looper, "after") /\ UNCHANGED <<ended, work, eos>>
    BY <1>3 DEF Nothing
  <2>2. pc'[Looper] = "after" /\ \A t \in Stopper : pc'[t] = pc[t]
    BY <1>1, <2>1
  <2>3. Open' => Open
    BY <2>1, <2>2 DEF Open, Calm
  <2>4. Open => ~mOutputEOS
    BY <1>3 DEF EosInv
  <2>5. Open /\ entry[Looper].eos => work # NoWork /\ eos /\ frames = <<>> /\ packets = <<>>
    BY DEF EosInv, OfWork
  <2>6. Open' => /\ (\A i \in DOMAIN frames : OfWork(frames[i]))'
                 /\ (\A i \in DOMAIN packets : OfWork(packets[i]))'
    BY <2>1, <2>2, <2>3 DEF EosInv, OfWork
  <2>7. work' # NoWork /\ pc'[Looper] # "prepare" => mSawInputEOS' = eos'
    BY <2>1 DEF EosInv
  <2>8. Open' /\ mOutputEOS' => work' # NoWork /\ eos' /\ frames' = <<>> /\ packets' = <<>>
    BY <2>1, <2>3, <2>4, <2>5
  <2>9. ~entry'[Looper].eos
    BY <1>1
  <2>10. QED
    BY <2>1, <2>2, <2>6, <2>7, <2>8, <2>9 DEF EosInv, OfWork
<1>4. QED
  BY <1>1, <1>2, <1>3

\* The looper counts a packet with data.
LEMMA CountEos ==
    ASSUME PlacesInv, WorkInv, EosInv, CountOutput(Looper), ~Empty(entry[Looper])
    PROVE  EosInv'
<1>. USE Constants
<1>1. /\ pc[Looper] = "got" /\ mOutputEOS' = (mOutputEOS \/ entry[Looper].eos)
      /\ Goto(Looper, "finish")
      /\ UNCHANGED <<frames, packets, entry, mSawInputEOS, eos, work, ended, mSignalledError>>
  BY DEF CountOutput
<1>2. pc'[Looper] = "finish" /\ \A t \in Stopper : pc'[t] = pc[t]
  BY <1>1 DEF PlacesInv
<1>3. Open' => Open
  BY <1>1, <1>2 DEF Open, Calm
<1>4. Open => ~mOutputEOS
  BY <1>1 DEF EosInv
<1>5. Open /\ entry[Looper].eos =>
          entry[Looper].pts = work /\ work # NoWork /\ eos /\ frames = <<>> /\ packets = <<>>
  BY DEF EosInv, OfWork
<1>6. Open' => /\ (\A i \in DOMAIN frames : OfWork(frames[i]))'
               /\ (\A i \in DOMAIN packets : OfWork(packets[i]))'
               /\ OfWork(entry[Looper])'
  BY <1>1, <1>2, <1>3 DEF EosInv, OfWork, Packets
<1>7. work' # NoWork /\ pc'[Looper] # "prepare" => mSawInputEOS' = eos'
  BY <1>1 DEF EosInv
<1>8. Open' /\ mOutputEOS' =>
          work' # NoWork /\ eos' /\ frames' = <<>> /\ packets' = <<>> /\ entry'[Looper].pts = work'
  BY <1>1, <1>3, <1>4, <1>5
<1>9. Open' /\ entry'[Looper].eos => frames' = <<>> /\ packets' = <<>>
  BY <1>1, <1>3, <1>5
<1>10. QED
  BY <1>2, <1>6, <1>7, <1>8, <1>9 DEF EosInv

\* The looper finishes with a packet.
LEMMA FinishEos ==
    ASSUME PlacesInv, WorkInv, EosInv, FinishWork(Looper)
    PROVE  EosInv'
<1>. USE Constants
<1>1. /\ pc[Looper] = "finish" /\ entry' = [entry EXCEPT ![Looper] = NoPacket]
      /\ Goto(Looper, IF draining[Looper] THEN "get" ELSE "after")
      /\ UNCHANGED <<frames, packets, mOutputEOS, mSawInputEOS, eos, work, ended, draining>>
  BY DEF FinishWork, Pending, Flags
<1>2. /\ pc'[Looper] = (IF draining[Looper] THEN "get" ELSE "after")
      /\ \A t \in Stopper : pc'[t] = pc[t]
      /\ entry'[Looper] = NoPacket
  BY <1>1 DEF PlacesInv
<1>3. Open' => Open
  BY <1>1, <1>2 DEF Open, Calm, FinishWork
<1>4. Open' /\ mOutputEOS => processed'
  <2>1. Open /\ mOutputEOS => entry[Looper].pts = work /\ work # NoWork
    BY <1>1 DEF EosInv
  <2>2. Open' => (processed' = (processed \/ (HasWork(Looper) /\ entry[Looper].pts = work)))
    BY DEF FinishWork, Open
  <2>3. QED
    BY <1>3, <2>1, <2>2 DEF HasWork
<1>5. Open' => /\ (\A i \in DOMAIN frames : OfWork(frames[i]))'
               /\ (\A i \in DOMAIN packets : OfWork(packets[i]))'
  BY <1>1, <1>2, <1>3 DEF EosInv, OfWork, Packets
<1>6. work' # NoWork /\ pc'[Looper] # "prepare" => mSawInputEOS' = eos'
  BY <1>1 DEF EosInv
<1>7. Open' /\ mOutputEOS' => /\ work' # NoWork /\ eos' /\ frames' = <<>> /\ packets' = <<>>
                              /\ pc'[Looper] \in {"get", "after"}
                              /\ pc'[Looper] = "get" => draining'[Looper]
  BY <1>1, <1>2, <1>3 DEF EosInv
<1>8. ~entry'[Looper].eos
  BY <1>2
<1>9. QED
  BY <1>1, <1>4, <1>5, <1>6, <1>7, <1>8 DEF EosInv, OfWork

\* A thread inside stop() is never idle after a step of its drain.
LEMMA StopperGoes ==
    ASSUME PlacesInv, NEW t \in Stopper,
           PacketNext(t) \/ Stop(t) \/ StopClear(t)
    PROVE  /\ pc'[t] # "idle" /\ pc'[Looper] = pc[Looper] /\ UNCHANGED <<work, eos, mSawInputEOS>>
<1>. USE Constants
<1>1. \E place \in StopPlace \ {"idle"} : Goto(t, place)
  BY DEF PlacesInv, StopPlace, PacketNext, GetPacket, GetFails, CountOutput, FinishWork,
     Nothing, EndDrain,
         HasWork, Stop, StopClear, Packets
<1>2. UNCHANGED <<work, eos, mSawInputEOS>>
  BY DEF PlacesInv, PacketNext, GetPacket, GetFails, CountOutput, FinishWork, Nothing, EndDrain,
         HasWork, Stop, StopClear, Packets
<1>3. QED
  BY <1>1, <1>2 DEF PlacesInv

\* No end of stream is behind the last one, or given before its time.
LEMMA EosStep ==
    ASSUME PlacesInv, PlacesInv', ValuesInv, WorkInv, CountsInv, MppInv, HeaderInv, EosInv, [Next]_vars
    PROVE  EosInv'
<1>. USE Constants
<1>1. CASE ProcessNext
  BY <1>1, ProcessEos
<1>2. CASE Begin \/ Drain
  <2>1. /\ pc[Looper] = "idle" /\ \A t \in Stopper : pc'[t] = pc[t]
        /\ UNCHANGED entry
    BY <1>2, BeginTakes DEF Drain, PlacesInv
  <2>2. work' # NoWork => pc'[Looper] = "prepare"
    BY <1>2, <2>1, BeginTakes DEF Drain, WorkInv, PlacesInv
  <2>3. CASE UNCHANGED <<frames, packets, mOutputEOS, ended, mSignalledError>>
    <3>1. Open' => Open
      BY <2>1, <2>3 DEF Open, Calm
    <3>2. Open' => Quiet'
      BY <2>1, <2>3, <3>1, QuietBefore, QuietStays DEF WorkInv
    <3>3. QED
      BY <2>2, <3>2, QuietEnough
  <2>4. CASE ReleaseEncoder
    <3>1. entry[Looper] = NoPacket
      BY <2>1 DEF PlacesInv
    <3>2. Quiet'
      BY <2>1, <2>4, <3>1 DEF ReleaseEncoder, Quiet, InMpp
    <3>3. QED
      BY <2>2, <3>2, QuietEnough
  <2>5. QED
    BY <1>2, <2>3, <2>4, BeginTakes DEF Drain
<1>3. CASE Ask \/ UNCHANGED vars
  <2>1. UNCHANGED <<frames, packets, mOutputEOS, mSawInputEOS, eos, work, entry, pc, draining, processed,
                    ended, mSignalledError>>
    BY <1>3 DEF Ask, vars
  <2>2. Open' => Open
    BY <2>1 DEF Open, Calm
  <2>3. QED
    BY <2>1, <2>2, EosSame
<1>4. CASE MppEncode
  BY <1>4, EncodeEos
<1>5. CASE PacketNext(Looper)
  <2>1. CASE GetFails(Looper)
    <3>1. entry' = [entry EXCEPT ![Looper] = NoPacket] /\ ~entry[Looper].eos
      BY <2>1 DEF GetFails, PlacesInv
    <3>2. mOutputEOS' = (mOutputEOS \/ entry[Looper].eos)
      <4>1. mOutputEOS' = mOutputEOS /\ mOutputEOS \in BOOLEAN
        BY <2>1 DEF GetFails, ValuesInv
      <4>2. QED
        BY <3>1, <4>1
    <3>3. QED
      BY <2>1, <3>1, <3>2, NothingEos DEF GetFails
  <2>2. CASE CountOutput(Looper) /\ Empty(entry[Looper])
    BY <2>2, NothingEos DEF CountOutput
  <2>3. QED
    BY <1>5, <2>1, <2>2, GetEos, CountEos, FinishEos DEF PacketNext
<1>6. ASSUME NEW t \in Stopper, PacketNext(t) \/ Stop(t) \/ StopClear(t) PROVE EosInv'
  BY <1>6, StopperGoes, NotCalm
<1>7. ASSUME NEW t \in Stopper, Release(t) PROVE EosInv'
  <2>1. /\ frames' = <<>> /\ packets' = <<>> /\ mOutputEOS' = FALSE /\ UNCHANGED <<entry, work>>
        /\ pc[Looper] = "idle"
    BY <1>7 DEF Release, ReleaseEncoder
  <2>2. entry[Looper] = NoPacket /\ work = NoWork
    BY <2>1 DEF PlacesInv, WorkInv
  <2>3. Quiet'
    BY <2>1, <2>2 DEF Quiet, InMpp
  <2>4. QED
    BY <2>1, <2>2, <2>3, QuietEnough
<1>8. QED
  BY <1>1, <1>2, <1>3, <1>4, <1>5, <1>6, <1>7 DEF Next, StopNext

\* Nothing changes that CompleteInv speaks of.
LEMMA CompleteStays ==
    ASSUME CompleteInv, UNCHANGED <<frames, packets, ended>>, cut => cut', Calm' => Calm
    PROVE  CompleteInv'
  BY DEF CompleteInv

\* MPP holds nothing.
LEMMA CompleteEmpty == ASSUME frames' = <<>>, packets' = <<>> PROVE CompleteInv'
  BY DEF CompleteInv

\* process() goes on with a work behind the last one, or ends.
LEMMA ProcessComplete ==
    ASSUME PlacesInv, ValuesInv, WorkInv, EndedInv, CountsInv, HeaderInv, EosInv, CompleteInv,
           ProcessNext
    PROVE  CompleteInv'
<1>. USE Constants
<1>1. /\ pc \in [Thread -> LooperPlace \cup StopPlace] /\ Looper \in Thread /\ work # NoWork
      /\ UNCHANGED <<packets, cut>>
  <2>1. pc[Looper] \in BeforePut \cup {"count", "after"}
    BY DEF ProcessNext, Prepare, SendFrame, ClearSync, ForceIdr, PutFrame, CountInput, After,
       BeforePut
  <2>2. UNCHANGED <<packets, cut>>
    BY DEF ProcessNext, Prepare, SendFrame, ClearSync, ForceIdr, PutFrame, CountInput, After
  <2>3. QED
    BY <2>1, <2>2 DEF PlacesInv, WorkInv
<1>2. Calm' <=> Calm
  <2>1. \A t \in Stopper : pc'[t] = pc[t]
    <3>1. \E place : Goto(Looper, place)
      BY DEF ProcessNext, Prepare, SendFrame, ClearSync, ForceIdr, PutFrame, CountInput, After,
             Corrupted, HandleSync, End
    <3>2. QED
      BY <1>1, <3>1
  <2>2. QED
    BY <2>1 DEF Calm
<1>3. ASSUME NEW failed, End(TRUE, failed), failed PROVE ended' = ended
  BY <1>3 DEF End
<1>4. CASE Prepare
  <2>1. CASE ~mSpsPpsHeaderReceived
    <3>1. frames' = <<>> /\ packets' = <<>>
      BY <1>4, <2>1 DEF Prepare, HeaderInv
    <3>2. QED
      BY <3>1, CompleteEmpty
  <2>2. CASE mSpsPpsHeaderReceived
    <3>1. UNCHANGED <<frames, ended>>
      BY <1>3, <1>4, <2>2 DEF Prepare, Corrupted
    <3>2. QED
      BY <1>1, <1>2, <3>1, CompleteStays
  <2>3. QED
    BY <2>1, <2>2
<1>5. CASE SendFrame \/ ClearSync \/ ForceIdr \/ CountInput
  <2>1. UNCHANGED <<frames, ended>>
    BY <1>3, <1>5 DEF SendFrame, Corrupted, HandleSync, ClearSync, ForceIdr, CountInput
  <2>2. QED
    BY <1>1, <1>2, <2>1, CompleteStays
<1>6. CASE PutFrame
  <2>1. CASE UNCHANGED frames
    <3>1. ended' = ended
      BY <1>3, <1>6 DEF PutFrame, Corrupted
    <3>2. QED
      BY <1>1, <1>2, <2>1, <3>1, CompleteStays
  <2>2. CASE frames' # frames
    <3>. DEFINE p == [pts |-> work, eos |-> eos, data |-> input # "none"]
    <3>1. frames' = Append(frames, p) /\ ended' = ended /\ p.pts = work
      BY <1>6, <2>2 DEF PutFrame
    <3>. HIDE DEF p
    <3>2. \A i \in DOMAIN frames' : frames'[i] = p \/ \E k \in DOMAIN frames : frames'[i] = frames[k]
      BY <3>1, AppendEntries DEF ValuesInv
    <3>3. ended # NoWork => work > ended
      BY <1>1 DEF EndedInv, WorkInv
    <3>4. QED
      BY <1>1, <1>2, <3>1, <3>2, <3>3 DEF CompleteInv
  <2>3. QED
    BY <2>1, <2>2
<1>7. CASE After
  <2>1. UNCHANGED frames /\ pc[Looper] = "after"
    BY <1>7 DEF After
  <2>2. CASE ended' = ended
    BY <1>1, <1>2, <2>1, <2>2, CompleteStays
  <2>3. CASE ended' # ended
    <3>1. /\ ~(mSawInputEOS /\ ~mOutputEOS /\ ~Drained)
          /\ ended = NoWork /\ eos /\ ~mSignalledError
      BY <1>7, <2>3 DEF After, End
    <3>2. CASE Calm
      <4>1. frames = <<>> /\ packets = <<>>
        BY <2>1, <3>1, <3>2, AfterIsComplete DEF Open
      <4>2. QED
        BY <1>1, <2>1, <4>1, CompleteEmpty
    <3>3. CASE ~Calm
      BY <1>2, <3>3 DEF CompleteInv
    <3>4. QED
      BY <3>2, <3>3
  <2>4. QED
    BY <2>2, <2>3
<1>8. QED
  BY <1>4, <1>5, <1>6, <1>7 DEF ProcessNext

\* The looper takes packets: the last work returns when MPP has given its end of
\* stream, or the drain was cut.
LEMMA PacketComplete ==
    ASSUME PlacesInv, ValuesInv, WorkInv, EosInv, CompleteInv, PacketNext(Looper)
    PROVE  CompleteInv'
<1>. USE Constants
<1>1. /\ pc \in [Thread -> LooperPlace \cup StopPlace] /\ Looper \in Thread
      /\ \E place : Goto(Looper, place)
  BY DEF PlacesInv, PacketNext, GetPacket, GetFails, CountOutput, FinishWork, Nothing,
     EndDrain, HasWork, End
<1>2. Calm' <=> Calm
  BY <1>1 DEF Calm
<1>3. CASE GetPacket(Looper)
  <2>1. \A i \in DOMAIN packets' : \E k \in DOMAIN packets : packets'[i] = packets[k]
    BY <1>3, TailEntries DEF GetPacket, ValuesInv
  <2>2. UNCHANGED <<frames, ended, cut>>
    BY <1>3 DEF GetPacket
  <2>3. QED
    BY <1>2, <2>1, <2>2 DEF CompleteInv
<1>4. CASE /\ Nothing(Looper) /\ UNCHANGED <<frames, packets>>
           /\ mOutputEOS' = (mOutputEOS \/ entry[Looper].eos)
           /\ UNCHANGED mSignalledError
  <2>1. CASE draining[Looper]
    <3>1. /\ cut' = (cut \/ (work # NoWork /\ ~mOutputEOS'))
          /\ EndDrain(Looper)
      BY <1>4, <2>1 DEF Nothing, HasWork
    <3>2. CASE ended' = ended
      BY <1>2, <1>4, <3>1, <3>2, CompleteStays
    <3>3. CASE ended' # ended /\ Calm /\ ~cut'
      <4>1. work # NoWork /\ ended = NoWork /\ ~mSignalledError
        BY <3>1, <3>3 DEF EndDrain, HasWork, End
      <4>2. Open /\ (mOutputEOS \/ entry[Looper].eos)
        BY <1>4, <3>1, <3>3, <4>1 DEF Open
      <4>3. frames = <<>> /\ packets = <<>>
        BY <4>2 DEF EosInv
      <4>4. QED
        BY <1>4, <4>3, CompleteEmpty
    <3>4. CASE ~Calm \/ cut'
      BY <1>2, <3>4 DEF CompleteInv
    <3>5. QED
      BY <3>2, <3>3, <3>4
  <2>2. CASE ~draining[Looper]
    <3>1. UNCHANGED <<ended, cut>>
      BY <1>4, <2>2 DEF Nothing
    <3>2. QED
      BY <1>2, <1>4, <3>1, CompleteStays
  <2>3. QED
    BY <2>1, <2>2
<1>5. CASE CountOutput(Looper) /\ ~Nothing(Looper)
  <2>1. UNCHANGED <<frames, packets, ended, cut>>
    BY <1>5 DEF CountOutput
  <2>2. QED
    BY <1>2, <2>1, CompleteStays
<1>6. QED
  <2>1. CASE GetFails(Looper)
    <3>1. ~entry[Looper].eos /\ mOutputEOS \in BOOLEAN
      BY <2>1 DEF GetFails, PlacesInv, ValuesInv
    <3>2. mOutputEOS' = (mOutputEOS \/ entry[Looper].eos)
      BY <2>1, <3>1 DEF GetFails
    <3>3. QED
      BY <1>4, <2>1, <3>2 DEF GetFails
  <2>2. CASE CountOutput(Looper) /\ Nothing(Looper)
    BY <1>4, <2>2 DEF CountOutput
  <2>3. CASE FinishWork(Looper)
    <3>1. UNCHANGED <<frames, packets, ended, cut>>
      BY <2>3 DEF FinishWork, Pending, Flags
    <3>2. QED
      BY <1>2, <3>1, CompleteStays
  <2>4. QED
    BY <1>3, <1>5, <2>1, <2>2, <2>3 DEF PacketNext

\* What the client has as complete stays complete.
LEMMA CompleteStep ==
    ASSUME PlacesInv, ValuesInv, WorkInv, EndedInv, CountsInv, HeaderInv, EosInv, CompleteInv,
           [Next]_vars
    PROVE  CompleteInv'
<1>. USE Constants
<1>1. CASE ProcessNext
  BY <1>1, ProcessComplete
<1>2. CASE Begin \/ Drain \/ Ask \/ UNCHANGED vars
  <2>1. \A t \in Stopper : pc'[t] = pc[t]
    BY <1>2, BeginTakes DEF Drain, Ask, vars, PlacesInv
  <2>2. CASE UNCHANGED <<frames, packets, ended, cut>>
    BY <2>1, <2>2, CompleteStays DEF Calm
  <2>3. CASE ReleaseEncoder
    BY <2>3, CompleteEmpty DEF ReleaseEncoder
  <2>4. QED
    BY <1>2, <2>2, <2>3, BeginTakes DEF Drain, Ask, vars
<1>3. CASE MppEncode
  <2>1. PICK data \in {Head(frames).data, FALSE} :
            packets' = Append(packets, [Head(frames) EXCEPT !.data = data])
    BY <1>3 DEF MppEncode
  <2>. DEFINE p == [Head(frames) EXCEPT !.data = data]
  <2>2. /\ frames \in Seq(Packet) /\ packets \in Seq(Packet) /\ frames # <<>>
        /\ frames' = Tail(frames) /\ UNCHANGED <<pc, ended, cut>>
    BY <1>3 DEF MppEncode, ValuesInv
  <2>3. Head(frames) \in Packet
    BY <2>2, HeadTail
  <2>4. p.pts = Head(frames).pts /\ packets' = Append(packets, p)
    BY <2>1, <2>3 DEF Packet
  <2>. HIDE DEF p
  <2>5. Head(frames) = frames[1] /\ 1 \in DOMAIN frames
    BY <2>2, TailEntries
  <2>6. \A j \in DOMAIN frames' : \E k \in DOMAIN frames : frames'[j] = frames[k]
    BY <2>2, TailEntries
  <2>7. \A i \in DOMAIN packets' :
            packets'[i] = p \/ \E k \in DOMAIN packets : packets'[i] = packets[k]
    BY <2>2, <2>4, AppendEntries
  <2>8. QED
    BY <2>2, <2>4, <2>5, <2>6, <2>7 DEF CompleteInv, Calm
<1>4. CASE PacketNext(Looper)
  BY <1>4, PacketComplete
<1>5. ASSUME NEW t \in Stopper, PacketNext(t) \/ Stop(t) \/ StopClear(t) PROVE CompleteInv'
  BY <1>5, StopperGoes, NotCalm
<1>6. ASSUME NEW t \in Stopper, Release(t) PROVE CompleteInv'
  BY <1>6, CompleteEmpty DEF Release, ReleaseEncoder
<1>7. QED
  BY <1>1, <1>2, <1>3, <1>4, <1>5, <1>6 DEF Next, StopNext

-----------------------------------------------------------------------------
(***************************************************************************)
(* The sync frames.                                                        *)
(***************************************************************************)

\* The periods.
LEMMA Periods == ASSUME ValuesInv PROVE Period \in {1, 2, 4, 8}
<1>1. 2 ^ 1 = 2 /\ 2 ^ 2 = 4 /\ 2 ^ 3 = 8
  OBVIOUS
<1>2. mCurLayerCount \in {0, 2, 3, 4}
  BY EncAssumption DEF ValuesInv
<1>3. 2 - 1 = 1 /\ 3 - 1 = 2 /\ 4 - 1 = 3
  OBVIOUS
<1>4. CASE mCurLayerCount = 0
  BY <1>4 DEF Period
<1>5. CASE mCurLayerCount = 2
  BY <1>1, <1>3, <1>5 DEF Period
<1>6. CASE mCurLayerCount = 3
  BY <1>1, <1>3, <1>6 DEF Period
<1>7. CASE mCurLayerCount = 4
  BY <1>1, <1>3, <1>7 DEF Period
<1>8. QED
  BY <1>2, <1>4, <1>5, <1>6, <1>7

\* Between two base layers the remainders count up.
LEMMA Remainders ==
    \A p \in {1, 2, 4, 8}, n \in Nat :
       /\ n % p \in 0 .. p - 1
       /\ n > 0 /\ n % p # 0 => n % p = ((n - 1) % p) + 1
  OBVIOUS

\* An owed frame that was put between two base layers.
LEMMA OneMore ==
    \A p \in {1, 2, 4, 8}, n, o \in Nat :
       n % p # 0 /\ n > 0 /\ o <= ((n - 1) % p) + 2 => o + 1 <= (n % p) + 2
<1>1. ASSUME NEW p \in {1, 2, 4, 8}, NEW n \in Nat, NEW o \in Nat,
             n % p # 0, n > 0, o <= ((n - 1) % p) + 2
      PROVE  o + 1 <= (n % p) + 2
  <2>1. n % p = ((n - 1) % p) + 1
    BY <1>1, Remainders, Zenon
  <2>. n - 1 \in Nat
    BY <1>1
  <2>2. (n - 1) % p \in 0 .. p - 1
    BY Remainders
  <2>3. \A r \in Nat : o <= r + 2 => o + 1 <= (r + 1) + 2
    OBVIOUS
  <2>4. (n - 1) % p \in Nat
    BY <2>2
  <2>5. QED
    BY <1>1, <2>1, <2>3, <2>4, Zenon
<1>2. QED
  BY <1>1, Zenon

\* No frame is put, and the request is left for the next base layer.
LEMMA SyncStays ==
    ASSUME SyncInv, UNCHANGED <<owed, mCurLayerCount, mStarted>>, Put' = Put,
           owed > 0 => (request' /\ changed') \/ pc'[Looper] = "force",
           owed > 1 /\ pc'[Looper] = "put" => mInputCount' % Period # 0
    PROVE  SyncInv'
<1>1. Period' = Period
  BY DEF Period
<1>2. owed > 1 => Put' > 0 /\ owed <= ((Put' - 1) % Period') + 2
  BY <1>1 DEF SyncInv
<1>3. QED
  BY <1>1, <1>2 DEF SyncInv

\* The members a request and its frames depend on.
Quiescent ==
    /\ UNCHANGED <<owed, mCurLayerCount, mStarted, request, changed, mInputCount>>
    /\ pc'[Looper] = "force" <=> pc[Looper] = "force"
    /\ pc'[Looper] = "count" <=> pc[Looper] = "count"
    /\ pc'[Looper] = "put" => pc[Looper] = "put"

\* They stay.
LEMMA QuiescentSync == ASSUME SyncInv, Quiescent PROVE SyncInv'
<1>1. Put' = Put
  BY DEF Quiescent, Put
<1>2. QED
  BY <1>1, SyncStays DEF SyncInv, Quiescent

\* The frames of an owed sync frame.
LEMMA PutSync ==
    ASSUME PlacesInv, ValuesInv, CountsInv, SyncInv, PutFrame, frames' # frames
    PROVE  SyncInv'
<1>1. /\ pc[Looper] = "put" /\ pc' = [pc EXCEPT ![Looper] = "count"]
      /\ owed' = (IF owed = 0 THEN 0 ELSE owed + 1)
      /\ UNCHANGED <<mInputCount, mCurLayerCount, mStarted, request, changed>>
  BY DEF PutFrame
<1>2. pc'[Looper] = "count" /\ owed \in Nat /\ mInputCount \in Nat
  BY <1>1, Constants DEF PlacesInv, ValuesInv, CountsInv
<1>3. Put = mInputCount /\ Put' = mInputCount + 1 /\ Period' = Period
  BY <1>1, <1>2 DEF Put, One, Period
<1>4. Period \in {1, 2, 4, 8}
  BY Periods
<1>5. owed = 0 \/ owed = 1 \/ owed > 1
  BY <1>2
<1>6. CASE owed = 0
  BY <1>1, <1>6 DEF SyncInv
<1>7. CASE owed = 1
  <2>1. owed' = 2 /\ mInputCount % Period \in Nat
    BY <1>1, <1>2, <1>4, <1>7, Remainders
  <2>2. \A n \in Nat : (n + 1) - 1 = n /\ n + 1 > 0
    OBVIOUS
  <2>3. 2 <= (mInputCount % Period) + 2
    BY <2>1
  <2>4. (Put' - 1) % Period' = mInputCount % Period
    BY <1>2, <1>3, <2>2
  <2>5. Put' > 0
    BY <1>2, <1>3, <2>2
  <2>6. mStarted' /\ request' /\ changed'
    BY <1>1, <1>7 DEF SyncInv
  <2>7. QED
    BY <1>2, <2>1, <2>3, <2>4, <2>5, <2>6 DEF SyncInv
<1>8. CASE owed > 1
  <2>1. owed' = owed + 1 /\ owed <= ((mInputCount - 1) % Period) + 2 /\ mInputCount > 0
        /\ mInputCount % Period # 0
    BY <1>1, <1>2, <1>3, <1>8 DEF SyncInv
  <2>2. owed + 1 <= (mInputCount % Period) + 2
    BY <1>2, <1>4, <2>1, OneMore
  <2>3. \A n \in Nat : (n + 1) - 1 = n /\ n + 1 > 0
    OBVIOUS
  <2>4. (Put' - 1) % Period' = mInputCount % Period
    BY <1>2, <1>3, <2>3
  <2>5. Put' > 0
    BY <1>2, <1>3, <2>3
  <2>6. mStarted' /\ request' /\ changed'
    BY <1>1, <1>2, <1>8 DEF SyncInv
  <2>7. QED
    BY <1>2, <2>1, <2>2, <2>4, <2>5, <2>6 DEF SyncInv
<1>9. QED
  BY <1>5, <1>6, <1>7, <1>8

\* A frame that is owed is sent with the next base layer.
LEMMA SyncStep ==
    ASSUME PlacesInv, ValuesInv, CountsInv, SyncInv, [Next]_vars
    PROVE  SyncInv'
<1>. USE Constants
<1>1. /\ pc \in [Thread -> LooperPlace \cup StopPlace] /\ Looper \in Thread
      /\ owed \in Nat /\ {request, changed, mStarted} \subseteq BOOLEAN
  BY DEF PlacesInv, ValuesInv
<1>2. CASE Begin
  <2>1. /\ pc[Looper] = "idle" /\ UNCHANGED <<mInputCount, request>>
        /\ owed' \in {owed, 0} /\ pc'[Looper] \in {"idle", "prepare"}
    BY <1>1, <1>2, BeginTakes DEF ReleaseEncoder
  <2>2. CASE mStarted
    <3>1. UNCHANGED <<owed, mStarted, mCurLayerCount, changed>>
      BY <1>2, <2>2, BeginTakes
    <3>2. QED
      BY <2>1, <3>1, QuiescentSync DEF Quiescent
  <2>3. CASE ~mStarted
    <3>1. owed = 0
      BY <1>1, <2>3 DEF SyncInv
    <3>2. QED
      BY <2>1, <3>1 DEF SyncInv
  <2>4. QED
    BY <2>2, <2>3
<1>3. CASE Prepare
  BY <1>1, <1>3, QuiescentSync DEF Prepare, Corrupted, End, Quiescent
<1>4. CASE SendFrame
  <2>1. /\ UNCHANGED <<owed, mInputCount, mCurLayerCount, mStarted, request>>
        /\ pc[Looper] = "send" /\ pc'[Looper] \in {"idle", "put", "clear"}
    BY <1>1, <1>4 DEF SendFrame, Corrupted, HandleSync, End
  <2>2. Put' = Put
    BY <2>1 DEF Put
  <2>3. owed > 0 => request /\ changed
    BY <2>1 DEF SyncInv
  <2>4. changed' = changed \/ ~request
    BY <1>4 DEF SendFrame, HandleSync
  <2>5. pc'[Looper] = "put" /\ request /\ changed => mInputCount % Period # 0
    BY <1>1, <1>4 DEF SendFrame, Corrupted, HandleSync, End
  <2>6. owed > 0 => request' /\ changed'
    BY <2>1, <2>3, <2>4
  <2>7. owed > 1 => owed > 0
    BY <1>1
  <2>8. owed > 1 /\ pc'[Looper] = "put" => mInputCount' % Period # 0
    BY <2>1, <2>3, <2>5, <2>7
  <2>9. QED
    BY <2>1, <2>2, <2>6, <2>8, SyncStays
<1>5. CASE ClearSync
  <2>1. /\ UNCHANGED <<owed, mInputCount, mCurLayerCount, mStarted>>
        /\ pc[Looper] = "clear" /\ pc'[Looper] = "force"
    BY <1>1, <1>5 DEF ClearSync
  <2>2. Put' = Put
    BY <2>1 DEF Put
  <2>3. QED
    BY <2>1, <2>2, SyncStays
<1>6. CASE ForceIdr
  BY <1>6 DEF ForceIdr, SyncInv
<1>7. CASE PutFrame
  <2>1. CASE UNCHANGED frames
    BY <1>1, <1>7, <2>1, QuiescentSync DEF PutFrame, Corrupted, End, Quiescent
  <2>2. QED
    BY <1>7, <2>1, PutSync
<1>8. CASE CountInput
  <2>1. /\ UNCHANGED <<owed, mCurLayerCount, mStarted, request, changed>>
        /\ pc[Looper] = "count" /\ pc'[Looper] = "get" /\ mInputCount' = mInputCount + 1
    BY <1>1, <1>8 DEF CountInput
  <2>2. Put' = Put
    BY <2>1 DEF Put, One, CountsInv
  <2>3. QED
    BY <2>1, <2>2, SyncStays DEF SyncInv
<1>9. CASE After \/ Drain
  BY <1>1, <1>9, QuiescentSync DEF After, Drain, End, Quiescent
<1>10. CASE Ask
  <2>1. /\ UNCHANGED <<pc, mInputCount, mCurLayerCount, mStarted>>
        /\ request' = TRUE /\ changed' = (changed \/ ~request)
        /\ owed' = (IF mStarted /\ owed = 0 /\ ~Adopted THEN 1 ELSE owed)
    BY <1>10 DEF Ask
  <2>2. CASE owed' = owed
    <3>1. Put' = Put
      BY <2>1 DEF Put
    <3>2. owed > 0 => (request' /\ changed') \/ pc'[Looper] = "force"
      BY <2>1 DEF SyncInv
    <3>3. QED
      BY <2>1, <2>2, <3>1, <3>2, SyncStays DEF SyncInv
  <2>3. CASE owed' # owed
    <3>1. owed' = 1 /\ mStarted' /\ request' /\ changed'
      BY <2>1, <2>3 DEF Adopted
    <3>2. QED
      BY <3>1 DEF SyncInv
  <2>4. QED
    BY <2>2, <2>3
<1>11. CASE MppEncode \/ UNCHANGED vars
  BY <1>11, QuiescentSync DEF MppEncode, vars, Quiescent
<1>12. ASSUME NEW t \in Thread, PacketNext(t) PROVE SyncInv'
  <2>1. UNCHANGED <<owed, mCurLayerCount, mStarted, request, changed, mInputCount>>
    BY <1>12 DEF PacketNext, GetPacket, GetFails, CountOutput, FinishWork
  <2>2. \E place \in Packets \cup {"idle", "clear", "after"} : Goto(t, place)
    BY <1>12 DEF PacketNext, GetPacket, GetFails, CountOutput, FinishWork, Nothing, EndDrain,
                HasWork, End, Packets
  <2>3. pc[t] \in Packets
    BY <1>12 DEF PacketNext, GetPacket, GetFails, CountOutput, FinishWork, Packets
  <2>4. QED
    BY <1>1, <2>1, <2>2, <2>3, QuiescentSync DEF Quiescent, Packets
<1>13. ASSUME NEW t \in Stopper, Stop(t) \/ StopClear(t) PROVE SyncInv'
  BY <1>1, <1>13, QuiescentSync DEF Stop, StopClear, Quiescent
<1>14. ASSUME NEW t \in Stopper, Release(t) PROVE SyncInv'
  BY <1>14 DEF Release, ReleaseEncoder, SyncInv
<1>15. QED
  BY <1>2, <1>3, <1>4, <1>5, <1>6, <1>7, <1>8, <1>9, <1>10, <1>11, <1>12, <1>13, <1>14
  DEF Next, ProcessNext, StopNext

-----------------------------------------------------------------------------
(***************************************************************************)
(* The theorems.                                                           *)
(***************************************************************************)

\* The inductive invariant of the session.
SessionInv ==
    /\ PlacesInv /\ ValuesInv /\ WorkInv /\ EndedInv /\ CountsInv
    /\ MppInv /\ HeaderInv /\ EosInv /\ CompleteInv /\ SyncInv

\* It holds at the start ...
LEMMA SessionInit == Init => SessionInv
<1>. SUFFICES ASSUME Init PROVE SessionInv
  OBVIOUS
<1>. USE Constants, EncAssumption
<1>1. PlacesInv
  BY DEF Init, PlacesInv, LooperPlace, StopPlace, Packets
<1>2. ValuesInv
  <2>1. <<>> \in Seq(Packet)
    OBVIOUS
  <2>2. {mStarted, mMppMpi, mSpsPpsHeaderReceived, mSawInputEOS, mOutputEOS, mSignalledError,
         request, changed, eos, processed, cut} \subseteq BOOLEAN
    BY DEF Init
  <2>3. stops \in 0 .. MaxStop /\ asks \in 0 .. MaxAsk /\ owed \in Nat
    BY DEF Init
  <2>4. QED
    BY <2>1, <2>2, <2>3 DEF Init, ValuesInv
<1>3. WorkInv /\ EndedInv
  BY DEF Init, WorkInv, EndedInv, Outcome, BeforePut, Packets
<1>4. CountsInv
  <2>1. Put = 0 /\ Taken = 0 /\ One(pc[Looper] \in BeforePut) = 0
    BY DEF Init, Put, Taken, One, BeforePut
  <2>2. QED
    BY <2>1 DEF Init, CountsInv, Work
<1>5. MppInv /\ HeaderInv
  BY DEF Init, MppInv, Sorted, HeaderInv
<1>6. EosInv /\ CompleteInv
  BY DEF Init, EosInv, OfWork, CompleteInv
<1>7. SyncInv
  BY DEF Init, SyncInv
<1>8. QED
  BY <1>1, <1>2, <1>3, <1>4, <1>5, <1>6, <1>7 DEF SessionInv

\* ... and every step keeps it.
LEMMA SessionStep == SessionInv /\ [Next]_vars => SessionInv'
<1>1. SessionInv /\ [Next]_vars => PlacesInv'
  BY PlacesStep DEF SessionInv
<1>2. SessionInv /\ [Next]_vars => ValuesInv'
  BY ValuesStep DEF SessionInv
<1>3. SessionInv /\ [Next]_vars => WorkInv' /\ EndedInv'
  BY WorkStep DEF SessionInv
<1>4. SessionInv /\ [Next]_vars => CountsInv'
  BY <1>1, CountsStep DEF SessionInv
<1>5. SessionInv /\ [Next]_vars => MppInv' /\ HeaderInv'
  BY MppStep, HeaderStep DEF SessionInv
<1>6. SessionInv /\ [Next]_vars => EosInv'
  BY <1>1, EosStep DEF SessionInv
<1>7. SessionInv /\ [Next]_vars => CompleteInv' /\ SyncInv'
  BY CompleteStep, SyncStep DEF SessionInv
<1>8. QED
  BY <1>1, <1>2, <1>3, <1>4, <1>5, <1>6, <1>7 DEF SessionInv

\* So it holds always.
LEMMA SessionAlways == Spec => []SessionInv
  BY SessionInit, SessionStep, PTL DEF Spec

\* The types of the variables follow, and the counts never exceed the works.
LEMMA TypesOf == ASSUME SessionInv PROVE TypeOK
<1>. USE Constants
<1>1. mInputCount \in 0 .. NumWork /\ mOutputCount \in 0 .. NumWork
  <2>1. Put \in Nat /\ Taken \in Nat /\ Len(frames) \in Nat /\ Len(packets) \in Nat
    BY CountTypes DEF SessionInv
  <2>2. mInputCount \in Nat /\ mInputCount <= Put /\ Put <= NumWork
    BY <2>1 DEF SessionInv, CountsInv, Put, One
  <2>3. mOutputCount \in Nat /\ mOutputCount <= Taken
    BY <2>1 DEF SessionInv, CountsInv, Taken, One
  <2>4. Taken + Len(frames) + Len(packets) <= Put
    BY DEF SessionInv, CountsInv
  <2>5. \A a, b, c, p \in Nat : a + b + c <= p => a <= p
    OBVIOUS
  <2>6. Taken <= Put
    BY <2>1, <2>4, <2>5, Zenon
  <2>7. QED
    BY <2>1, <2>2, <2>3, <2>6
<1>2. QED
  BY <1>1 DEF SessionInv, PlacesInv, ValuesInv, WorkInv, EndedInv, TypeOK

\* The variables keep their types, and mInputCount and mOutputCount stay within
\* the works that process() was given, in all sessions together.
THEOREM EncTypeCorrect == Spec => []TypeOK
<1>1. SessionInv => TypeOK
  BY TypesOf
<1>2. QED
  BY <1>1, SessionAlways, PTL

\* drain() and process() skip a drain where mInputCount equals mOutputCount:
\* MPP holds nothing then, whatever failed and was released before.
THEOREM NothingSkippedHolds == Spec => []NothingSkipped
<1>1. SessionInv => NothingSkipped
  BY NothingHeld DEF SessionInv, NothingSkipped
<1>2. QED
  BY <1>1, SessionAlways, PTL

\* When the client gets the first end of stream of a session, MPP has answered
\* every frame up to it that had a buffer, also when the packets lag behind the
\* works and the end of stream has to be drained: unless that drain was over
\* before MPP gave its end of stream (the code ends it at an empty packet and at
\* a failure), or a stop() takes packets.
THEOREM EosIsCompleteHolds == Spec => []EosIsComplete
<1>1. SessionInv => EosIsComplete
  BY DEF SessionInv, CompleteInv, Calm, EosIsComplete, Range
<1>2. QED
  BY <1>1, SessionAlways, PTL

\* A sync frame that is asked for while the encoder runs is forced before the
\* layers come round once more (handleRequestSyncFrame()).
THEOREM SyncServedHolds == Spec => []SyncServed
<1>1. ASSUME SessionInv PROVE SyncServed
  <2>1. owed \in Nat /\ Period \in {1, 2, 4, 8} /\ Put \in Nat
    BY <1>1, Periods, CountTypes DEF SessionInv, ValuesInv
  <2>2. CASE owed <= 1
    BY <2>1, <2>2 DEF SyncServed
  <2>3. CASE owed > 1
    <3>1. Put - 1 \in Nat /\ owed <= ((Put - 1) % Period) + 2
      BY <1>1, <2>1, <2>3 DEF SessionInv, SyncInv
    <3>2. (Put - 1) % Period \in 0 .. Period - 1
      BY <2>1, <3>1, Remainders
    <3>3. \A r, p, o \in Nat : r \in 0 .. p - 1 /\ o <= r + 2 => o <= p + 1
      OBVIOUS
    <3>4. (Put - 1) % Period \in Nat /\ Period \in Nat
      BY <2>1, <3>2
    <3>5. QED
      BY <2>1, <3>1, <3>2, <3>3, <3>4, Zenon DEF SyncServed
  <2>4. QED
    BY <2>1, <2>2, <2>3
<1>2. SessionInv => SyncServed
  BY <1>1
<1>3. QED
  BY <1>2, SessionAlways, PTL
=============================================================================
