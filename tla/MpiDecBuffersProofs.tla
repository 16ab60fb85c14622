------------------------ MODULE MpiDecBuffersProofs ------------------------
(***************************************************************************)
(* Proofs about the decoder's buffers, for every number of slots, buffers  *)
(* and surfaces.  With threads that drain beside the looper, as far as     *)
(* each use of the table is one step:                                      *)
(*                                                                         *)
(*   - MPP is never given more than kMaxReferenceCount blocks (OwnedInv);  *)
(*   - the variables keep their types, and a block is at one place at a    *)
(*     time (HoldInv, with OwnedInv and the references among its parts).   *)
(*                                                                         *)
(* And while no thread is in stop() or reset() beside the looper:          *)
(*                                                                         *)
(*   - every holder of a buffer has a reference (HoldInv);                 *)
(*   - MPP decodes into no block the client was given (SafeInv);           *)
(*   - with one surface, no block has two buffers (OnceInv);               *)
(*   - the frame of a buffer is found in the table, if the maximum of      *)
(*     blocks is at most one above the clear count (KnownInv).             *)
(***************************************************************************)
EXTENDS MpiDecBuffers, TLAPS, FiniteSetTheorems, SequenceTheorems,
        WellFoundedInduction

-----------------------------------------------------------------------------
(***************************************************************************)
(* The invariant of the count of blocks.                                   *)
(***************************************************************************)

Place == {"idle", "ensure", "fetch", "get", "find", "finish", "clear", "ready",
          "flush group", "flush reset"}

\* The types of what the count of blocks depends on.
TableOK ==
    /\ mOutBuffers \in Seq(OutBuffer)
    /\ surface \in Generation
    /\ free \subseteq Slot /\ shown \subseteq Block
    /\ pc \in [Thread -> Place]
    /\ left \in [Thread -> Nat]
    /\ outblock \in [Thread -> Block \cup {None}]

\* finishWork has a block to give: the one getoutframe took.
BlockInHand == \A t \in Thread : pc[t] = "finish" => outblock[t] \in Block

\* Only the thread that holds mPoolMutex is in ensureDecoderState's loop.
FetchHoldsMutex == \A t \in Thread : pc[t] = "fetch" => mPoolMutex = t

\* The turns a thread still has to make fit under the maximum.
RoomLeft ==
    \A t \in Thread :
        pc[t] = "fetch"
            => OwnedByMpi(mOutBuffers) + left[t] <= kMaxReferenceCount

OwnedInv ==
    /\ TableOK /\ BlockInHand /\ FetchHoldsMutex
    /\ RoomLeft /\ OwnedAtMostMax

-----------------------------------------------------------------------------
(***************************************************************************)
(* How the operations on the table change the number of blocks with MPP.   *)
(***************************************************************************)

\* The places of the blocks MPP has, counted by getOutBufferCountOwnByMpi.
MpiSites(s) == {i \in DOMAIN s : s[i].site = "MPI"}

\* Their number is a natural one.
LEMMA OwnedNat ==
    ASSUME NEW s \in Seq(OutBuffer)
    PROVE  /\ IsFiniteSet(MpiSites(s))
           /\ OwnedByMpi(s) = Cardinality(MpiSites(s))
           /\ OwnedByMpi(s) \in Nat
<1>1. DOMAIN s = 1 .. Len(s) /\ Len(s) \in Nat
  BY LenProperties
<1>2. IsFiniteSet(DOMAIN s)
  BY <1>1, FS_Interval
<1>3. MpiSites(s) \in SUBSET DOMAIN s
  BY DEF MpiSites
<1>4. IsFiniteSet(MpiSites(s))
  BY <1>2, <1>3, FS_Subset
<1>5. QED
  BY <1>4, FS_CardinalityType DEF OwnedByMpi, MpiSites

\* An empty table has none.
LEMMA OwnedEmpty == OwnedByMpi(<<>>) = 0
<1>1. {i \in DOMAIN <<>> : (<<>>)[i].site = "MPI"} = {}
  OBVIOUS
<1>2. QED
  BY <1>1, FS_EmptySet DEF OwnedByMpi

\* If only the place i can be new, at most one more is counted.
LEMMA OwnedOneMore ==
    ASSUME NEW s \in Seq(OutBuffer), NEW r \in Seq(OutBuffer), NEW i,
           MpiSites(r) \subseteq MpiSites(s) \cup {i}
    PROVE  OwnedByMpi(r) <= OwnedByMpi(s) + 1
<1> DEFINE S == MpiSites(s)
           R == MpiSites(r)
<1>1. /\ IsFiniteSet(S) /\ OwnedByMpi(s) = Cardinality(S) /\ Cardinality(S) \in Nat
      /\ OwnedByMpi(r) = Cardinality(R) /\ Cardinality(R) \in Nat
  BY OwnedNat
<1>2. R \in SUBSET (S \cup {i})
  OBVIOUS
<1> HIDE DEF S, R
<1>3. /\ IsFiniteSet(S \cup {i})
      /\ Cardinality(S \cup {i}) = IF i \in S THEN Cardinality(S)
                                              ELSE Cardinality(S) + 1
  BY <1>1, FS_AddElement
<1>4. Cardinality(R) <= Cardinality(S \cup {i})
  BY <1>2, <1>3, FS_Subset
<1>5. QED
  BY <1>1, <1>3, <1>4

\* If no place is new, none is counted.
LEMMA OwnedNoMore ==
    ASSUME NEW s \in Seq(OutBuffer), NEW r \in Seq(OutBuffer),
           MpiSites(r) \subseteq MpiSites(s)
    PROVE  OwnedByMpi(r) <= OwnedByMpi(s)
<1>1. MpiSites(r) \in SUBSET MpiSites(s)
  OBVIOUS
<1>2. IsFiniteSet(MpiSites(s))
  BY OwnedNat
<1>3. Cardinality(MpiSites(r)) <= Cardinality(MpiSites(s))
  BY <1>1, <1>2, FS_Subset
<1>4. QED
  BY <1>3, OwnedNat

\* A block given to MPP counts one more.
LEMMA OwnedAppend ==
    ASSUME NEW s \in Seq(OutBuffer), NEW e \in OutBuffer
    PROVE  /\ Append(s, e) \in Seq(OutBuffer)
           /\ OwnedByMpi(Append(s, e)) <= OwnedByMpi(s) + 1
<1>1. /\ Append(s, e) \in Seq(OutBuffer) /\ Len(Append(s, e)) = Len(s) + 1
      /\ \A i \in 1 .. Len(s) : Append(s, e)[i] = s[i]
  BY AppendProperties
<1>2. /\ DOMAIN s = 1 .. Len(s) /\ Len(s) \in Nat
      /\ DOMAIN Append(s, e) = 1 .. Len(s) + 1
  BY <1>1, LenProperties
<1>3. MpiSites(Append(s, e)) \subseteq MpiSites(s) \cup {Len(s) + 1}
  BY <1>1, <1>2 DEF MpiSites
<1>4. QED
  BY <1>1, <1>3, OwnedOneMore

\* One that goes to the other side counts at most one more, or no more.
LEMMA OwnedChange ==
    ASSUME NEW s \in Seq(OutBuffer), NEW i \in DOMAIN s, NEW site \in {"MPI", "C2"}
    PROVE  /\ [s EXCEPT ![i].site = site] \in Seq(OutBuffer)
           /\ OwnedByMpi([s EXCEPT ![i].site = site])
                <= OwnedByMpi(s) + (IF site = "MPI" THEN 1 ELSE 0)
<1> DEFINE e == [s[i] EXCEPT !.site = site]
           r == [s EXCEPT ![i] = e]
<1>1. i \in 1 .. Len(s) /\ DOMAIN s = 1 .. Len(s)
  BY LenProperties
<1>2. s[i] \in OutBuffer
  BY <1>1, ElementOfSeq
<1>3. e \in OutBuffer /\ e.site = site
  BY <1>2 DEF OutBuffer
<1>4. /\ r \in Seq(OutBuffer) /\ Len(r) = Len(s)
      /\ \A j \in 1 .. Len(s) : r[j] = IF j = i THEN e ELSE s[j]
  BY <1>1, <1>3, ExceptSeq
<1>5. DOMAIN r = 1 .. Len(s)
  BY <1>4, LenProperties
<1>6. MpiSites(r) \subseteq MpiSites(s) \cup (IF site = "MPI" THEN {i} ELSE {})
  BY <1>1, <1>3, <1>4, <1>5 DEF MpiSites
<1>7. r = [s EXCEPT ![i].site = site]
  BY <1>1
<1> HIDE DEF r, e
<1>8. CASE site = "MPI"
  <2>1. OwnedByMpi(r) <= OwnedByMpi(s) + 1
    BY <1>4, <1>6, <1>8, OwnedOneMore
  <2>2. QED
    BY <1>4, <1>7, <1>8, <2>1
<1>9. CASE site = "C2"
  <2>1. OwnedByMpi(r) <= OwnedByMpi(s)
    BY <1>4, <1>6, <1>9, OwnedNoMore
  <2>2. QED
    BY <1>4, <1>7, <1>9, <2>1, OwnedNat
<1>10. QED
  BY <1>8, <1>9

\* First returns one of the places.
LEMMA FirstPlace ==
    ASSUME NEW places \in SUBSET Nat, First(places) # 0
    PROVE  First(places) \in places
<1>1. places # {}
  BY DEF First
<1>2. PICK n \in places : \A m \in places : <<m, n>> \notin OpToRel(<, Nat)
  BY <1>1, WFMin, NatLessThanWellFounded
<1>3. \A m \in places : ~(m < n)
  BY <1>2 DEF OpToRel
<1>4. \A m \in places : n <= m
  BY <1>3
<1>5. QED
  BY <1>1, <1>4 DEF First, Min

\* clearOldGenerationOutBuffers can only take blocks away.
LEMMA OwnedClearOld ==
    ASSUME NEW s \in Seq(OutBuffer), NEW generation
    PROVE  /\ ClearOldGeneration(s, generation) \in Seq(OutBuffer)
           /\ OwnedByMpi(ClearOldGeneration(s, generation)) <= OwnedByMpi(s)
<1> DEFINE i == First({j \in DOMAIN s : s[j].generation = generation})
<1>1. CASE i = 0
  BY <1>1, OwnedEmpty, OwnedNat, EmptySeq DEF ClearOldGeneration
<1>2. CASE i # 0
  <2> DEFINE r == SubSeq(s, i, Len(s))
             shift == [j \in MpiSites(r) |-> j + i - 1]
  <2>1. i \in 1 .. Len(s) /\ Len(s) \in Nat /\ DOMAIN s = 1 .. Len(s)
    BY <1>2, FirstPlace, LenProperties
  <2> HIDE DEF i
  <2>2. \A j \in i .. Len(s) : s[j] \in OutBuffer
    BY <2>1, ElementOfSeq
  <2>3. /\ r \in Seq(OutBuffer) /\ Len(r) = Len(s) - i + 1
        /\ \A j \in 1 .. Len(s) - i + 1 : r[j] = s[i + j - 1]
    BY <2>1, <2>2, SubSeqProperties
  <2>4. DOMAIN r = 1 .. Len(s) - i + 1
    BY <2>3, LenProperties
  <2>5. \A j \in MpiSites(r) : j \in Int /\ j + i - 1 \in MpiSites(s)
    BY <2>1, <2>3, <2>4 DEF MpiSites
  <2>6. shift \in [MpiSites(r) -> MpiSites(s)]
    BY <2>5
  <2>7. \A a, b \in MpiSites(r) : shift[a] = shift[b] => a = b
    BY <2>1, <2>5
  <2>8. shift \in Injection(MpiSites(r), MpiSites(s))
    BY <2>6, <2>7 DEF Injection, IsInjective
  <2>9. Cardinality(MpiSites(r)) <= Cardinality(MpiSites(s))
    BY <2>8, OwnedNat, FS_Injection
  <2>10. ClearOldGeneration(s, generation) = r
    BY <1>2 DEF ClearOldGeneration, i
  <2>11. QED
    BY <2>3, <2>9, <2>10, OwnedNat
<1>3. QED
  BY <1>1, <1>2

-----------------------------------------------------------------------------
(***************************************************************************)
(* Every step keeps the invariant.                                         *)
(***************************************************************************)

\* At the start the table is empty.
LEMMA OwnedInit == Init => OwnedInv
<1> SUFFICES ASSUME Init PROVE OwnedInv
  OBVIOUS
<1>1. TableOK
  <2>1. mOutBuffers \in Seq(OutBuffer)
    BY EmptySeq DEF Init
  <2>2. surface \in Generation
    BY BuffersAssumption DEF Init, Generation
  <2>3. /\ pc \in [Thread -> Place] /\ left \in [Thread -> Nat]
        /\ outblock \in [Thread -> Block \cup {None}]
    BY DEF Init, Place
  <2>4. free \subseteq Slot /\ shown \subseteq Block
    BY DEF Init
  <2>5. QED
    BY <2>1, <2>2, <2>3, <2>4 DEF TableOK
<1>2. OwnedByMpi(mOutBuffers) = 0
  BY OwnedEmpty DEF Init
<1>3. QED
  BY <1>1, <1>2, BuffersAssumption
     DEF Init, OwnedInv, BlockInHand, FetchHoldsMutex, RoomLeft, OwnedAtMostMax

\* commitBufferToMpp gives MPP at most one more block.
LEMMA CommitGivesOne ==
    ASSUME TableOK, NEW slot \in Slot, Commit(slot)
    PROVE  /\ mOutBuffers' \in Seq(OutBuffer)
           /\ OwnedByMpi(mOutBuffers') <= OwnedByMpi(mOutBuffers) + 1
<1>1. PICK s \in Seq(OutBuffer) :
        /\ OwnedByMpi(s) <= OwnedByMpi(mOutBuffers)
        /\ LET i == FindIndex(s, slot) IN
             \/ SameGeneration(s, i) /\ CommitAgain(s, i)
             \/ Import(s, slot)
  BY OwnedClearOld, OwnedNat DEF TableOK, Commit
<1>2. OwnedByMpi(s) \in Nat /\ OwnedByMpi(mOutBuffers) \in Nat
  BY OwnedNat DEF TableOK
<1> DEFINE i == FindIndex(s, slot)
<1>3. CASE SameGeneration(s, i) /\ CommitAgain(s, i)
  <2>1. i \in DOMAIN s
    <3>1. DOMAIN s \subseteq Nat
      BY LenProperties
    <3>2. QED
      BY <1>1, <1>3, <3>1, FirstPlace DEF SameGeneration, FindIndex
  <2>2. mOutBuffers' = [s EXCEPT ![i].site = "MPI"]
    BY <1>3 DEF CommitAgain
  <2>3. /\ mOutBuffers' \in Seq(OutBuffer)
        /\ OwnedByMpi(mOutBuffers') <= OwnedByMpi(s) + 1
    BY <2>1, <2>2, OwnedChange
  <2>4. OwnedByMpi(mOutBuffers') \in Nat
    BY <2>3, OwnedNat
  <2>5. QED
    BY <1>1, <1>2, <2>3, <2>4
<1>4. CASE Import(s, slot)
  <2>1. PICK b \in Buf : mOutBuffers' = Append(s, [index |-> slot,
              generation |-> surface, mppBuffer |-> b, site |-> "MPI"])
    BY <1>4 DEF Import, Unborn
  <2>2. [index |-> slot, generation |-> surface, mppBuffer |-> b,
         site |-> "MPI"] \in OutBuffer
    BY DEF OutBuffer, TableOK
  <2>3. /\ mOutBuffers' \in Seq(OutBuffer)
        /\ OwnedByMpi(mOutBuffers') <= OwnedByMpi(s) + 1
    BY <2>1, <2>2, OwnedAppend
  <2>4. OwnedByMpi(mOutBuffers') \in Nat
    BY <2>3, OwnedNat
  <2>5. QED
    BY <1>1, <1>2, <2>3, <2>4
<1>5. QED
  BY <1>1, <1>3, <1>4

\* The unsigned difference is the true one.
LEMMA MissingIsDifference ==
    ASSUME TableOK, OwnedAtMostMax
    PROVE  /\ Missing(mOutBuffers) \in Nat
           /\ OwnedByMpi(mOutBuffers) + Missing(mOutBuffers)
                = kMaxReferenceCount
<1> DEFINE d == kMaxReferenceCount - OwnedByMpi(mOutBuffers)
<1>1. d \in 0 .. Word - 1
  BY OwnedNat, BuffersAssumption DEF TableOK, OwnedAtMostMax
<1>2. \A a \in 0 .. Word - 1 : a % Word = a
  BY BuffersAssumption
<1>3. Missing(mOutBuffers) = d
  BY <1>1, <1>2 DEF Missing
<1>4. QED
  BY <1>1, <1>3, OwnedNat, BuffersAssumption DEF TableOK

\* A step that moves no thread into the loop and gives MPP no block.
LEMMA QuietStep ==
    ASSUME OwnedInv, TableOK', BlockInHand',
           OwnedByMpi(mOutBuffers') <= OwnedByMpi(mOutBuffers),
           \A t \in Thread : pc'[t] = "fetch" =>
               pc[t] = "fetch" /\ left'[t] = left[t] /\ mPoolMutex' = mPoolMutex
    PROVE  OwnedInv'
<1>1. /\ OwnedByMpi(mOutBuffers) \in Nat /\ OwnedByMpi(mOutBuffers') \in Nat
      /\ left \in [Thread -> Nat] /\ kMaxReferenceCount \in Nat
  BY OwnedNat, BuffersAssumption DEF OwnedInv, TableOK
<1>2. FetchHoldsMutex'
  BY DEF OwnedInv, FetchHoldsMutex
<1>3. RoomLeft' /\ OwnedAtMostMax'
  BY <1>1 DEF OwnedInv, RoomLeft, OwnedAtMostMax
<1>4. QED
  BY <1>2, <1>3 DEF OwnedInv

\* clearOutBuffers leaves MPP without blocks.
LEMMA ClearKeeps ==
    ASSUME OwnedInv, ClearOutBuffers
    PROVE  /\ mOutBuffers' \in Seq(OutBuffer) /\ free' \subseteq Slot
           /\ OwnedByMpi(mOutBuffers') <= OwnedByMpi(mOutBuffers)
<1>1. mOutBuffers' = <<>>
  BY DEF ClearOutBuffers
<1>2. \A e \in Elements(mOutBuffers) : e.index \in Slot
  <2>1. mOutBuffers \in [1 .. Len(mOutBuffers) -> OutBuffer]
    BY LenProperties DEF OwnedInv, TableOK
  <2>2. \A i \in DOMAIN mOutBuffers : mOutBuffers[i] \in OutBuffer
    BY <2>1
  <2>3. QED
    BY <2>2 DEF Elements, OutBuffer
<1>3. free' \subseteq Slot
  BY <1>2 DEF ClearOutBuffers, OwnedInv, TableOK
<1>4. QED
  BY <1>1, <1>3, EmptySeq, OwnedEmpty, OwnedNat DEF OwnedInv, TableOK

-----------------------------------------------------------------------------
\* A step that leaves the table's variables and every loop alone.
LEMMA OtherStep ==
    ASSUME OwnedInv, UNCHANGED <<mOutBuffers, left, mPoolMutex, outblock>>,
           surface' \in Generation, free' \subseteq Slot, shown' \subseteq Block,
           pc' \in [Thread -> Place],
           \A t \in Thread : pc'[t] = "fetch" => pc[t] = "fetch",
           \A t \in Thread : pc'[t] = "finish" => pc[t] = "finish"
    PROVE  OwnedInv'
<1>1. TableOK'
  BY DEF OwnedInv, TableOK
<1>2. BlockInHand'
  BY DEF OwnedInv, BlockInHand
<1>3. OwnedByMpi(mOutBuffers') <= OwnedByMpi(mOutBuffers)
  BY OwnedNat DEF OwnedInv, TableOK
<1>4. \A t \in Thread : pc'[t] = "fetch" =>
        pc[t] = "fetch" /\ left'[t] = left[t] /\ mPoolMutex' = mPoolMutex
  <2>1. left' = left /\ mPoolMutex' = mPoolMutex
    OBVIOUS
  <2>2. QED
    BY <2>1
<1>5. QED
  BY <1>1, <1>2, <1>3, <1>4, QuietStep

\* Every action of Next keeps the invariant.
LEMMA OwnedStep == OwnedInv /\ [Next]_vars => OwnedInv'
<1> SUFFICES ASSUME OwnedInv, [Next]_vars PROVE OwnedInv'
  OBVIOUS
<1>0. TableOK /\ BlockInHand
  BY DEF OwnedInv
<1>1. ASSUME NEW t \in Thread,
             Begin(t) \/ NoFrame(t) \/ GetFrame(t) \/ DropFrame(t)
             \/ InfoChangeReady(t)
      PROVE  OwnedInv'
  BY <1>0, <1>1, OtherStep
     DEF Begin, NoFrame, GetFrame, DropFrame, InfoChangeReady, Goto, Place, Idle,
         TableOK, decVars, clientVars
<1>2. ASSUME NEW t \in Thread, EnsureBegin(t) PROVE OwnedInv'
  <2>1. /\ TableOK' /\ BlockInHand'
        /\ mOutBuffers' = mOutBuffers
    BY <1>0, <1>2, MissingIsDifference
       DEF EnsureBegin, Goto, Place, OwnedInv, TableOK, BlockInHand, decVars, clientVars
  <2>2. \A u \in Thread : pc[u] # "fetch"
    BY <1>2, BuffersAssumption DEF EnsureBegin, OwnedInv, FetchHoldsMutex
  <2>3. \A u \in Thread : pc'[u] = "fetch" => u = t
    BY <1>0, <1>2, <2>2 DEF EnsureBegin, Goto, TableOK
  <2>4. FetchHoldsMutex'
    BY <1>2, <2>3 DEF EnsureBegin, FetchHoldsMutex
  <2>5. left'[t] = Missing(mOutBuffers)
    BY <1>0, <1>2 DEF EnsureBegin, TableOK
  <2>6. RoomLeft'
    BY <2>1, <2>3, <2>5, MissingIsDifference, BuffersAssumption
       DEF RoomLeft, OwnedInv
  <2>7. QED
    BY <2>1, <2>4, <2>6 DEF OwnedInv, OwnedAtMostMax
<1>3. ASSUME NEW t \in Thread, Fetch(t) PROVE OwnedInv'
  <2>1. PICK slot \in free : free' = free \ {slot} /\ Commit(slot)
    BY <1>3 DEF Fetch
  <2>2. /\ mOutBuffers' \in Seq(OutBuffer)
        /\ OwnedByMpi(mOutBuffers') <= OwnedByMpi(mOutBuffers) + 1
    BY <1>0, <2>1, CommitGivesOne DEF TableOK
  <2>3. /\ OwnedByMpi(mOutBuffers) \in Nat /\ OwnedByMpi(mOutBuffers') \in Nat
        /\ left[t] \in Nat /\ left[t] > 0 /\ left'[t] = left[t] - 1
    BY <1>0, <1>3, <2>2, OwnedNat DEF Fetch, TableOK
  <2>4. left' \in [Thread -> Nat]
    BY <1>0, <1>3, <2>3 DEF Fetch, TableOK
  <2>5. TableOK' /\ BlockInHand'
    BY <1>0, <1>3, <2>1, <2>2, <2>4 DEF Fetch, TableOK, BlockInHand
  <2>6. FetchHoldsMutex'
    BY <1>3 DEF Fetch, OwnedInv, FetchHoldsMutex
  <2>7. \A u \in Thread : pc'[u] = "fetch" => u = t
    BY <1>3 DEF Fetch, OwnedInv, FetchHoldsMutex
  <2>8. OwnedByMpi(mOutBuffers) + left[t] <= kMaxReferenceCount
    BY <1>3 DEF Fetch, OwnedInv, RoomLeft
  <2>9. RoomLeft' /\ OwnedAtMostMax'
    BY <2>2, <2>3, <2>7, <2>8, BuffersAssumption DEF RoomLeft, OwnedAtMostMax
  <2>10. QED
    BY <2>5, <2>6, <2>9 DEF OwnedInv
<1>4. ASSUME NEW t \in Thread, EnsureEnd(t) \/ FetchFails(t) PROVE OwnedInv'
  <2>1. TableOK' /\ BlockInHand' /\ mOutBuffers' = mOutBuffers
    <3>1. /\ mOutBuffers' = mOutBuffers /\ outblock' = outblock
          /\ surface' = surface /\ free' = free /\ shown' = shown
          /\ left' = [left EXCEPT ![t] = 0]
      BY <1>4 DEF EnsureEnd, FetchFails, Leave, decVars, clientVars
    <3>2. PICK place \in {"get", "idle"} : pc' = [pc EXCEPT ![t] = place]
      BY <1>4 DEF EnsureEnd, FetchFails, Goto
    <3>3. QED
      BY <1>0, <3>1, <3>2 DEF TableOK, BlockInHand, Place
  <2>2. \A u \in Thread : pc'[u] = "fetch" =>
           pc[u] = "fetch" /\ left'[u] = left[u] /\ mPoolMutex' = mPoolMutex
    BY <1>0, <1>4
       DEF EnsureEnd, FetchFails, Leave, Goto, TableOK, OwnedInv, FetchHoldsMutex
  <2>3. OwnedByMpi(mOutBuffers') <= OwnedByMpi(mOutBuffers)
    BY <1>0, <2>1, OwnedNat DEF TableOK
  <2>4. QED
    BY <2>1, <2>2, <2>3, QuietStep
<1>5. ASSUME NEW t \in Thread, TakeBlock(t) PROVE OwnedInv'
  <2> DEFINE e == mOutBuffers[Found(t)]
  <2>1. DOMAIN mOutBuffers = 1 .. Len(mOutBuffers) /\ Len(mOutBuffers) \in Nat
    BY <1>0, LenProperties DEF TableOK
  <2>2. Found(t) \in DOMAIN mOutBuffers
    BY <1>5, <2>1, FirstPlace DEF TakeBlock, Found, FindBuffer
  <2>3. e \in OutBuffer
    BY <1>0, <2>1, <2>2, ElementOfSeq DEF TableOK
  <2>4. /\ mOutBuffers' \in Seq(OutBuffer)
        /\ OwnedByMpi(mOutBuffers') <= OwnedByMpi(mOutBuffers)
    <3>1. mOutBuffers' = [mOutBuffers EXCEPT ![Found(t)].site = "C2"]
      BY <1>5 DEF TakeBlock
    <3>2. /\ mOutBuffers' \in Seq(OutBuffer)
          /\ OwnedByMpi(mOutBuffers') <= OwnedByMpi(mOutBuffers) + 0
      BY <1>0, <2>2, <3>1, OwnedChange DEF TableOK
    <3>3. QED
      BY <1>0, <3>2, OwnedNat DEF TableOK
  <2>5. [slot |-> e.index, generation |-> e.generation] \in Block
    BY <2>3 DEF OutBuffer, Block
  <2>6. TableOK' /\ BlockInHand'
    BY <1>0, <1>5, <2>4, <2>5
       DEF TakeBlock, Goto, Place, TableOK, BlockInHand, clientVars
  <2>7. \A u \in Thread : pc'[u] = "fetch" =>
           pc[u] = "fetch" /\ left'[u] = left[u] /\ mPoolMutex' = mPoolMutex
    BY <1>0, <1>5 DEF TakeBlock, Goto, TableOK
  <2>8. QED
    BY <2>4, <2>6, <2>7, QuietStep
<1>6. ASSUME NEW t \in Thread, FinishWork(t) PROVE OwnedInv'
  <2>1. outblock[t] \in Block
    BY <1>0, <1>6 DEF FinishWork, BlockInHand
  <2>2. TableOK' /\ BlockInHand'
    BY <1>0, <1>6, <2>1 DEF FinishWork, Goto, Place, TableOK, BlockInHand, decVars
  <2>3. OwnedByMpi(mOutBuffers') <= OwnedByMpi(mOutBuffers)
    BY <1>0, <1>6, OwnedNat DEF FinishWork, TableOK, decVars
  <2>4. \A u \in Thread : pc'[u] = "fetch" =>
           pc[u] = "fetch" /\ left'[u] = left[u] /\ mPoolMutex' = mPoolMutex
    BY <1>0, <1>6 DEF FinishWork, Goto, TableOK
  <2>5. QED
    BY <2>2, <2>3, <2>4, QuietStep
<1>7. ASSUME NEW t \in Thread,
             InfoChangeClear(t) \/ (t = Looper /\ FlushClear)
      PROVE  OwnedInv'
  <2>1. /\ mOutBuffers' \in Seq(OutBuffer) /\ free' \subseteq Slot
        /\ OwnedByMpi(mOutBuffers') <= OwnedByMpi(mOutBuffers)
    BY <1>7, ClearKeeps DEF InfoChangeClear, FlushClear
  <2>2. TableOK' /\ BlockInHand'
    BY <1>0, <1>7, <2>1
       DEF InfoChangeClear, FlushClear, Goto, Place, TableOK, BlockInHand
  <2>3. \A u \in Thread : pc'[u] = "fetch" =>
           pc[u] = "fetch" /\ left'[u] = left[u] /\ mPoolMutex' = mPoolMutex
    BY <1>0, <1>7 DEF InfoChangeClear, FlushClear, Goto, TableOK
  <2>4. QED
    BY <2>1, <2>2, <2>3, QuietStep
<1>8. CASE FlushGroup \/ FlushReset
  BY <1>0, <1>8, OtherStep
     DEF FlushGroup, FlushReset, Goto, Place, TableOK, decVars, clientVars
<1>9. CASE MppDecode \/ MppRelease \/ MppInfoChange
  BY <1>0, <1>9, OtherStep
     DEF MppDecode, MppRelease, MppInfoChange, TableOK, decVars, threadVars,
         clientVars
<1>10. CASE ClientReturns \/ NewSurface
  <2>1. /\ surface' \in Generation /\ free' \subseteq Slot
        /\ shown' \subseteq Block
    BY <1>0, <1>10, BuffersAssumption
       DEF ClientReturns, NewSurface, TableOK, Generation, Block
  <2>2. QED
    BY <1>0, <1>10, <2>1, OtherStep
       DEF ClientReturns, NewSurface, TableOK, decVars, threadVars
<1>11. CASE UNCHANGED vars
  BY <1>0, <1>11, OtherStep
     DEF vars, decVars, threadVars, clientVars, TableOK
<1>12. QED
  BY <1>1, <1>2, <1>3, <1>4, <1>5, <1>6, <1>7, <1>8, <1>9, <1>10, <1>11
     DEF Next, ThreadNext, InCall, FlushNext, EnvironmentNext, Thread

-----------------------------------------------------------------------------
\* The invariant holds in every state of every behaviour.
THEOREM OwnedInvHolds == Spec => []OwnedInv
  BY OwnedInit, OwnedStep, PTL DEF Spec

\* MPP never has more than kMaxReferenceCount of our blocks, whoever drains
\* beside the looper, each use of the table being one step: the unsigned count in
\* ensureDecoderState never wraps.
THEOREM OwnedAtMostMaxHolds == Spec => []OwnedAtMostMax
<1>1. OwnedInv => OwnedAtMostMax
  BY DEF OwnedInv
<1>2. QED
  BY <1>1, OwnedInvHolds, PTL

-----------------------------------------------------------------------------
(***************************************************************************)
(* Sequences of buffers.                                                   *)
(***************************************************************************)

\* No buffer is in the sequence twice.
Distinct(s) == \A i, j \in DOMAIN s : s[i] \in Buf /\ s[i] = s[j] => i = j

\* What is appended is the only new element.
LEMMA AppendElements ==
    ASSUME NEW S, NEW s \in Seq(S), NEW e \in S
    PROVE  /\ Append(s, e) \in Seq(S)
           /\ Elements(Append(s, e)) = Elements(s) \cup {e}
           /\ Distinct(s) /\ e \notin Buf \cap Elements(s) => Distinct(Append(s, e))
           /\ Len(Append(s, e)) = Len(s) + 1 /\ Append(s, e)[Len(s) + 1] = e
           /\ \A i \in DOMAIN s : i \in DOMAIN Append(s, e) /\ Append(s, e)[i] = s[i]
           /\ \A i \in DOMAIN Append(s, e) : i \in DOMAIN s \/ i = Len(s) + 1
<1> DEFINE r == Append(s, e)
<1>1. /\ r \in Seq(S) /\ Len(r) = Len(s) + 1 /\ Len(s) \in Nat
      /\ \A i \in 1 .. Len(s) : r[i] = s[i]
      /\ r[Len(s) + 1] = e
  BY AppendProperties, LenProperties
<1>2. DOMAIN s = 1 .. Len(s) /\ DOMAIN r = 1 .. Len(s) + 1
  BY <1>1, LenProperties
<1> HIDE DEF r
<1>3. \A i \in DOMAIN r : \/ i \in DOMAIN s /\ r[i] = s[i]
                          \/ i = Len(s) + 1 /\ r[i] = e
  BY <1>1, <1>2
<1>4. \A i \in DOMAIN s : i \in DOMAIN r /\ r[i] = s[i]
  BY <1>1, <1>2
<1>5. Len(s) + 1 \in DOMAIN r
  BY <1>1, <1>2
<1>6. Elements(r) = Elements(s) \cup {e}
  BY <1>1, <1>3, <1>4, <1>5 DEF Elements
<1>7. Distinct(s) /\ e \notin Buf \cap Elements(s) => Distinct(r)
  BY <1>3 DEF Distinct, Elements
<1>8. QED
  BY <1>1, <1>3, <1>4, <1>6, <1>7 DEF r

\* The head is the only one to leave.
LEMMA TailElements ==
    ASSUME NEW S, NEW s \in Seq(S), s # <<>>
    PROVE  /\ Tail(s) \in Seq(S) /\ Head(s) \in S
           /\ Elements(s) = {Head(s)} \cup Elements(Tail(s))
           /\ Distinct(s) => /\ Distinct(Tail(s))
                             /\ Head(s) \in Buf => Head(s) \notin Elements(Tail(s))
           /\ DOMAIN Tail(s) = 1 .. Len(s) - 1 /\ DOMAIN s = 1 .. Len(s)
           /\ Len(s) \in Nat \ {0} /\ Len(Tail(s)) = Len(s) - 1
           /\ \A i \in 1 .. Len(s) - 1 : Tail(s)[i] = s[i + 1]
           /\ Head(s) = s[1]
<1> DEFINE r == Tail(s)
<1>1. /\ r \in Seq(S) /\ Head(s) \in S /\ Len(r) = Len(s) - 1
      /\ \A i \in 1 .. Len(r) : r[i] = s[i + 1]
      /\ Head(s) = s[1]
  BY HeadTailProperties
<1>2. /\ Len(s) \in Nat /\ Len(s) # 0 /\ DOMAIN s = 1 .. Len(s)
  BY LenProperties, EmptySeq
<1>3. DOMAIN r = 1 .. Len(s) - 1
  BY <1>1, LenProperties
<1> HIDE DEF r
<1>4. \A i \in DOMAIN r : i + 1 \in DOMAIN s /\ r[i] = s[i + 1] /\ i + 1 # 1
  BY <1>1, <1>2, <1>3
<1>5. \A i \in DOMAIN s : i = 1 \/ (i - 1 \in DOMAIN r /\ r[i - 1] = s[i])
  BY <1>1, <1>2, <1>3
<1>6. 1 \in DOMAIN s
  BY <1>2
<1>7. Elements(s) = {s[1]} \cup Elements(r)
  BY <1>4, <1>5, <1>6 DEF Elements
<1>8. Distinct(s) => Distinct(r)
  BY <1>2, <1>3, <1>4 DEF Distinct
<1>9. Distinct(s) /\ s[1] \in Buf => s[1] \notin Elements(r)
  BY <1>4, <1>6 DEF Distinct, Elements
<1>10. QED
  BY <1>1, <1>2, <1>3, <1>7, <1>8, <1>9 DEF r

\* The elements of two sequences, one after the other.
LEMMA ConcatElements ==
    ASSUME NEW S, NEW s \in Seq(S), NEW r \in Seq(S)
    PROVE  /\ s \o r \in Seq(S)
           /\ Elements(s \o r) = Elements(s) \cup Elements(r)
           /\ Distinct(s) /\ Distinct(r) /\ Elements(s) \cap Elements(r) = {}
                => Distinct(s \o r)
<1> DEFINE q == s \o r
<1>1. /\ q \in Seq(S) /\ Len(q) = Len(s) + Len(r)
      /\ \A i \in 1 .. Len(s) + Len(r) :
            q[i] = IF i <= Len(s) THEN s[i] ELSE r[i - Len(s)]
  BY ConcatProperties
<1>2. /\ Len(s) \in Nat /\ Len(r) \in Nat
      /\ DOMAIN s = 1 .. Len(s) /\ DOMAIN r = 1 .. Len(r)
      /\ DOMAIN q = 1 .. Len(s) + Len(r)
  BY <1>1, LenProperties
<1> HIDE DEF q
<1>3. \A i \in DOMAIN q : \/ i \in DOMAIN s /\ q[i] = s[i]
                          \/ i - Len(s) \in DOMAIN r /\ q[i] = r[i - Len(s)]
  BY <1>1, <1>2
<1>4. \A i \in DOMAIN s : i \in DOMAIN q /\ q[i] = s[i]
  BY <1>1, <1>2
<1>5. \A i \in DOMAIN r : i + Len(s) \in DOMAIN q /\ q[i + Len(s)] = r[i]
  BY <1>1, <1>2
<1>6. Elements(q) = Elements(s) \cup Elements(r)
  BY <1>3, <1>4, <1>5 DEF Elements
<1>7. ASSUME Distinct(s), Distinct(r), Elements(s) \cap Elements(r) = {}
      PROVE  Distinct(q)
  <2>1. ASSUME NEW i \in DOMAIN q, NEW j \in DOMAIN q, q[i] \in Buf, q[i] = q[j]
        PROVE  i = j
    <3>1. CASE i \in DOMAIN s /\ q[i] = s[i] /\ j \in DOMAIN s /\ q[j] = s[j]
      BY <1>7, <2>1, <3>1 DEF Distinct
    <3>2. CASE /\ i - Len(s) \in DOMAIN r /\ q[i] = r[i - Len(s)]
               /\ j - Len(s) \in DOMAIN r /\ q[j] = r[j - Len(s)]
      <4>1. i - Len(s) = j - Len(s)
        BY <1>7, <2>1, <3>2 DEF Distinct
      <4>2. QED
        BY <1>2, <4>1
    <3>3. ~(q[i] \in Elements(s) /\ q[i] \in Elements(r))
      BY <1>7
    <3>4. QED
      BY <1>3, <2>1, <3>1, <3>2, <3>3 DEF Elements
  <2>2. QED
    BY <2>1 DEF Distinct
<1>8. QED
  BY <1>1, <1>6, <1>7 DEF q

-----------------------------------------------------------------------------
(***************************************************************************)
(* Types.                                                                  *)
(***************************************************************************)

\* MPP's group has finitely many buffers, for it gets them one by one.
MppTypes ==
    /\ ref \in [Buf -> Int]
    /\ group \subseteq Buf /\ IsFiniteSet(group)
    /\ unused \in Seq(Buf) /\ frames \in Seq(Buf \cup {Info})
    /\ held \subseteq Buf
    /\ memory \in [Buf -> Block \cup {None}]

OtherTypes ==
    /\ mGeneration \in Generation \cup {0}
    /\ mGenerationChange \in BOOLEAN /\ mGenerationCount \in Nat
    /\ mPoolMutex \in Thread \cup {NoOne}
    /\ frame \in [Thread -> Buf \cup {None}]
    /\ waiting \in BOOLEAN
    /\ current \subseteq shown
    /\ infos \in Nat /\ flushes \in Nat /\ keptOver \subseteq Buf

\* A thread has a frame, or a block, just where it uses it.
HandInv ==
    \A t \in Thread : /\ pc[t] = "find" <=> frame[t] # None
                      /\ pc[t] = "finish" <=> outblock[t] # None

TypeInv == OwnedInv /\ MppTypes /\ OtherTypes /\ HandInv

\* What s has at some places.
At(s, places) == {s[i] : i \in places}

\* What a put of the buffers at some places does.
LEMMA PutIs ==
    ASSUME MppTypes, NEW s, NEW places \in SUBSET Int, IsFiniteSet(places),
           \A i \in places : s[i] \in Buf, Put(s, places)
    PROVE  /\ ref' \in [Buf -> Int] /\ unused' \in Seq(Buf)
           /\ memory' \in [Buf -> Block \cup {None}]
           /\ \A b \in Buf : ref'[b] = IF b \in At(s, places) THEN ref[b] - 1 ELSE ref[b]
           /\ \A b \in Elements(unused') : \/ b \in Elements(unused)
                                           \/ /\ b \in At(s, places)
                                              /\ ref[b] = 1 /\ b \in group
           /\ \A b \in Buf : memory'[b] = IF ref'[b] <= 0 /\ b \notin group
                                          THEN None ELSE memory[b]
           /\ /\ Distinct(unused)
              /\ \A b \in Elements(unused) : ref[b] = 0
              /\ \A i, j \in places : s[i] = s[j] => i = j
              => Distinct(unused')
<1> DEFINE freed == {i \in places : ref[s[i]] = 1 /\ s[i] \in group}
<1>1. /\ IsFiniteSet(freed) /\ Cardinality(freed) \in Nat
  BY FS_Subset, FS_CardinalityType
<1>2. /\ ref' = [b \in Buf |-> IF b \in {s[i] : i \in places} THEN ref[b] - 1 ELSE ref[b]]
      /\ memory' = [b \in Buf |-> IF ref'[b] <= 0 /\ b \notin group THEN None ELSE memory[b]]
      /\ \E order \in [1 .. Cardinality(freed) -> freed] :
             /\ \A i, j \in DOMAIN order : i < j => order[i] < order[j]
             /\ unused' = unused \o [i \in DOMAIN order |-> s[order[i]]]
  BY DEF Put
<1>3. PICK order \in [1 .. Cardinality(freed) -> freed] :
             /\ \A i, j \in DOMAIN order : i < j => order[i] < order[j]
             /\ unused' = unused \o [i \in DOMAIN order |-> s[order[i]]]
  BY <1>2
<1> DEFINE r == [i \in DOMAIN order |-> s[order[i]]]
           n == Cardinality(freed)
<1>4. /\ freed \subseteq places
      /\ \A i \in freed : s[i] \in Buf /\ ref[s[i]] = 1 /\ s[i] \in group
  OBVIOUS
<1> HIDE DEF freed
<1>5. r \in [1 .. n -> Buf] /\ n \in Nat
  BY <1>1, <1>4
<1>6. r \in Seq(Buf)
  BY <1>5, IsASeq
<1>7. unused' \in Seq(Buf) /\ Elements(unused') = Elements(unused) \cup Elements(r)
  BY <1>3, <1>6, ConcatElements DEF MppTypes
<1>8. \A b \in Elements(r) : b \in At(s, places) /\ ref[b] = 1 /\ b \in group
  BY <1>4 DEF Elements, At
<1>9. ASSUME Distinct(unused), \A b \in Elements(unused) : ref[b] = 0,
             \A i, j \in places : s[i] = s[j] => i = j
      PROVE  Distinct(unused')
  <2>1. Elements(unused) \cap Elements(r) = {}
    BY <1>8, <1>9
  <2>2. \A i, j \in 1 .. n : order[i] = order[j] => i = j
    <3>1. \A i \in 1 .. n : order[i] \in Int /\ order[i] \in places
      BY <1>4
    <3>2. \A i, j \in 1 .. n : i < j => order[i] < order[j]
      BY <1>3
    <3>3. QED
      BY <1>5, <3>1, <3>2
  <2>3. Distinct(r)
    <3>1. \A i, j \in 1 .. n : s[order[i]] = s[order[j]] => order[i] = order[j]
      BY <1>4, <1>9
    <3>2. QED
      BY <2>2, <3>1 DEF Distinct
  <2>4. QED
    BY <1>3, <1>6, <2>1, <2>3, <1>9, ConcatElements DEF MppTypes
<1>10. /\ ref' \in [Buf -> Int] /\ memory' \in [Buf -> Block \cup {None}]
       /\ \A b \in Buf : ref'[b] = IF b \in At(s, places) THEN ref[b] - 1 ELSE ref[b]
       /\ \A b \in Buf : memory'[b] = IF ref'[b] <= 0 /\ b \notin group
                                      THEN None ELSE memory[b]
  BY <1>2 DEF MppTypes, At
<1>11. QED
  BY <1>7, <1>8, <1>9, <1>10

\* What a put of one buffer does.
LEMMA PutOneIs ==
    ASSUME MppTypes, NEW b \in Buf, PutOne(b)
    PROVE  /\ ref' \in [Buf -> Int] /\ unused' \in Seq(Buf)
           /\ memory' \in [Buf -> Block \cup {None}]
           /\ \A x \in Buf : ref'[x] = IF x = b THEN ref[x] - 1 ELSE ref[x]
           /\ \A x \in Elements(unused') : \/ x \in Elements(unused)
                                           \/ x = b /\ ref[b] = 1 /\ b \in group
           /\ \A x \in Buf : memory'[x] = IF ref'[x] <= 0 /\ x \notin group
                                          THEN None ELSE memory[x]
           /\ (Distinct(unused) /\ \A x \in Elements(unused) : ref[x] = 0)
              => Distinct(unused')
<1> DEFINE s == <<b>>
           places == {1}
<1>1. s[1] = b
  OBVIOUS
<1>2. Put(s, places)
  BY DEF PutOne
<1> HIDE DEF s
<1>0. IsFiniteSet(places)
  BY FS_Singleton
<1>3. /\ places \in SUBSET Int /\ IsFiniteSet(places)
      /\ \A i \in places : s[i] \in Buf
      /\ \A i, j \in places : s[i] = s[j] => i = j
  BY <1>1, <1>0
<1>4. \A x : x \in At(s, places) <=> x = b
  BY <1>1 DEF At
<1> HIDE DEF places
<1>5. /\ ref' \in [Buf -> Int] /\ unused' \in Seq(Buf)
      /\ memory' \in [Buf -> Block \cup {None}]
  BY <1>2, <1>3, PutIs
<1>6. \A x \in Buf : ref'[x] = IF x = b THEN ref[x] - 1 ELSE ref[x]
  <2>1. \A x \in Buf : ref'[x] = IF x \in At(s, places) THEN ref[x] - 1 ELSE ref[x]
    BY <1>2, <1>3, PutIs
  <2>2. QED
    BY <1>4, <2>1
<1>7. \A x \in Elements(unused') : \/ x \in Elements(unused)
                                   \/ x = b /\ ref[b] = 1 /\ b \in group
  <2> SUFFICES ASSUME NEW x \in Elements(unused'), x \notin Elements(unused)
               PROVE  x = b /\ ref[b] = 1 /\ b \in group
    OBVIOUS
  <2>1. x \in At(s, places) /\ ref[x] = 1 /\ x \in group
    BY <1>2, <1>3, PutIs
  <2>2. x = b
    BY <1>4, <2>1
  <2>3. QED
    BY <2>1, <2>2
<1>8. \A x \in Buf : memory'[x] = IF ref'[x] <= 0 /\ x \notin group
                                  THEN None ELSE memory[x]
  BY <1>2, <1>3, PutIs
<1>9. (Distinct(unused) /\ \A x \in Elements(unused) : ref[x] = 0) => Distinct(unused')
  BY <1>2, <1>3, PutIs
<1>10. QED
  BY <1>5, <1>6, <1>7, <1>8, <1>9

\* The entries of the table, and the buffers C2 has.
C2Sites(s) == {i \in DOMAIN s : s[i].site = "C2"}
C2Buffers(s) == {s[i].mppBuffer : i \in C2Sites(s)}

\* What the table holds.
LEMMA EntryTypes ==
    ASSUME NEW s \in Seq(OutBuffer)
    PROVE  /\ DOMAIN s = 1 .. Len(s) /\ Len(s) \in Nat /\ IsFiniteSet(DOMAIN s)
           /\ \A i \in DOMAIN s : s[i] \in OutBuffer
  BY LenProperties, ElementOfSeq, FS_Interval

\* What clearOutBuffers does.
LEMMA ClearIs ==
    ASSUME MppTypes, TableOK, ClearOutBuffers
    PROVE  /\ ref' \in [Buf -> Int] /\ unused' \in Seq(Buf)
           /\ memory' \in [Buf -> Block \cup {None}]
           /\ \A x \in Buf : ref'[x] = IF x \in C2Buffers(mOutBuffers) THEN ref[x] - 1
                                                                       ELSE ref[x]
           /\ \A x \in Elements(unused') : \/ x \in Elements(unused)
                                           \/ /\ x \in C2Buffers(mOutBuffers)
                                              /\ ref[x] = 1 /\ x \in group
           /\ \A x \in Buf : memory'[x] = IF ref'[x] <= 0 /\ x \notin group
                                          THEN None ELSE memory[x]
           /\ /\ Distinct(unused)
              /\ \A x \in Elements(unused) : ref[x] = 0
              /\ \A i, j \in C2Sites(mOutBuffers) :
                    mOutBuffers[i].mppBuffer = mOutBuffers[j].mppBuffer => i = j
              => Distinct(unused')
<1> DEFINE s == [i \in DOMAIN mOutBuffers |-> mOutBuffers[i].mppBuffer]
           places == PutOnClear(mOutBuffers)
<1>1. /\ DOMAIN mOutBuffers = 1 .. Len(mOutBuffers) /\ Len(mOutBuffers) \in Nat
      /\ IsFiniteSet(DOMAIN mOutBuffers)
      /\ \A i \in DOMAIN mOutBuffers : mOutBuffers[i] \in OutBuffer
  BY EntryTypes DEF TableOK
<1>2. places = C2Sites(mOutBuffers) /\ places \subseteq DOMAIN mOutBuffers
  BY <1>1 DEF PutOnClear, C2Sites, OutBuffer
<1>3. /\ places \in SUBSET Int /\ IsFiniteSet(places)
      /\ \A i \in places : s[i] = mOutBuffers[i].mppBuffer /\ s[i] \in Buf
  BY <1>1, <1>2, FS_Subset DEF OutBuffer
<1>4. At(s, places) = C2Buffers(mOutBuffers)
  BY <1>2, <1>3 DEF C2Buffers, At
<1>5. Put(s, places)
  BY DEF ClearOutBuffers
<1> HIDE DEF s, places
<1>6. (\A i, j \in C2Sites(mOutBuffers) :
          mOutBuffers[i].mppBuffer = mOutBuffers[j].mppBuffer => i = j)
        => \A i, j \in places : s[i] = s[j] => i = j
  BY <1>2, <1>3
<1>7. QED
  BY <1>3, <1>4, <1>5, <1>6, PutIs

-----------------------------------------------------------------------------
(***************************************************************************)
(* What commitBufferToMpp does.                                            *)
(***************************************************************************)

\* The entries of r are the last ones of s.
Suffix(r, s) ==
    \E k \in Nat : \A i \in DOMAIN r : i + k \in DOMAIN s /\ r[i] = s[i + k]

\* clearOldGenerationOutBuffers keeps the last entries.
LEMMA ClearOldIsSuffix ==
    ASSUME NEW s \in Seq(OutBuffer), NEW generation
    PROVE  Suffix(ClearOldGeneration(s, generation), s)
<1> DEFINE i == First({j \in DOMAIN s : s[j].generation = generation})
           r == SubSeq(s, i, Len(s))
<1>1. CASE i = 0
  BY <1>1 DEF ClearOldGeneration, Suffix
<1>2. CASE i # 0
  <2>1. i \in 1 .. Len(s) /\ Len(s) \in Nat /\ DOMAIN s = 1 .. Len(s)
    BY <1>2, FirstPlace, LenProperties
  <2>2. ClearOldGeneration(s, generation) = r
    BY <1>2 DEF ClearOldGeneration
  <2> HIDE DEF i
  <2>3. \A j \in i .. Len(s) : s[j] \in OutBuffer
    BY <2>1, ElementOfSeq
  <2>4. /\ Len(r) = Len(s) - i + 1 /\ r \in Seq(OutBuffer)
        /\ \A j \in 1 .. Len(s) - i + 1 : r[j] = s[i + j - 1]
    BY <2>1, <2>3, SubSeqProperties
  <2>5. DOMAIN r = 1 .. Len(s) - i + 1
    BY <2>4, LenProperties
  <2>6. i - 1 \in Nat /\ \A j \in DOMAIN r : j + (i - 1) \in DOMAIN s /\ r[j] = s[j + (i - 1)]
    BY <2>1, <2>4, <2>5
  <2>7. QED
    BY <2>2, <2>6 DEF Suffix
<1>3. QED
  BY <1>1, <1>2

\* Nothing dropped is a suffix too.
LEMMA WholeIsSuffix == ASSUME NEW s \in Seq(OutBuffer) PROVE Suffix(s, s)
<1>1. \A i \in DOMAIN s : i \in Nat
  BY LenProperties
<1>2. QED
  BY <1>1 DEF Suffix

\* The block comes again: its entry goes to MPP and C2's reference is put.
Again(s, i, slot) ==
    /\ i \in DOMAIN s /\ s[i].index = slot /\ s[i].generation = surface
    /\ mOutBuffers' = [s EXCEPT ![i].site = "MPI"]
    /\ PutOne(s[i].mppBuffer) /\ group' = group

\* The block is new: a buffer without references or memory gets it.
Fresh(s, b, slot) ==
    /\ memory[b] = None /\ ref[b] = 0
    /\ mOutBuffers' = Append(s, [index |-> slot, generation |-> surface,
                                 mppBuffer |-> b, site |-> "MPI"])
    /\ group' = group \cup {b} /\ unused' = Append(unused, b)
    /\ memory' = [memory EXCEPT ![b] = [slot |-> slot, generation |-> surface]]
    /\ ref' = ref

\* What clearOldGenerationOutBuffers leaves of the table, if it is called.
Cleared(s) ==
    \/ s = mOutBuffers
    \/ /\ s = ClearOldGeneration(mOutBuffers, surface)
       /\ mGenerationCount' > kMaxGegerationClearCount

\* A commit is one or the other, on what is left of the table.
LEMMA CommitIs ==
    ASSUME TypeInv, NEW slot \in Slot, Commit(slot)
    PROVE  \E s \in Seq(OutBuffer) :
              /\ Suffix(s, mOutBuffers)
              /\ Cleared(s)
              /\ ~mGenerationChange /\ mGeneration \in {0, surface} =>
                   s = mOutBuffers /\ ~mGenerationChange'
              /\ \/ \E i \in DOMAIN s : Again(s, i, slot)
                 \/ /\ \E b \in Buf : Fresh(s, b, slot)
                    /\ ~SameGeneration(s, FindIndex(s, slot))
<1> DEFINE change == mGenerationChange \/ mGeneration \notin {0, surface}
<1>1. PICK s \in {mOutBuffers, ClearOldGeneration(mOutBuffers, surface)} :
        /\ Cleared(s)
        /\ ~change => s = mOutBuffers /\ ~mGenerationChange'
        /\ \/ SameGeneration(s, FindIndex(s, slot)) /\ CommitAgain(s, FindIndex(s, slot))
           \/ ~SameGeneration(s, FindIndex(s, slot)) /\ Import(s, slot)
  BY DEF Commit, MayClearOld, Cleared
<1>2. /\ s \in Seq(OutBuffer) /\ Suffix(s, mOutBuffers)
  BY OwnedClearOld, ClearOldIsSuffix, WholeIsSuffix DEF TypeInv, OwnedInv, TableOK
<1> DEFINE i == FindIndex(s, slot)
<1>3. CASE SameGeneration(s, i) /\ CommitAgain(s, i)
  <2>1. i \in DOMAIN s /\ s[i].index = slot
    <3>1. {j \in DOMAIN s : s[j].index = slot} \in SUBSET Nat
      BY <1>2, LenProperties
    <3>2. QED
      BY <1>3, <3>1, FirstPlace DEF SameGeneration, FindIndex
  <2>2. Again(s, i, slot)
    BY <1>3, <2>1 DEF Again, SameGeneration, CommitAgain
  <2>3. QED
    BY <1>1, <1>2, <2>1, <2>2
<1>4. CASE ~SameGeneration(s, i) /\ Import(s, slot)
  <2>1. \E b \in Buf : Fresh(s, b, slot)
    <3>1. PICK b \in {x \in Unborn : \A y \in Unborn : x <= y} :
        /\ mOutBuffers' = Append(s, [index |-> slot, generation |-> surface,
                                     mppBuffer |-> b, site |-> "MPI"])
        /\ group' = group \cup {b}
        /\ unused' = Append(unused, b)
        /\ memory' = [memory EXCEPT ![b] = [slot |-> slot,
                                            generation |-> surface]]
        /\ UNCHANGED ref
      BY <1>4 DEF Import
    <3>2. b \in Buf /\ memory[b] = None /\ ref[b] = 0
      BY DEF Unborn
    <3>3. QED
      BY <3>1, <3>2 DEF Fresh
  <2>2. QED
    BY <1>1, <1>2, <1>4, <2>1
<1>5. QED
  BY <1>1, <1>3, <1>4

-----------------------------------------------------------------------------
(***************************************************************************)
(* The types are kept.                                                     *)
(***************************************************************************)

\* At the start.
LEMMA TypeInit == Init => TypeInv
<1> SUFFICES ASSUME Init PROVE TypeInv
  OBVIOUS
<1>1. MppTypes
  <2>1. IsFiniteSet({}) /\ <<>> \in Seq(Buf) /\ <<>> \in Seq(Buf \cup {Info})
    BY FS_EmptySet, EmptySeq
  <2>2. QED
    BY <2>1 DEF Init, MppTypes
<1>2. OtherTypes /\ HandInv
  BY DEF Init, OtherTypes, HandInv
<1>3. QED
  BY <1>1, <1>2, OwnedInit DEF TypeInv

\* What MPP keeps.
LEMMA MppTypesStep == TypeInv /\ [Next]_vars => MppTypes'
<1> SUFFICES ASSUME TypeInv, [Next]_vars PROVE MppTypes'
  OBVIOUS
<1>0. MppTypes /\ TableOK
  BY DEF TypeInv, OwnedInv
<1>1. CASE UNCHANGED mppVars
  BY <1>0, <1>1 DEF MppTypes, mppVars
<1>2. ASSUME NEW t \in Thread, Fetch(t) PROVE MppTypes'
  <2>1. PICK slot \in Slot : Commit(slot)
    BY <1>0, <1>2 DEF Fetch, TableOK
  <2>2. frames' = frames /\ held' = held
    BY <1>2 DEF Fetch
  <2>3. PICK s \in Seq(OutBuffer) : \/ \E i \in DOMAIN s : Again(s, i, slot)
                                    \/ \E b \in Buf : Fresh(s, b, slot)
    BY <2>1, CommitIs
  <2>4. ASSUME NEW i \in DOMAIN s, Again(s, i, slot) PROVE MppTypes'
    <3>1. s[i].mppBuffer \in Buf
      BY EntryTypes DEF OutBuffer
    <3>2. PutOne(s[i].mppBuffer) /\ group' = group
      BY <2>4 DEF Again
    <3>3. /\ ref' \in [Buf -> Int] /\ unused' \in Seq(Buf)
          /\ memory' \in [Buf -> Block \cup {None}]
      BY <1>0, <3>1, <3>2, PutOneIs
    <3>4. QED
      BY <1>0, <2>2, <3>2, <3>3 DEF MppTypes
  <2>5. ASSUME NEW b \in Buf, Fresh(s, b, slot) PROVE MppTypes'
    <3>1. IsFiniteSet(group') /\ group' \subseteq Buf
      BY <1>0, <2>5, FS_AddElement DEF MppTypes, Fresh
    <3>2. unused' \in Seq(Buf)
      BY <1>0, <2>5, AppendElements DEF MppTypes, Fresh
    <3>3. [slot |-> slot, generation |-> surface] \in Block
      BY <1>0 DEF TableOK, Block
    <3>4. QED
      BY <1>0, <2>2, <2>5, <3>1, <3>2, <3>3 DEF MppTypes, Fresh
  <2>6. QED
    BY <2>3, <2>4, <2>5
<1>3. ASSUME NEW t \in Thread, GetFrame(t) PROVE MppTypes'
  <2>1. frames' \in Seq(Buf \cup {Info})
    BY <1>0, <1>3, TailElements DEF GetFrame, MppTypes
  <2>2. QED
    BY <1>0, <1>3, <2>1 DEF GetFrame, MppTypes
<1>4. ASSUME NEW t \in Thread, DropFrame(t) PROVE MppTypes'
  <2>1. frame[t] \in Buf
    BY <1>4 DEF DropFrame, TypeInv, HandInv, OtherTypes
  <2>2. PutOne(frame[t]) /\ UNCHANGED <<group, frames, held>>
    BY <1>4 DEF DropFrame
  <2>3. QED
    BY <1>0, <2>1, <2>2, PutOneIs DEF MppTypes
<1>5. CASE ClearOutBuffers /\ UNCHANGED <<group, frames, held>>
  BY <1>0, <1>5, ClearIs DEF MppTypes
<1>6. CASE GroupClear /\ UNCHANGED <<ref, frames, held>>
  BY <1>0, <1>6, EmptySeq, FS_EmptySet DEF MppTypes, GroupClear
<1>7. CASE FlushReset
  <2> DEFINE Lost(b) == Cardinality({i \in DOMAIN frames : frames[i] = b})
                        + (IF b \in held THEN 1 ELSE 0)
             freed == {b \in group : ref[b] > 0 /\ ref'[b] = 0}
  <2>1. \A b \in Buf : Cardinality({i \in DOMAIN frames : frames[i] = b}) \in Nat
    <3>1. IsFiniteSet(DOMAIN frames)
      BY <1>0, LenProperties, FS_Interval DEF MppTypes
    <3>2. QED
      BY <3>1, FS_Subset, FS_CardinalityType
  <2>2. \A b \in Buf : Lost(b) \in Nat
    BY <2>1
  <2>3. ref' = [b \in Buf |-> ref[b] - Lost(b)]
    BY <1>7 DEF FlushReset
  <2>4. ref' \in [Buf -> Int]
    <3> HIDE DEF Lost
    <3>1. QED
      BY <1>0, <2>2, <2>3 DEF MppTypes
  <2>5. Cardinality(freed) \in Nat /\ freed \subseteq Buf
    BY <1>0, FS_Subset, FS_CardinalityType DEF MppTypes
  <2>6. PICK order \in [1 .. Cardinality(freed) -> freed] : unused' = unused \o order
    BY <1>7 DEF FlushReset
  <2>7. order \in Seq(Buf)
    <3>1. order \in [1 .. Cardinality(freed) -> Buf]
      BY <2>5, <2>6
    <3> HIDE DEF freed
    <3>2. QED
      BY <2>5, <3>1, SeqDef
  <2>8. unused' \in Seq(Buf)
    BY <1>0, <2>6, <2>7, ConcatElements DEF MppTypes
  <2>9. /\ memory' = [b \in Buf |-> IF ref'[b] = 0 /\ b \notin group THEN None
                                                               ELSE memory[b]]
        /\ frames' = <<>> /\ held' = {} /\ group' = group
    BY <1>7 DEF FlushReset
  <2>10. memory' \in [Buf -> Block \cup {None}] /\ frames' \in Seq(Buf \cup {Info})
    BY <1>0, <2>9, EmptySeq DEF MppTypes
  <2>11. QED
    BY <1>0, <2>4, <2>8, <2>9, <2>10 DEF MppTypes
<1>8. CASE MppDecode
  <2>1. /\ Head(unused) \in Buf /\ unused' \in Seq(Buf)
        /\ UNCHANGED <<group, memory>>
    BY <1>0, <1>8, TailElements DEF MppDecode, MppTypes
  <2>2. frames' = Append(frames, Head(unused))
    BY <1>8 DEF MppDecode
  <2>3. frames' \in Seq(Buf \cup {Info})
    BY <1>0, <2>1, <2>2, AppendElements DEF MppTypes
  <2>4. ref' \in [Buf -> Int] /\ held' \subseteq Buf
    BY <1>0, <1>8, <2>1 DEF MppDecode, MppTypes
  <2>5. QED
    BY <1>0, <2>1, <2>3, <2>4 DEF MppTypes
<1>9. CASE MppRelease
  <2>1. PICK b \in held : held' = held \ {b} /\ PutOne(b)
    BY <1>9 DEF MppRelease
  <2>2. UNCHANGED <<group, frames>>
    BY <1>9 DEF MppRelease
  <2>3. QED
    BY <1>0, <2>1, <2>2, PutOneIs DEF MppTypes
<1>10. CASE MppInfoChange
  <2>1. frames' = Append(frames, Info)
    BY <1>10 DEF MppInfoChange
  <2>2. frames' \in Seq(Buf \cup {Info})
    BY <1>0, <2>1, AppendElements DEF MppTypes
  <2>3. QED
    BY <1>0, <1>10, <2>2 DEF MppInfoChange, MppTypes
<1>11. ASSUME NEW t \in Thread,
              \/ Begin(t) \/ EnsureBegin(t) \/ EnsureEnd(t) \/ FetchFails(t)
              \/ NoFrame(t) \/ TakeBlock(t) \/ FinishWork(t)
       PROVE  UNCHANGED mppVars
  BY <1>11 DEF Begin, EnsureBegin, EnsureEnd, FetchFails, NoFrame, TakeBlock,
               FinishWork, Leave
<1>12. CASE \/ ClientReturns \/ NewSurface \/ UNCHANGED vars
  BY <1>1, <1>12 DEF ClientReturns, NewSurface, vars
<1>13. ASSUME NEW t \in Thread, InfoChangeClear(t) PROVE MppTypes'
  BY <1>5, <1>13 DEF InfoChangeClear
<1>14. ASSUME NEW t \in Thread, InfoChangeReady(t) PROVE MppTypes'
  BY <1>6, <1>14 DEF InfoChangeReady
<1>15. CASE FlushClear \/ FlushGroup
  BY <1>5, <1>6, <1>15 DEF FlushClear, FlushGroup
<1>16. QED
  BY <1>1, <1>2, <1>3, <1>4, <1>7, <1>8, <1>9, <1>10, <1>11, <1>12, <1>13, <1>14, <1>15
     DEF Next, ThreadNext, InCall, FlushNext, EnvironmentNext

\* What the threads and the client keep, but for the table.
LEMMA OtherTypesStep == TypeInv /\ [Next]_vars => OtherTypes' /\ HandInv'
<1> SUFFICES ASSUME TypeInv, [Next]_vars PROVE OtherTypes' /\ HandInv'
  OBVIOUS
<1>0. TableOK /\ MppTypes /\ OtherTypes /\ HandInv
  BY DEF TypeInv, OwnedInv
<1>1. \A b \in Buf : b # None
  BY BuffersAssumption
<1>2. \A k \in Block : k # None
  BY BuffersAssumption
<1>3. ASSUME NEW t \in Thread,
             \/ Begin(t) \/ EnsureBegin(t) \/ EnsureEnd(t) \/ FetchFails(t)
             \/ NoFrame(t) \/ InfoChangeClear(t) \/ InfoChangeReady(t)
      PROVE  OtherTypes' /\ HandInv'
  <2>1. /\ UNCHANGED <<mGeneration, mGenerationChange, mGenerationCount, frame, outblock,
                       shown, current, history>>
        /\ waiting' = waiting \/ waiting' = FALSE
        /\ mPoolMutex' \in {mPoolMutex, t, NoOne}
    BY <1>3 DEF Begin, EnsureBegin, EnsureEnd, FetchFails, NoFrame, InfoChangeClear,
                InfoChangeReady, Leave, decVars, mppVars, clientVars
  <2>2. OtherTypes'
    BY <1>0, <2>1 DEF OtherTypes, decVars, history
  <2>3. PICK place \in {"idle", "ensure", "fetch", "get", "ready"} :
           pc' = [pc EXCEPT ![t] = place]
    BY <1>3 DEF Begin, EnsureBegin, EnsureEnd, FetchFails, NoFrame, InfoChangeClear,
                InfoChangeReady, Goto
  <2>4. pc[t] \notin {"find", "finish"}
    BY <1>3 DEF Begin, EnsureBegin, EnsureEnd, FetchFails, NoFrame, InfoChangeClear,
                InfoChangeReady, Idle
  <2>5. frame' = frame /\ outblock' = outblock
    BY <2>1
  <2>6. HandInv'
    BY <1>0, <2>3, <2>4, <2>5 DEF HandInv, TableOK
  <2>7. QED
    BY <2>2, <2>6
<1>4. ASSUME NEW t \in Thread, Fetch(t) PROVE OtherTypes' /\ HandInv'
  <2>1. PICK slot : Commit(slot)
    BY <1>4 DEF Fetch
  <2>2. /\ mGeneration' = surface /\ mGenerationChange' \in BOOLEAN
        /\ mGenerationCount' \in Nat
    BY <1>0, <2>1 DEF Commit, OtherTypes
  <2>3. keptOver' \subseteq Buf
    BY <1>0, <1>4 DEF Fetch, OtherTypes, MppTypes
  <2>4. UNCHANGED <<mPoolMutex, frame, outblock, pc, waiting, shown, current, infos, flushes>>
    BY <1>4 DEF Fetch
  <2>5. QED
    BY <1>0, <2>2, <2>3, <2>4 DEF OtherTypes, HandInv, TableOK
<1>5. ASSUME NEW t \in Thread, GetFrame(t) PROVE OtherTypes' /\ HandInv'
  <2>1. Head(frames) \in Buf \cup {Info}
    BY <1>0, <1>5, TailElements DEF GetFrame, MppTypes
  <2>2. pc[t] = "get" /\ outblock' = outblock
    BY <1>5 DEF GetFrame
  <2>3. \/ /\ pc' = [pc EXCEPT ![t] = "clear"] /\ frame' = frame
        \/ /\ pc' = [pc EXCEPT ![t] = "find"] /\ Head(frames) \in Buf
           /\ frame' = [frame EXCEPT ![t] = Head(frames)]
    BY <1>5, <2>1 DEF GetFrame, Goto
  <2>4. UNCHANGED <<decVars, mPoolMutex, waiting, clientVars, history>>
    BY <1>5 DEF GetFrame
  <2>5. OtherTypes'
    BY <1>0, <2>3, <2>4 DEF OtherTypes, decVars, clientVars, history
  <2>6. HandInv'
    BY <1>0, <1>1, <2>2, <2>3 DEF HandInv, TableOK, OtherTypes
  <2>7. QED
    BY <2>5, <2>6
<1>6. ASSUME NEW t \in Thread, TakeBlock(t) PROVE OtherTypes' /\ HandInv'
  <2> DEFINE e == mOutBuffers[Found(t)]
             k == [slot |-> e.index, generation |-> e.generation]
  <2>1. Found(t) \in DOMAIN mOutBuffers
    <3>1. DOMAIN mOutBuffers \subseteq Nat
      BY <1>0, LenProperties DEF TableOK
    <3>2. QED
      BY <1>6, <3>1, FirstPlace DEF TakeBlock, Found, FindBuffer
  <2>2. e \in OutBuffer
    BY <1>0, <2>1, EntryTypes DEF TableOK
  <2>3. k \in Block
    BY <2>2 DEF OutBuffer, Block
  <2>4. /\ pc[t] = "find" /\ pc' = [pc EXCEPT ![t] = "finish"]
        /\ outblock' = [outblock EXCEPT ![t] = k] /\ frame' = [frame EXCEPT ![t] = None]
        /\ UNCHANGED <<mGeneration, mGenerationChange, mGenerationCount, mPoolMutex,
                       waiting, shown, current, history>>
    BY <1>6 DEF TakeBlock, Goto, mppVars, clientVars
  <2> HIDE DEF k, e
  <2>5. OtherTypes'
    BY <1>0, <2>4 DEF OtherTypes, history
  <2>6. HandInv'
    BY <1>0, <1>2, <2>3, <2>4 DEF HandInv, TableOK, OtherTypes
  <2>7. QED
    BY <2>5, <2>6
<1>7. ASSUME NEW t \in Thread, DropFrame(t) PROVE OtherTypes' /\ HandInv'
  <2>1. /\ pc[t] = "find" /\ pc' = [pc EXCEPT ![t] = "get"] /\ outblock' = outblock
        /\ frame' = [frame EXCEPT ![t] = None]
        /\ UNCHANGED <<decVars, mPoolMutex, waiting, shown, current, history>>
    BY <1>7 DEF DropFrame, Goto, clientVars
  <2>2. OtherTypes'
    BY <1>0, <2>1 DEF OtherTypes, decVars, history
  <2>3. HandInv'
    BY <1>0, <2>1 DEF HandInv, TableOK, OtherTypes
  <2>4. QED
    BY <2>2, <2>3
<1>8. ASSUME NEW t \in Thread, FinishWork(t) PROVE OtherTypes' /\ HandInv'
  <2>1. /\ pc[t] = "finish" /\ pc' = [pc EXCEPT ![t] = "ensure"] /\ frame' = frame
        /\ outblock' = [outblock EXCEPT ![t] = None]
        /\ shown' = shown \cup {outblock[t]} /\ current' = current \cup {outblock[t]}
        /\ UNCHANGED <<decVars, mPoolMutex, waiting, history>>
    BY <1>8 DEF FinishWork, Goto, mppVars
  <2>2. OtherTypes'
    BY <1>0, <2>1 DEF OtherTypes, decVars, history
  <2>3. HandInv'
    BY <1>0, <2>1 DEF HandInv, TableOK
  <2>4. QED
    BY <2>2, <2>3
<1>9. CASE FlushNext
  <2>1. /\ UNCHANGED <<mGenerationChange, mGenerationCount, mPoolMutex, frame, outblock,
                       shown, infos, keptOver>>
        /\ mGeneration' = mGeneration \/ mGeneration' = 0
        /\ waiting' = waiting \/ waiting' = FALSE
        /\ current' = current \/ current' = {}
        /\ flushes' = flushes \/ flushes' = flushes + 1
    BY <1>9 DEF FlushNext, FlushClear, FlushGroup, FlushReset, decVars, clientVars, history
  <2>2. waiting' \in BOOLEAN
    <3>1. waiting \in BOOLEAN
      BY <1>0 DEF OtherTypes
    <3>2. QED
      BY <2>1, <3>1, Zenon
  <2>3. OtherTypes'
    BY <1>0, <2>1, <2>2 DEF OtherTypes
  <2>4. PICK place \in {"idle", "flush group", "flush reset"} :
           pc' = [pc EXCEPT ![Looper] = place]
    BY <1>9 DEF FlushNext, FlushClear, FlushGroup, FlushReset, Goto
  <2>5. pc[Looper] \notin {"find", "finish"} /\ Looper \in Thread
    BY <1>9 DEF FlushNext, FlushClear, FlushGroup, FlushReset, Idle, Thread
  <2>6. HandInv'
    BY <1>0, <2>1, <2>4, <2>5 DEF HandInv, TableOK
  <2>7. QED
    BY <2>3, <2>6
<1>10. CASE EnvironmentNext
  <2>1. UNCHANGED <<decVars, mPoolMutex, threadVars, flushes, keptOver>>
    BY <1>10 DEF EnvironmentNext, MppDecode, MppRelease, MppInfoChange, ClientReturns,
                 NewSurface, history
  <2>2. /\ waiting' = waiting \/ waiting' = TRUE
        /\ infos' = infos \/ infos' = infos + 1
        /\ \/ shown' = shown /\ current' = current
           \/ \E k \in shown : shown' = shown \ {k} /\ current' = current \ {k}
    BY <1>10 DEF EnvironmentNext, MppDecode, MppRelease, MppInfoChange, ClientReturns,
                 NewSurface, history, mppVars, clientVars
  <2>3. current' \subseteq shown'
    BY <1>0, <2>2 DEF OtherTypes
  <2>4. infos' \in Nat /\ waiting' \in BOOLEAN
    <3>1. waiting \in BOOLEAN /\ infos \in Nat
      BY <1>0 DEF OtherTypes
    <3>2. waiting' \in BOOLEAN
      BY <2>2, <3>1, Zenon
    <3>3. QED
      BY <2>2, <3>1, <3>2
  <2>5. OtherTypes'
    BY <1>0, <2>1, <2>3, <2>4 DEF OtherTypes, threadVars, decVars
  <2>6. HandInv'
    BY <1>0, <2>1 DEF HandInv, threadVars
  <2>7. QED
    BY <2>5, <2>6
<1>11. CASE UNCHANGED vars
  BY <1>0, <1>11 DEF vars, decVars, threadVars, mppVars, clientVars, history, OtherTypes,
                     HandInv
<1>12. QED
  BY <1>3, <1>4, <1>5, <1>6, <1>7, <1>8, <1>9, <1>10, <1>11 DEF Next, ThreadNext, InCall

\* All of them.
LEMMA TypeStep == TypeInv /\ [Next]_vars => TypeInv'
  BY OwnedStep, MppTypesStep, OtherTypesStep DEF TypeInv

\* The types are those of TypeOK.
LEMMA TypesAre == TypeInv => TypeOK
  BY DEF TypeInv, OwnedInv, TableOK, MppTypes, OtherTypes, TypeOK, Place

-----------------------------------------------------------------------------
(***************************************************************************)
(* Who holds a buffer, and where a block is.                               *)
(***************************************************************************)

\* C2 has a buffer once.
C2Once(s) == \A i, j \in C2Sites(s) : s[i].mppBuffer = s[j].mppBuffer => i = j

InHand == {frame[t] : t \in Thread}

\* Those who hold a buffer, but for MPP's reference pictures, exclude each other.
HolderInv ==
    /\ Distinct(unused) /\ Distinct(frames) /\ C2Once(mOutBuffers)
    /\ \A t, u \in Thread : frame[t] # None /\ frame[t] = frame[u] => t = u
    /\ \A b \in Buf : /\ ~(b \in Elements(frames) /\ b \in InHand)
                      /\ ~(b \in Elements(frames) /\ b \in C2Buffers(mOutBuffers))
                      /\ ~(b \in InHand /\ b \in C2Buffers(mOutBuffers))

\* Each has a reference.  With one surface no entry is ever forgotten, and there
\* are no others.
Holders(b) ==
    (IF b \in Elements(frames) \/ b \in InHand \/ b \in C2Buffers(mOutBuffers)
     THEN 1 ELSE 0) + (IF b \in held THEN 1 ELSE 0)

RefInv ==
    \A b \in Buf : /\ ref[b] >= Holders(b)
                   /\ MaxSurface = 1 => ref[b] = Holders(b)

\* A buffer MPP may decode into has no reference and is one of the group's,
\* which have memory.
UnusedInv ==
    /\ \A b \in Elements(unused) : ref[b] = 0 /\ b \in group
    /\ \A b \in group : memory[b] # None

\* A block is at one place at a time: offered by the surface, with MPP, in hand,
\* or with the client.
BlockOf(e) == [slot |-> e.index, generation |-> e.generation]
Offered == {k \in Block : k.generation = surface /\ k.slot \in free}

TokenInv ==
    /\ \A i, j \in MpiSites(mOutBuffers) :
          BlockOf(mOutBuffers[i]) = BlockOf(mOutBuffers[j]) => i = j
    /\ \A i \in MpiSites(mOutBuffers) :
          /\ BlockOf(mOutBuffers[i]) \notin shown \cup Offered
          /\ \A t \in Thread : outblock[t] # BlockOf(mOutBuffers[i])
    /\ \A t, u \in Thread : outblock[t] # None /\ outblock[t] = outblock[u] => t = u
    /\ \A t \in Thread : outblock[t] \notin shown \cup Offered
    /\ shown \cap Offered = {}
    /\ \A i \in DOMAIN mOutBuffers : mOutBuffers[i].generation <= surface
    /\ \A k \in shown : k.generation <= surface
    /\ \A t \in Thread : outblock[t] # None => outblock[t].generation <= surface

\* With one surface the generation never changes.
OneInv == MaxSurface = 1 => ~mGenerationChange

HoldInv == TypeInv /\ HolderInv /\ RefInv /\ UnusedInv /\ TokenInv /\ OneInv

\* An entry is an entry of the longer table.
LEMMA SuffixIs ==
    ASSUME NEW s \in Seq(OutBuffer), NEW r \in Seq(OutBuffer), Suffix(r, s)
    PROVE  /\ \A i \in DOMAIN r : \E j \in DOMAIN s : r[i] = s[j]
           /\ C2Buffers(r) \subseteq C2Buffers(s)
           /\ C2Once(s) => C2Once(r)
           /\ (\A i, j \in MpiSites(s) : BlockOf(s[i]) = BlockOf(s[j]) => i = j)
              => \A i, j \in MpiSites(r) : BlockOf(r[i]) = BlockOf(r[j]) => i = j
<1>1. PICK k \in Nat : \A i \in DOMAIN r : i + k \in DOMAIN s /\ r[i] = s[i + k]
  BY DEF Suffix
<1>2. \A i, j \in DOMAIN r : i + k = j + k => i = j
  BY EntryTypes
<1>3. \A i \in C2Sites(r) : i + k \in C2Sites(s) /\ r[i] = s[i + k] /\ i \in DOMAIN r
  BY <1>1 DEF C2Sites
<1>4. \A i \in MpiSites(r) : i + k \in MpiSites(s) /\ r[i] = s[i + k] /\ i \in DOMAIN r
  BY <1>1 DEF MpiSites
<1>5. C2Buffers(r) \subseteq C2Buffers(s)
  BY <1>3 DEF C2Buffers
<1>6. C2Once(s) => C2Once(r)
  BY <1>2, <1>3 DEF C2Once
<1>7. QED
  BY <1>1, <1>2, <1>4, <1>5, <1>6

\* A new entry is MPP's.
LEMMA AppendIs ==
    ASSUME NEW s \in Seq(OutBuffer), NEW e \in OutBuffer, e.site = "MPI"
    PROVE  /\ Append(s, e) \in Seq(OutBuffer)
           /\ C2Buffers(Append(s, e)) = C2Buffers(s)
           /\ C2Once(s) => C2Once(Append(s, e))
           /\ \A i \in DOMAIN Append(s, e) : \/ i \in DOMAIN s /\ Append(s, e)[i] = s[i]
                                             \/ i = Len(s) + 1 /\ Append(s, e)[i] = e
<1> DEFINE r == Append(s, e)
<1>1. /\ r \in Seq(OutBuffer)
      /\ \A i \in DOMAIN s : i \in DOMAIN r /\ r[i] = s[i]
      /\ \A i \in DOMAIN r : \/ i \in DOMAIN s
                             \/ i = Len(s) + 1 /\ r[i] = e
  BY AppendElements
<1> HIDE DEF r
<1>2. C2Sites(r) = C2Sites(s) /\ \A i \in C2Sites(s) : r[i] = s[i]
  BY <1>1 DEF C2Sites
<1>3. C2Buffers(r) = C2Buffers(s)
  BY <1>2 DEF C2Buffers
<1>4. C2Once(s) => C2Once(r)
  BY <1>2 DEF C2Once
<1>5. QED
  BY <1>1, <1>3, <1>4 DEF r

\* An entry that changes sides.
LEMMA SiteIs ==
    ASSUME NEW s \in Seq(OutBuffer), NEW i \in DOMAIN s, NEW site \in {"MPI", "C2"},
           NEW r, r = [s EXCEPT ![i].site = site]
    PROVE  /\ r \in Seq(OutBuffer) /\ DOMAIN r = DOMAIN s
           /\ r[i].index = s[i].index /\ r[i].generation = s[i].generation
           /\ r[i].mppBuffer = s[i].mppBuffer /\ r[i].site = site
           /\ \A j \in DOMAIN s : j # i => r[j] = s[j]
<1>1. s[i] \in OutBuffer
  BY EntryTypes
<1>2. DOMAIN r = DOMAIN s /\ r[i] = [s[i] EXCEPT !.site = site]
      /\ \A j \in DOMAIN s : j # i => r[j] = s[j]
  BY EntryTypes
<1>3. r \in Seq(OutBuffer)
  BY OwnedChange
<1>4. QED
  BY <1>1, <1>2, <1>3 DEF OutBuffer

\* One that goes back to MPP.
LEMMA BackIs ==
    ASSUME NEW s \in Seq(OutBuffer), NEW i \in C2Sites(s), C2Once(s),
           NEW r, r = [s EXCEPT ![i].site = "MPI"]
    PROVE  /\ C2Buffers(r) = C2Buffers(s) \ {s[i].mppBuffer}
           /\ C2Once(r)
<1>1. i \in DOMAIN s
  BY DEF C2Sites
<1>2. /\ DOMAIN r = DOMAIN s /\ r[i].site = "MPI"
      /\ \A j \in DOMAIN s : j # i => r[j] = s[j]
  BY <1>1, SiteIs
<1>3. C2Sites(r) = C2Sites(s) \ {i} /\ \A j \in C2Sites(r) : r[j] = s[j]
  BY <1>2 DEF C2Sites
<1>4. \A j \in C2Sites(r) : r[j].mppBuffer # s[i].mppBuffer
  BY <1>3 DEF C2Once
<1> DEFINE x == s[i].mppBuffer
<1>5. C2Buffers(r) = C2Buffers(s) \ {x}
  <2>1. ASSUME NEW b \in C2Buffers(r) PROVE b \in C2Buffers(s) /\ b # x
    <3>1. PICK j \in C2Sites(r) : b = r[j].mppBuffer
      BY DEF C2Buffers
    <3>2. QED
      BY <1>3, <1>4, <3>1 DEF C2Buffers
  <2>2. ASSUME NEW b \in C2Buffers(s), b # x PROVE b \in C2Buffers(r)
    <3>1. PICK j \in C2Sites(s) : b = s[j].mppBuffer
      BY DEF C2Buffers
    <3>2. j \in C2Sites(r) /\ b = r[j].mppBuffer
      BY <1>3, <2>2, <3>1
    <3>3. QED
      BY <3>2 DEF C2Buffers
  <2>3. QED
    BY <2>1, <2>2
<1>6. C2Once(r)
  BY <1>3 DEF C2Once
<1>7. QED
  BY <1>5, <1>6

\* One that C2 takes.
LEMMA TakenIs ==
    ASSUME NEW s \in Seq(OutBuffer), NEW i \in DOMAIN s, C2Once(s),
           s[i].mppBuffer \notin C2Buffers(s),
           NEW r, r = [s EXCEPT ![i].site = "C2"]
    PROVE  /\ C2Buffers(r) = C2Buffers(s) \cup {s[i].mppBuffer}
           /\ C2Once(r)
<1>1. /\ DOMAIN r = DOMAIN s /\ r[i].site = "C2" /\ r[i].mppBuffer = s[i].mppBuffer
      /\ \A j \in DOMAIN s : j # i => r[j] = s[j]
  BY SiteIs
<1>2. /\ C2Sites(r) = C2Sites(s) \cup {i} /\ i \notin C2Sites(s)
      /\ \A j \in C2Sites(s) : r[j] = s[j]
  BY <1>1 DEF C2Sites, C2Buffers
<1>3. \A j \in C2Sites(s) : s[j].mppBuffer # s[i].mppBuffer
  BY DEF C2Buffers
<1> DEFINE x == s[i].mppBuffer
<1>4. C2Buffers(r) = C2Buffers(s) \cup {x}
  <2>1. ASSUME NEW b \in C2Buffers(r) PROVE b \in C2Buffers(s) \/ b = x
    <3>1. PICK j \in C2Sites(r) : b = r[j].mppBuffer
      BY DEF C2Buffers
    <3>2. QED
      BY <1>1, <1>2, <3>1 DEF C2Buffers
  <2>2. ASSUME NEW b \in C2Buffers(s) \cup {x} PROVE b \in C2Buffers(r)
    <3>1. CASE b = x
      <4>1. i \in C2Sites(r) /\ b = r[i].mppBuffer
        BY <1>1, <1>2, <3>1
      <4>2. QED
        BY <4>1 DEF C2Buffers
    <3>2. CASE b \in C2Buffers(s)
      <4>1. PICK j \in C2Sites(s) : b = s[j].mppBuffer
        BY <3>2 DEF C2Buffers
      <4>2. j \in C2Sites(r) /\ b = r[j].mppBuffer
        BY <1>2, <4>1
      <4>3. QED
        BY <4>2 DEF C2Buffers
    <3>3. QED
      BY <2>2, <3>1, <3>2
  <2>3. QED
    BY <2>1, <2>2
<1>5. C2Once(r)
  BY <1>1, <1>2, <1>3 DEF C2Once
<1>6. QED
  BY <1>4, <1>5

\* What getoutframe finds is with MPP, for a frame of it is in hand.
LEMMA FoundIs ==
    ASSUME HoldInv, NEW t \in Thread, TakeBlock(t)
    PROVE  /\ Found(t) \in MpiSites(mOutBuffers)
           /\ mOutBuffers[Found(t)] \in OutBuffer
           /\ mOutBuffers[Found(t)].mppBuffer = frame[t]
           /\ frame[t] \in Buf /\ frame[t] \in InHand
           /\ frame[t] \notin C2Buffers(mOutBuffers)
<1>0. TableOK /\ OtherTypes /\ HandInv /\ HolderInv
  BY DEF HoldInv, TypeInv, OwnedInv
<1>1. Found(t) \in DOMAIN mOutBuffers /\ mOutBuffers[Found(t)].mppBuffer = frame[t]
  <2>1. {j \in DOMAIN mOutBuffers : mOutBuffers[j].mppBuffer = frame[t]} \in SUBSET Nat
    BY <1>0, LenProperties DEF TableOK
  <2>2. QED
    BY <2>1, FirstPlace DEF TakeBlock, Found, FindBuffer
<1>2. mOutBuffers[Found(t)] \in OutBuffer
  BY <1>0, <1>1, EntryTypes DEF TableOK
<1>3. frame[t] \in Buf /\ frame[t] \in InHand
  BY <1>0 DEF TakeBlock, HandInv, OtherTypes, InHand
<1>4. frame[t] \notin C2Buffers(mOutBuffers)
  BY <1>0, <1>3 DEF HolderInv
<1>5. Found(t) \notin C2Sites(mOutBuffers)
  BY <1>1, <1>4 DEF C2Buffers
<1>6. QED
  BY <1>1, <1>2, <1>3, <1>4, <1>5 DEF C2Sites, MpiSites, OutBuffer

\* What commitBufferToMpp gives is a block C2 had, or a new one.
LEMMA FetchIs ==
    ASSUME HoldInv, NEW t \in Thread, Fetch(t)
    PROVE  \E slot \in free, s \in Seq(OutBuffer) :
              /\ free' = free \ {slot} /\ Suffix(s, mOutBuffers) /\ Cleared(s)
              /\ MaxSurface = 1 => s = mOutBuffers
              /\ MaxSurface = 1 => ~mGenerationChange'
              /\ \/ \E i \in C2Sites(s) : Again(s, i, slot)
                 \/ \E b \in Buf : Fresh(s, b, slot)
<1>0. TableOK /\ TokenInv /\ TypeInv
  BY DEF HoldInv, TypeInv, OwnedInv
<1>1. PICK slot \in free : free' = free \ {slot} /\ Commit(slot)
  BY DEF Fetch
<1>2. slot \in Slot
  BY <1>0 DEF TableOK
<1>3. PICK s \in Seq(OutBuffer) :
        /\ Suffix(s, mOutBuffers) /\ Cleared(s)
        /\ ~mGenerationChange /\ mGeneration \in {0, surface} =>
             s = mOutBuffers /\ ~mGenerationChange'
        /\ \/ \E i \in DOMAIN s : Again(s, i, slot)
           \/ \E b \in Buf : Fresh(s, b, slot)
  BY <1>0, <1>1, <1>2, CommitIs
<1>4. ASSUME NEW i \in DOMAIN s, Again(s, i, slot) PROVE i \in C2Sites(s)
  <2>1. PICK j \in DOMAIN mOutBuffers : s[i] = mOutBuffers[j]
    BY <1>0, <1>3, SuffixIs DEF TableOK
  <2>2. s[i] \in OutBuffer
    BY EntryTypes
  <2>3. BlockOf(mOutBuffers[j]) \in Offered
    BY <1>0, <1>2, <1>4, <2>1 DEF Again, BlockOf, Offered, Block, TableOK
  <2>4. j \notin MpiSites(mOutBuffers)
    BY <1>0, <2>3 DEF TokenInv
  <2>5. QED
    BY <2>1, <2>2, <2>4 DEF C2Sites, MpiSites, OutBuffer
<1>5. MaxSurface = 1 => ~mGenerationChange /\ mGeneration \in {0, surface}
  BY <1>0 DEF HoldInv, OneInv, TypeInv, OtherTypes, TableOK, Generation
<1>6. QED
  BY <1>1, <1>3, <1>4, <1>5

-----------------------------------------------------------------------------
\* The table r is s with a new entry at n, or one back there, for the block k.
OneMore(r, s, n, k) ==
    /\ n \in DOMAIN r /\ BlockOf(r[n]) = k
    /\ \A i \in DOMAIN r : i # n => i \in DOMAIN s /\ r[i] = s[i]

\* Every entry for MPP but the new one was one before.
LEMMA OneMoreIs ==
    ASSUME NEW r, NEW s, NEW n, NEW k, OneMore(r, s, n, k)
    PROVE  \A i \in MpiSites(r) : i # n => i \in MpiSites(s) /\ r[i] = s[i]
  BY DEF OneMore, MpiSites

\* A commit keeps a block at one place.
LEMMA TokensOfFetch ==
    ASSUME HoldInv, NEW t \in Thread, Fetch(t)
    PROVE  TokenInv'
<1>0. TableOK /\ TokenInv
  BY DEF HoldInv, TypeInv, OwnedInv
<1>1. PICK slot \in free, s \in Seq(OutBuffer) :
              /\ free' = free \ {slot} /\ Suffix(s, mOutBuffers)
              /\ \/ \E i \in C2Sites(s) : Again(s, i, slot)
                 \/ \E b \in Buf : Fresh(s, b, slot)
  BY FetchIs
<1> DEFINE k == [slot |-> slot, generation |-> surface]
<1>2. k \in Block /\ k \in Offered /\ slot \in Slot
  BY <1>0 DEF TableOK, Block, Offered
<1>3. UNCHANGED <<outblock, shown, surface>>
  BY <1>1 DEF Fetch
<1>4. Offered' = Offered \ {k}
  BY <1>1, <1>3 DEF Offered, Block
<1>5. /\ \A i, j \in MpiSites(s) : BlockOf(s[i]) = BlockOf(s[j]) => i = j
      /\ \A i \in MpiSites(s) :
            /\ BlockOf(s[i]) \notin shown \cup Offered
            /\ \A u \in Thread : outblock[u] # BlockOf(s[i])
      /\ \A i \in DOMAIN s : s[i].generation <= surface
  <2>1. \A i \in MpiSites(s) : \E j \in MpiSites(mOutBuffers) : s[i] = mOutBuffers[j]
    <3>1. ASSUME NEW i \in MpiSites(s)
          PROVE  \E j \in MpiSites(mOutBuffers) : s[i] = mOutBuffers[j]
      <4>1. i \in DOMAIN s /\ s[i].site = "MPI"
        BY DEF MpiSites
      <4>2. PICK j \in DOMAIN mOutBuffers : s[i] = mOutBuffers[j]
        BY <1>0, <1>1, <4>1, SuffixIs DEF TableOK
      <4>3. QED
        BY <4>1, <4>2 DEF MpiSites
    <3>2. QED
      BY <3>1
  <2>2. \A i \in MpiSites(s) : /\ BlockOf(s[i]) \notin shown \cup Offered
                               /\ \A u \in Thread : outblock[u] # BlockOf(s[i])
    BY <1>0, <2>1 DEF TokenInv
  <2>3. \A i, j \in MpiSites(s) : BlockOf(s[i]) = BlockOf(s[j]) => i = j
    BY <1>0, <1>1, SuffixIs DEF TableOK, TokenInv
  <2>4. \A i \in DOMAIN s : s[i].generation <= surface
    BY <1>0, <1>1, SuffixIs DEF TableOK, TokenInv
  <2>5. QED
    BY <2>2, <2>3, <2>4
<1>6. \E n : OneMore(mOutBuffers', s, n, k)
  <2>1. ASSUME NEW i \in C2Sites(s), Again(s, i, slot)
        PROVE  \E n : OneMore(mOutBuffers', s, n, k)
    <3>1. i \in DOMAIN s /\ mOutBuffers' = [s EXCEPT ![i].site = "MPI"]
      BY <2>1 DEF C2Sites, Again
    <3>2. /\ mOutBuffers' \in Seq(OutBuffer) /\ DOMAIN mOutBuffers' = DOMAIN s
          /\ mOutBuffers'[i].index = s[i].index
          /\ mOutBuffers'[i].generation = s[i].generation
          /\ \A j \in DOMAIN s : j # i => mOutBuffers'[j] = s[j]
      BY <3>1, SiteIs
    <3>3. BlockOf(mOutBuffers'[i]) = k
      BY <2>1, <3>2 DEF Again, BlockOf
    <3>4. QED
      BY <3>1, <3>2, <3>3 DEF OneMore
  <2>2. ASSUME NEW b \in Buf, Fresh(s, b, slot) PROVE  \E n : OneMore(mOutBuffers', s, n, k)
    <3> DEFINE e == [index |-> slot, generation |-> surface, mppBuffer |-> b, site |-> "MPI"]
    <3>1. e \in OutBuffer /\ mOutBuffers' = Append(s, e) /\ e.site = "MPI"
      BY <1>0, <1>2, <2>2 DEF Fresh, OutBuffer, TableOK
    <3>2. BlockOf(e) = k
      BY DEF BlockOf
    <3> HIDE DEF e, k
    <3>3. /\ mOutBuffers' \in Seq(OutBuffer)
          /\ \A i \in DOMAIN mOutBuffers' : \/ i \in DOMAIN s /\ mOutBuffers'[i] = s[i]
                                            \/ i = Len(s) + 1 /\ mOutBuffers'[i] = e
          /\ Len(s) + 1 \in DOMAIN mOutBuffers' /\ mOutBuffers'[Len(s) + 1] = e
      <4>1. /\ Append(s, e) \in Seq(OutBuffer)
            /\ \A i \in DOMAIN Append(s, e) : \/ i \in DOMAIN s /\ Append(s, e)[i] = s[i]
                                              \/ i = Len(s) + 1 /\ Append(s, e)[i] = e
        BY <3>1, AppendIs
      <4>2. Len(Append(s, e)) = Len(s) + 1 /\ Append(s, e)[Len(s) + 1] = e /\ Len(s) \in Nat
        BY <3>1, AppendElements, EntryTypes
      <4>3. Len(s) + 1 \in DOMAIN Append(s, e)
        BY <4>1, <4>2, EntryTypes
      <4>4. QED
        BY <3>1, <4>1, <4>2, <4>3
    <3>4. QED
      BY <3>2, <3>3 DEF OneMore
  <2>3. QED
    BY <1>1, <2>1, <2>2
<1>7. PICK n : OneMore(mOutBuffers', s, n, k)
  BY <1>6
<1> HIDE DEF k
<1>a. \A i \in MpiSites(mOutBuffers') : i # n => i \in MpiSites(s) /\ mOutBuffers'[i] = s[i]
  BY <1>7, OneMoreIs
<1>b. BlockOf(mOutBuffers'[n]) = k
  BY <1>7 DEF OneMore
<1>8. \A i \in DOMAIN mOutBuffers' : mOutBuffers'[i].generation <= surface
  <2>1. BlockOf(mOutBuffers'[n]).generation = mOutBuffers'[n].generation
    BY DEF BlockOf
  <2>2. mOutBuffers'[n].generation = surface
    BY <1>b, <2>1 DEF k
  <2>3. surface <= surface
    BY <1>0 DEF TableOK, Generation
  <2>4. QED
    BY <1>5, <1>7, <2>2, <2>3 DEF OneMore
<1>9. /\ k \notin shown /\ \A u \in Thread : outblock[u] # k
      /\ \A i \in MpiSites(s) : BlockOf(s[i]) # k
  BY <1>0, <1>2, <1>5 DEF TokenInv
<1>10. \A i, j \in MpiSites(mOutBuffers') :
          BlockOf(mOutBuffers'[i]) = BlockOf(mOutBuffers'[j]) => i = j
  BY <1>5, <1>a, <1>b, <1>9
<1>11. \A i \in MpiSites(mOutBuffers') :
          /\ BlockOf(mOutBuffers'[i]) \notin shown \cup (Offered \ {k})
          /\ \A u \in Thread : outblock[u] # BlockOf(mOutBuffers'[i])
  BY <1>5, <1>a, <1>b, <1>9
<1>12. QED
  BY <1>0, <1>3, <1>4, <1>8, <1>10, <1>11 DEF TokenInv

\* getoutframe takes the block in hand.
LEMMA TokensOfTake ==
    ASSUME HoldInv, NEW t \in Thread, TakeBlock(t)
    PROVE  TokenInv'
<1>0. TableOK /\ TokenInv
  BY DEF HoldInv, TypeInv, OwnedInv
<1> DEFINE n == Found(t)
           k == BlockOf(mOutBuffers[n])
<1>1. n \in MpiSites(mOutBuffers) /\ n \in DOMAIN mOutBuffers
  BY FoundIs DEF MpiSites
<1>2. /\ mOutBuffers' = [mOutBuffers EXCEPT ![n].site = "C2"]
      /\ outblock' = [outblock EXCEPT ![t] = k]
      /\ UNCHANGED <<shown, surface, free>>
  BY DEF TakeBlock, clientVars, BlockOf
<1>3. Offered' = Offered
  BY <1>2 DEF Offered
<1> HIDE DEF n
<1>4. /\ DOMAIN mOutBuffers' = DOMAIN mOutBuffers
      /\ mOutBuffers'[n].site = "C2" /\ mOutBuffers'[n].generation = mOutBuffers[n].generation
      /\ \A j \in DOMAIN mOutBuffers : j # n => mOutBuffers'[j] = mOutBuffers[j]
  <2>1. mOutBuffers \in Seq(OutBuffer) /\ "C2" \in {"MPI", "C2"}
    BY <1>0 DEF TableOK
  <2>2. mOutBuffers' = [mOutBuffers EXCEPT ![n].site = "C2"]
    BY <1>2
  <2>3. QED
    BY <1>1, <2>1, <2>2, SiteIs
<1>5. \A i \in MpiSites(mOutBuffers') : /\ i \in MpiSites(mOutBuffers) /\ i # n
                                        /\ mOutBuffers'[i] = mOutBuffers[i]
  BY <1>4 DEF MpiSites
<1>6. /\ k \notin shown \cup Offered /\ \A u \in Thread : outblock[u] # k
      /\ \A i \in MpiSites(mOutBuffers') : BlockOf(mOutBuffers'[i]) # k
  BY <1>0, <1>1, <1>5 DEF TokenInv
<1>7. k.generation <= surface
  BY <1>0, <1>1 DEF TokenInv, BlockOf
<1>8. /\ \A i \in DOMAIN mOutBuffers : mOutBuffers[i].generation <= surface
      /\ \A i \in DOMAIN mOutBuffers' : mOutBuffers'[i].generation <= surface
  BY <1>0, <1>1, <1>4 DEF TokenInv
<1> HIDE DEF k
<1>9. outblock'[t] = k /\ \A u \in Thread : u # t => outblock'[u] = outblock[u]
  BY <1>0, <1>2 DEF TableOK
<1>10. /\ \A u \in Thread : outblock'[u] \notin shown \cup Offered
       /\ \A u, v \in Thread : outblock'[u] # None /\ outblock'[u] = outblock'[v] => u = v
       /\ \A u \in Thread : outblock'[u] # None => outblock'[u].generation <= surface
  BY <1>0, <1>6, <1>7, <1>9 DEF TokenInv
<1>11. /\ \A i, j \in MpiSites(mOutBuffers') :
             BlockOf(mOutBuffers'[i]) = BlockOf(mOutBuffers'[j]) => i = j
       /\ \A i \in MpiSites(mOutBuffers') :
             /\ BlockOf(mOutBuffers'[i]) \notin shown \cup Offered
             /\ \A u \in Thread : outblock'[u] # BlockOf(mOutBuffers'[i])
  BY <1>0, <1>5, <1>6, <1>9 DEF TokenInv
<1>12. shown \cap Offered = {} /\ \A b \in shown : b.generation <= surface
  BY <1>0 DEF TokenInv
<1>13. QED
  <2>1. shown' = shown /\ surface' = surface
    BY <1>2
  <2>2. QED
    BY <1>3, <1>8, <1>10, <1>11, <1>12, <2>1 DEF TokenInv

\* clearOutBuffers offers what MPP had.
LEMMA TokensOfClear ==
    ASSUME HoldInv, ClearOutBuffers, UNCHANGED <<outblock, shown, surface>>
    PROVE  TokenInv'
<1>0. TableOK /\ TokenInv
  BY DEF HoldInv, TypeInv, OwnedInv
<1>1. mOutBuffers' = <<>>
  BY DEF ClearOutBuffers
<1>2. ASSUME NEW k \in Offered', k \notin Offered
      PROVE  \E i \in MpiSites(mOutBuffers) : BlockOf(mOutBuffers[i]) = k
  <2>1. k \in Block /\ k.generation = surface /\ k.slot \in free' \ free
    BY <1>2 DEF Offered
  <2>2. PICK e \in Elements(mOutBuffers) : e.site = "MPI" /\ e.generation = surface
                                           /\ e.index = k.slot
    BY <2>1 DEF ClearOutBuffers
  <2>3. PICK i \in DOMAIN mOutBuffers : e = mOutBuffers[i]
    BY DEF Elements
  <2>4. BlockOf(e) = k
    BY <2>1, <2>2 DEF BlockOf, Block
  <2>5. QED
    BY <2>2, <2>3, <2>4 DEF MpiSites
<1>3. /\ shown \cap Offered' = {}
      /\ \A t \in Thread : outblock[t] \notin shown \cup Offered'
  BY <1>0, <1>2 DEF TokenInv
<1>4. \A i \in DOMAIN mOutBuffers' : FALSE
  BY <1>1
<1>5. \A i \in MpiSites(mOutBuffers') : FALSE
  BY <1>4 DEF MpiSites
<1>6. QED
  BY <1>0, <1>3, <1>4, <1>5 DEF TokenInv

\* The client gets a block, or gives it back.
LEMMA TokensOfClient ==
    ASSUME HoldInv, (\E t \in Thread : FinishWork(t)) \/ ClientReturns
    PROVE  TokenInv'
<1>0. TableOK /\ TokenInv /\ BlockInHand
  BY DEF HoldInv, TypeInv, OwnedInv
<1>1. ASSUME NEW t \in Thread, FinishWork(t) PROVE TokenInv'
  <2>1. /\ UNCHANGED <<mOutBuffers, surface, free>>
        /\ outblock' = [outblock EXCEPT ![t] = None] /\ shown' = shown \cup {outblock[t]}
    BY <1>1 DEF FinishWork, decVars
  <2>2. Offered' = Offered
    BY <2>1 DEF Offered
  <2>3. outblock[t] \in Block /\ outblock[t] # None
    BY <1>0, <1>1, BuffersAssumption DEF FinishWork, BlockInHand
  <2>4. outblock'[t] = None /\ \A u \in Thread : u # t => outblock'[u] = outblock[u]
    BY <1>0, <2>1 DEF TableOK
  <2>5. \A k \in Block : k # None
    BY BuffersAssumption
  <2>6. /\ \A u \in Thread : outblock'[u] \notin shown' \cup Offered
        /\ \A u, v \in Thread : outblock'[u] # None /\ outblock'[u] = outblock'[v] => u = v
        /\ \A u \in Thread : outblock'[u] # None => outblock'[u].generation <= surface
    BY <1>0, <2>1, <2>3, <2>4, <2>5 DEF TokenInv, Offered, TableOK
  <2>7. shown' \cap Offered = {} /\ \A k \in shown' : k.generation <= surface
    BY <1>0, <2>1, <2>3 DEF TokenInv
  <2>8. \A i \in MpiSites(mOutBuffers) :
           /\ BlockOf(mOutBuffers[i]) \notin shown' \cup Offered
           /\ \A u \in Thread : outblock'[u] # BlockOf(mOutBuffers[i])
    <3>1. ASSUME NEW i \in MpiSites(mOutBuffers) PROVE BlockOf(mOutBuffers[i]) # None
      <4>1. mOutBuffers[i] \in OutBuffer
        BY <1>0, EntryTypes DEF TableOK, MpiSites
      <4>2. BlockOf(mOutBuffers[i]) \in Block
        BY <4>1 DEF OutBuffer, BlockOf, Block
      <4>3. QED
        BY <2>5, <4>2
    <3>2. QED
      BY <1>0, <2>1, <2>3, <2>4, <3>1 DEF TokenInv
  <2>9. /\ \A i, j \in MpiSites(mOutBuffers) :
              BlockOf(mOutBuffers[i]) = BlockOf(mOutBuffers[j]) => i = j
        /\ \A i \in DOMAIN mOutBuffers : mOutBuffers[i].generation <= surface
    BY <1>0 DEF TokenInv
  <2>10. mOutBuffers' = mOutBuffers /\ surface' = surface
    BY <2>1
  <2>11. QED
    BY <2>2, <2>6, <2>7, <2>8, <2>9, <2>10 DEF TokenInv
<1>2. CASE ClientReturns
  <2>1. PICK k \in shown :
          /\ shown' = shown \ {k}
          /\ free' = free \cup IF k.generation = surface THEN {k.slot} ELSE {}
    BY <1>2 DEF ClientReturns
  <2>2. UNCHANGED <<mOutBuffers, outblock, surface>>
    BY <1>2 DEF ClientReturns, decVars, threadVars
  <2>3. ASSUME NEW x \in Offered' PROVE x \in Offered \cup {k}
    <3>1. x \in Block /\ k \in Block /\ x.generation = surface /\ x.slot \in free'
      BY <1>0, <2>2, <2>3 DEF Offered, TableOK
    <3>2. CASE x.slot \in free
      BY <3>1, <3>2 DEF Offered
    <3>3. CASE k.generation = surface /\ x.slot = k.slot
      BY <3>1, <3>3 DEF Block
    <3>4. QED
      BY <2>1, <3>1, <3>2, <3>3
  <2>4. QED
    BY <1>0, <2>1, <2>2, <2>3 DEF TokenInv
<1>3. QED
  BY <1>1, <1>2

\* A new surface offers blocks of its own.
LEMMA TokensOfSurface ==
    ASSUME HoldInv, NewSurface
    PROVE  TokenInv'
<1>0. TableOK /\ TokenInv
  BY DEF HoldInv, TypeInv, OwnedInv
<1>1. /\ surface' = surface + 1 /\ UNCHANGED <<mOutBuffers, outblock, shown>>
  BY DEF NewSurface, decVars, threadVars
<1>2. /\ surface \in Nat
      /\ \A k \in Block : k.generation \in Nat
      /\ \A k \in Offered' : k.generation = surface + 1
  BY <1>0, <1>1, BuffersAssumption DEF TableOK, Block, Generation, Offered
<1>3. \A i \in DOMAIN mOutBuffers : mOutBuffers[i].generation \in Nat
  <2>1. \A i \in DOMAIN mOutBuffers : mOutBuffers[i] \in OutBuffer
    BY <1>0, EntryTypes DEF TableOK
  <2>2. \A e \in OutBuffer : e.generation \in Nat
    BY BuffersAssumption DEF OutBuffer, Generation
  <2>3. QED
    BY <2>1, <2>2
<1>4. \A t \in Thread : outblock[t] \in Block \cup {None}
  BY <1>0 DEF TableOK
<1>5. /\ \A i \in DOMAIN mOutBuffers : mOutBuffers[i].generation <= surface + 1
      /\ \A k \in shown : k.generation <= surface + 1 /\ k \notin Offered'
      /\ \A t \in Thread : outblock[t] # None =>
            outblock[t].generation <= surface + 1 /\ outblock[t] \notin Offered'
  BY <1>0, <1>2, <1>3, <1>4 DEF TokenInv, TableOK
<1>6. \A i \in MpiSites(mOutBuffers) : BlockOf(mOutBuffers[i]) \notin Offered'
  BY <1>0, <1>2, <1>3 DEF TokenInv, MpiSites, BlockOf
<1>7. \A t \in Thread : outblock[t] \notin Offered'
  BY <1>4, <1>5, BuffersAssumption DEF Offered
<1>8. mOutBuffers' = mOutBuffers /\ outblock' = outblock /\ shown' = shown
  BY <1>1
<1>9. QED
  BY <1>0, <1>1, <1>5, <1>6, <1>7, <1>8 DEF TokenInv

\* So every step keeps a block at one place.
LEMMA TokenStep == HoldInv /\ [Next]_vars => TokenInv'
<1> SUFFICES ASSUME HoldInv, [Next]_vars PROVE TokenInv'
  OBVIOUS
<1>1. CASE UNCHANGED <<mOutBuffers, outblock, shown, surface, free>>
  BY <1>1 DEF HoldInv, TokenInv, Offered
<1>2. ASSUME NEW t \in Thread, Fetch(t) PROVE TokenInv'
  BY <1>2, TokensOfFetch
<1>3. ASSUME NEW t \in Thread, TakeBlock(t) PROVE TokenInv'
  BY <1>3, TokensOfTake
<1>4. ASSUME NEW t \in Thread, FinishWork(t) PROVE TokenInv'
  BY <1>4, TokensOfClient
<1>5. ASSUME NEW t \in Thread, InfoChangeClear(t) PROVE TokenInv'
  BY <1>5, TokensOfClear DEF InfoChangeClear
<1>6. CASE FlushClear
  BY <1>6, TokensOfClear DEF FlushClear
<1>7. CASE ClientReturns \/ NewSurface
  BY <1>7, TokensOfClient, TokensOfSurface
<1>8. ASSUME NEW t \in Thread,
             \/ Begin(t) \/ EnsureBegin(t) \/ EnsureEnd(t) \/ FetchFails(t)
             \/ NoFrame(t) \/ GetFrame(t) \/ DropFrame(t) \/ InfoChangeReady(t)
      PROVE  UNCHANGED <<mOutBuffers, outblock, shown, surface, free>>
  BY <1>8 DEF Begin, EnsureBegin, EnsureEnd, FetchFails, NoFrame, GetFrame, DropFrame,
              InfoChangeReady, Leave, decVars, clientVars
<1>9. CASE \/ FlushGroup \/ FlushReset \/ MppDecode \/ MppRelease \/ MppInfoChange
           \/ UNCHANGED vars
  BY <1>1, <1>9 DEF FlushGroup, FlushReset, MppDecode, MppRelease, MppInfoChange, vars,
                    decVars, threadVars, clientVars
<1>10. QED
  BY <1>1, <1>2, <1>3, <1>4, <1>5, <1>6, <1>7, <1>8, <1>9
     DEF Next, ThreadNext, InCall, FlushNext, EnvironmentNext

-----------------------------------------------------------------------------
(***************************************************************************)
(* Every holder has a reference.                                           *)
(***************************************************************************)

\* What MPP has of each buffer when a frame is counted once.
LEMMA FrameCount ==
    ASSUME MppTypes, Distinct(frames), NEW b \in Buf
    PROVE  Cardinality({i \in DOMAIN frames : frames[i] = b})
             = IF b \in Elements(frames) THEN 1 ELSE 0
<1> DEFINE S == {i \in DOMAIN frames : frames[i] = b}
<1>1. CASE b \in Elements(frames)
  <2>1. PICK i \in DOMAIN frames : frames[i] = b
    BY <1>1 DEF Elements
  <2>2. S = {i}
    BY <2>1 DEF Distinct
  <2>3. QED
    BY <1>1, <2>2, FS_Singleton
<1>2. CASE b \notin Elements(frames)
  <2>1. S = {}
    BY <1>2 DEF Elements
  <2>2. QED
    BY <1>2, <2>1, FS_EmptySet
<1>3. QED
  BY <1>1, <1>2

\* An element of a sequence of buffers is one.
LEMMA EntryIsBuf ==
    ASSUME NEW S, NEW s \in Seq(S), NEW b \in Elements(s) PROVE b \in S
<1>1. PICK i \in DOMAIN s : b = s[i]
  BY DEF Elements
<1>2. QED
  BY <1>1, LenProperties, ElementOfSeq

\* commitBufferToMpp.
LEMMA HoldersOfFetch ==
    ASSUME HoldInv, NEW t \in Thread, Fetch(t)
    PROVE  HolderInv' /\ RefInv' /\ UnusedInv'
<1>0. /\ TableOK /\ MppTypes /\ HolderInv /\ RefInv /\ UnusedInv
      /\ MppTypes'
  BY MppTypesStep DEF HoldInv, TypeInv, OwnedInv, Next, ThreadNext, InCall
<1>1. PICK slot \in free, s \in Seq(OutBuffer) :
              /\ Suffix(s, mOutBuffers)
              /\ MaxSurface = 1 => s = mOutBuffers
              /\ \/ \E i \in C2Sites(s) : Again(s, i, slot)
                 \/ \E b \in Buf : Fresh(s, b, slot)
  BY FetchIs
<1>2. frames' = frames /\ held' = held /\ frame' = frame /\ InHand' = InHand
  BY DEF Fetch, InHand
<1>3. /\ C2Buffers(s) \subseteq C2Buffers(mOutBuffers) /\ C2Once(s)
      /\ MaxSurface = 1 => C2Buffers(s) = C2Buffers(mOutBuffers)
  BY <1>0, <1>1, SuffixIs DEF TableOK, HolderInv
<1>4. ASSUME NEW i \in C2Sites(s), Again(s, i, slot)
      PROVE  HolderInv' /\ RefInv' /\ UnusedInv'
  <2> DEFINE x == s[i].mppBuffer
  <2>1. i \in DOMAIN s /\ x \in C2Buffers(s) /\ x \in Buf
    BY EntryTypes DEF C2Sites, C2Buffers, OutBuffer
  <2>2. PutOne(x) /\ group' = group /\ mOutBuffers' = [s EXCEPT ![i].site = "MPI"]
    BY <1>4 DEF Again
  <2>3. C2Buffers(mOutBuffers') = C2Buffers(s) \ {x} /\ C2Once(mOutBuffers')
    BY <1>3, <2>2, BackIs
  <2> HIDE DEF x
  <2>4. /\ \A b \in Buf : ref'[b] = IF b = x THEN ref[b] - 1 ELSE ref[b]
        /\ \A b \in Elements(unused') : \/ b \in Elements(unused)
                                        \/ b = x /\ ref[x] = 1 /\ x \in group
        /\ \A b \in Buf : memory'[b] = IF ref'[b] <= 0 /\ b \notin group
                                       THEN None ELSE memory[b]
        /\ (Distinct(unused) /\ \A b \in Elements(unused) : ref[b] = 0) => Distinct(unused')
    BY <1>0, <2>1, <2>2, PutOneIs
  <2>5. HolderInv'
    BY <1>0, <1>2, <1>3, <2>3, <2>4 DEF HolderInv, UnusedInv
  <2>6. RefInv'
    <3>1. ASSUME NEW b \in Buf
          PROVE  /\ ref'[b] >= Holders(b)' /\ (MaxSurface = 1 => ref'[b] = Holders(b)')
      <4>1. ref[b] \in Int /\ ref[b] >= Holders(b) /\ (MaxSurface = 1 => ref[b] = Holders(b))
        BY <1>0 DEF MppTypes, RefInv
      <4>2. CASE b = x
        <5>1. /\ b \in C2Buffers(mOutBuffers) /\ b \notin C2Buffers(mOutBuffers')
              /\ b \notin Elements(frames) /\ b \notin InHand
          BY <1>0, <1>3, <2>1, <2>3, <4>2 DEF HolderInv
        <5>2. ref'[b] = ref[b] - 1
          BY <2>4, <4>2
        <5>3. QED
          BY <1>2, <4>1, <5>1, <5>2 DEF Holders
      <4>3. CASE b # x
        <5>1. ref'[b] = ref[b]
          BY <2>4, <4>3
        <5>2. /\ b \in C2Buffers(mOutBuffers') => b \in C2Buffers(mOutBuffers)
              /\ MaxSurface = 1 /\ b \in C2Buffers(mOutBuffers) => b \in C2Buffers(mOutBuffers')
          BY <1>3, <2>3, <4>3
        <5>3. QED
          BY <1>2, <4>1, <5>1, <5>2 DEF Holders
      <4>4. QED
        BY <4>2, <4>3
    <3>2. QED
      BY <3>1 DEF RefInv
  <2>7. UnusedInv'
    <3>1. ASSUME NEW b \in Elements(unused') PROVE ref'[b] = 0 /\ b \in group'
      <4>1. b \in Buf
        BY <1>0, <3>1, EntryIsBuf DEF MppTypes
      <4>2. CASE b \in Elements(unused)
        <5>1. ref[b] = 0 /\ b \in group
          BY <1>0, <4>2 DEF UnusedInv
        <5>2. ref[x] >= Holders(x) /\ Holders(x) >= 1
          BY <1>0, <1>3, <2>1 DEF RefInv, Holders
        <5>3. b # x
          BY <5>1, <5>2 DEF Holders
        <5>4. QED
          BY <2>2, <2>4, <4>1, <5>1, <5>3
      <4>3. QED
        BY <2>1, <2>2, <2>4, <3>1, <4>1, <4>2
    <3>2. \A b \in group' : memory'[b] # None
      BY <1>0, <2>2, <2>4 DEF UnusedInv, MppTypes
    <3>3. QED
      BY <3>1, <3>2 DEF UnusedInv
  <2>8. QED
    BY <2>5, <2>6, <2>7
<1>5. ASSUME NEW b \in Buf, Fresh(s, b, slot)
      PROVE  HolderInv' /\ RefInv' /\ UnusedInv'
  <2> DEFINE e == [index |-> slot, generation |-> surface, mppBuffer |-> b, site |-> "MPI"]
  <2>1. e \in OutBuffer /\ mOutBuffers' = Append(s, e) /\ e.site = "MPI"
    BY <1>0, <1>5 DEF Fresh, OutBuffer, TableOK
  <2> HIDE DEF e
  <2>2. C2Buffers(mOutBuffers') = C2Buffers(s) /\ C2Once(mOutBuffers')
    BY <1>3, <2>1, AppendIs
  <2>3. /\ memory[b] = None /\ ref[b] = 0 /\ b \notin group /\ ref' = ref
        /\ group' = group \cup {b} /\ unused' = Append(unused, b)
        /\ memory' = [memory EXCEPT ![b] = [slot |-> slot, generation |-> surface]]
    BY <1>0, <1>5 DEF Fresh, UnusedInv
  <2>4. /\ Elements(unused') = Elements(unused) \cup {b}
        /\ Distinct(unused) /\ b \notin Buf \cap Elements(unused) => Distinct(unused')
    BY <1>0, <2>3, AppendElements DEF MppTypes
  <2>5. b \notin Elements(unused)
    BY <1>0, <2>3 DEF UnusedInv
  <2>6. HolderInv'
    BY <1>0, <1>2, <1>3, <2>2, <2>4, <2>5 DEF HolderInv
  <2>7. RefInv'
    BY <1>0, <1>2, <1>3, <2>2, <2>3 DEF RefInv, Holders, MppTypes
  <2>8. UnusedInv'
    <3>1. [slot |-> slot, generation |-> surface] # None
      BY <1>0, BuffersAssumption DEF TableOK, Block
    <3>2. QED
      BY <1>0, <2>3, <2>4, <3>1 DEF UnusedInv, MppTypes
  <2>9. QED
    BY <2>6, <2>7, <2>8
<1>6. QED
  BY <1>1, <1>4, <1>5

\* getoutframe.
LEMMA HoldersOfGet ==
    ASSUME HoldInv, NEW t \in Thread, GetFrame(t)
    PROVE  HolderInv' /\ RefInv' /\ UnusedInv'
<1>0. /\ TableOK /\ MppTypes /\ OtherTypes /\ HandInv /\ HolderInv /\ RefInv /\ UnusedInv
  BY DEF HoldInv, TypeInv, OwnedInv
<1>1. /\ frames' = Tail(frames) /\ pc[t] = "get" /\ frames # <<>>
      /\ UNCHANGED <<mOutBuffers, ref, group, unused, held, memory>>
  BY DEF GetFrame, decVars
<1> DEFINE h == Head(frames)
<1>2. /\ h \in Buf \cup {Info} /\ Elements(frames) = {h} \cup Elements(frames')
      /\ Distinct(frames') /\ (h \in Buf => h \notin Elements(frames'))
  BY <1>0, <1>1, TailElements DEF MppTypes, HolderInv
<1>3. frame[t] = None
  BY <1>0, <1>1 DEF HandInv
<1>4. UnusedInv'
  BY <1>0, <1>1 DEF UnusedInv
<1>5. CASE h = Info
  <2>1. frame' = frame /\ InHand' = InHand
    BY <1>5 DEF GetFrame, InHand
  <2>2. \A b \in Buf : b \in Elements(frames') <=> b \in Elements(frames)
    BY <1>2, <1>5, BuffersAssumption
  <2>3. HolderInv'
    BY <1>0, <1>1, <1>2, <2>1, <2>2 DEF HolderInv
  <2>4. RefInv'
    BY <1>0, <1>1, <2>1, <2>2 DEF RefInv, Holders
  <2>5. QED
    BY <1>4, <2>3, <2>4
<1>6. CASE h # Info
  <2>1. frame' = [frame EXCEPT ![t] = h] /\ h \in Buf
    BY <1>2, <1>6 DEF GetFrame
  <2> HIDE DEF h
  <2>2. frame'[t] = h /\ \A u \in Thread : u # t => frame'[u] = frame[u]
    BY <1>0, <2>1 DEF OtherTypes
  <2>3. \A b \in Buf : b \in InHand' <=> b \in InHand \/ b = h
    <3>1. \A b \in Buf : b # None
      BY BuffersAssumption
    <3>2. QED
      BY <1>3, <2>2, <3>1 DEF InHand
  <2>4. HolderInv'
    <3>1. \A u \in Thread : frame[u] # h
      BY <1>0, <1>2, <2>1 DEF HolderInv, InHand
    <3>2. \A u, v \in Thread : frame'[u] # None /\ frame'[u] = frame'[v] => u = v
      BY <1>0, <2>2, <3>1 DEF HolderInv
    <3>3. QED
      BY <1>0, <1>1, <1>2, <2>1, <2>3, <3>2 DEF HolderInv
  <2>5. RefInv'
    BY <1>0, <1>1, <1>2, <2>1, <2>3 DEF RefInv, Holders, HolderInv
  <2>6. QED
    BY <1>4, <2>4, <2>5
<1>7. QED
  BY <1>5, <1>6

\* What is in hand when a thread lets its frame go.
LEMMA HandIs ==
    ASSUME OtherTypes, HolderInv, NEW t \in Thread, frame[t] \in Buf,
           frame' = [frame EXCEPT ![t] = None]
    PROVE  /\ \A b \in Buf : b \in InHand' <=> b \in InHand /\ b # frame[t]
           /\ frame[t] \in InHand
           /\ \A u, v \in Thread : frame'[u] # None /\ frame'[u] = frame'[v] => u = v
<1>1. frame'[t] = None /\ \A u \in Thread : u # t => frame'[u] = frame[u]
  BY DEF OtherTypes
<1>2. \A b \in Buf : b # None
  BY BuffersAssumption
<1>3. \A u \in Thread : u # t => frame[u] # frame[t]
  BY <1>2 DEF HolderInv
<1>4. \A b \in Buf : b \in InHand' <=> b \in InHand /\ b # frame[t]
  BY <1>1, <1>2, <1>3 DEF InHand
<1>5. QED
  BY <1>1, <1>4 DEF HolderInv, InHand

\* The frame's reference becomes C2's.
LEMMA HoldersOfTake ==
    ASSUME HoldInv, NEW t \in Thread, TakeBlock(t)
    PROVE  HolderInv' /\ RefInv' /\ UnusedInv'
<1>0. /\ TableOK /\ MppTypes /\ OtherTypes /\ HolderInv /\ RefInv /\ UnusedInv
  BY DEF HoldInv, TypeInv, OwnedInv
<1> DEFINE n == Found(t)
           x == frame[t]
<1>1. /\ n \in DOMAIN mOutBuffers /\ mOutBuffers[n].mppBuffer = x
      /\ x \in Buf /\ x \in InHand /\ x \notin C2Buffers(mOutBuffers)
  BY FoundIs DEF MpiSites
<1>2. /\ mOutBuffers' = [mOutBuffers EXCEPT ![n].site = "C2"]
      /\ frame' = [frame EXCEPT ![t] = None]
      /\ UNCHANGED <<ref, group, unused, frames, held, memory>>
  BY DEF TakeBlock, mppVars
<1> HIDE DEF n
<1>3. C2Buffers(mOutBuffers') = C2Buffers(mOutBuffers) \cup {x} /\ C2Once(mOutBuffers')
  <2>1. mOutBuffers \in Seq(OutBuffer) /\ C2Once(mOutBuffers)
    BY <1>0 DEF TableOK, HolderInv
  <2>2. mOutBuffers[n].mppBuffer \notin C2Buffers(mOutBuffers) /\ n \in DOMAIN mOutBuffers
    BY <1>1
  <2>3. /\ C2Buffers(mOutBuffers') = C2Buffers(mOutBuffers) \cup {mOutBuffers[n].mppBuffer}
        /\ C2Once(mOutBuffers')
    BY <1>2, <2>1, <2>2, TakenIs
  <2>4. QED
    BY <1>1, <2>3
<1>4. /\ \A b \in Buf : b \in InHand' <=> b \in InHand /\ b # x
      /\ \A u, v \in Thread : frame'[u] # None /\ frame'[u] = frame'[v] => u = v
  BY <1>0, <1>1, <1>2, HandIs
<1> HIDE DEF x
<1>5. HolderInv'
  BY <1>0, <1>1, <1>2, <1>3, <1>4 DEF HolderInv
<1>6. RefInv'
  BY <1>0, <1>1, <1>2, <1>3, <1>4 DEF RefInv, Holders, HolderInv
<1>7. UnusedInv'
  BY <1>0, <1>2 DEF UnusedInv
<1>8. QED
  BY <1>5, <1>6, <1>7

\* The frame's reference is put.
LEMMA HoldersOfDrop ==
    ASSUME HoldInv, NEW t \in Thread, DropFrame(t)
    PROVE  HolderInv' /\ RefInv' /\ UnusedInv'
<1>0. /\ MppTypes /\ OtherTypes /\ HandInv /\ HolderInv /\ RefInv /\ UnusedInv
  BY DEF HoldInv, TypeInv, OwnedInv
<1> DEFINE x == frame[t]
<1>1. x \in Buf
  BY <1>0 DEF DropFrame, HandInv, OtherTypes
<1>2. /\ PutOne(x) /\ frame' = [frame EXCEPT ![t] = None]
      /\ UNCHANGED <<mOutBuffers, group, frames, held>>
  BY DEF DropFrame, decVars
<1>3. /\ \A b \in Buf : b \in InHand' <=> b \in InHand /\ b # x
      /\ x \in InHand
      /\ \A u, v \in Thread : frame'[u] # None /\ frame'[u] = frame'[v] => u = v
  BY <1>0, <1>1, <1>2, HandIs
<1> HIDE DEF x
<1>4. /\ unused' \in Seq(Buf)
      /\ \A b \in Buf : ref'[b] = IF b = x THEN ref[b] - 1 ELSE ref[b]
      /\ \A b \in Elements(unused') : \/ b \in Elements(unused)
                                      \/ b = x /\ ref[x] = 1 /\ x \in group
      /\ \A b \in Buf : memory'[b] = IF ref'[b] <= 0 /\ b \notin group
                                     THEN None ELSE memory[b]
      /\ (Distinct(unused) /\ \A b \in Elements(unused) : ref[b] = 0) => Distinct(unused')
  BY <1>0, <1>1, <1>2, PutOneIs
<1>5. HolderInv'
  BY <1>0, <1>2, <1>3, <1>4 DEF HolderInv, UnusedInv
<1>6. RefInv'
  BY <1>0, <1>1, <1>2, <1>3, <1>4 DEF RefInv, Holders, HolderInv, MppTypes
<1>7. UnusedInv'
  <2>1. ref[x] >= 1 /\ ref[x] \in Int
    <3>1. ref[x] \in Int /\ ref[x] >= Holders(x)
      BY <1>0, <1>1 DEF RefInv, MppTypes
    <3>2. Holders(x) \in {1, 2}
      BY <1>3 DEF Holders
    <3>3. QED
      BY <3>1, <3>2
  <2>2. ASSUME NEW b \in Elements(unused') PROVE ref'[b] = 0 /\ b \in group'
    <3>1. b \in Buf
      BY <1>4, <2>2, EntryIsBuf
    <3>2. CASE b \in Elements(unused)
      BY <1>0, <1>2, <1>4, <2>1, <3>1, <3>2 DEF UnusedInv
    <3>3. CASE b = x /\ ref[x] = 1 /\ x \in group
      BY <1>2, <1>4, <3>1, <3>3
    <3>4. QED
      BY <1>4, <2>2, <3>2, <3>3
  <2>3. \A b \in group' : memory'[b] # None
    BY <1>0, <1>2, <1>4 DEF UnusedInv, MppTypes
  <2>4. QED
    BY <2>2, <2>3 DEF UnusedInv
<1>8. QED
  BY <1>5, <1>6, <1>7

\* C2's references are put.
LEMMA HoldersOfClear ==
    ASSUME HoldInv, ClearOutBuffers, UNCHANGED <<frame, group, frames, held>>
    PROVE  HolderInv' /\ RefInv' /\ UnusedInv'
<1>0. /\ MppTypes /\ TableOK /\ HolderInv /\ RefInv /\ UnusedInv
  BY DEF HoldInv, TypeInv, OwnedInv
<1>1. /\ unused' \in Seq(Buf)
      /\ \A b \in Buf : ref'[b] = IF b \in C2Buffers(mOutBuffers) THEN ref[b] - 1
                                                                  ELSE ref[b]
      /\ \A b \in Elements(unused') : \/ b \in Elements(unused)
                                      \/ /\ b \in C2Buffers(mOutBuffers)
                                         /\ ref[b] = 1 /\ b \in group
      /\ \A b \in Buf : memory'[b] = IF ref'[b] <= 0 /\ b \notin group
                                     THEN None ELSE memory[b]
      /\ Distinct(unused')
  BY <1>0, ClearIs DEF HolderInv, UnusedInv, C2Once
<1>2. C2Buffers(mOutBuffers') = {} /\ C2Once(mOutBuffers')
  <2>1. mOutBuffers' = <<>>
    BY DEF ClearOutBuffers
  <2>2. C2Sites(mOutBuffers') = {}
    BY <2>1 DEF C2Sites
  <2>3. QED
    BY <2>2 DEF C2Buffers, C2Once
<1>3. InHand' = InHand
  BY DEF InHand
<1>4. HolderInv'
  BY <1>0, <1>1, <1>2, <1>3 DEF HolderInv
<1>5. RefInv'
  BY <1>0, <1>1, <1>2, <1>3 DEF RefInv, Holders, HolderInv, MppTypes
<1>6. UnusedInv'
  <2>1. ASSUME NEW b \in Elements(unused') PROVE ref'[b] = 0 /\ b \in group'
    <3>1. b \in Buf
      BY <1>1, <2>1, EntryIsBuf
    <3>2. CASE b \in Elements(unused)
      <4>1. ref[b] = 0 /\ b \in group
        BY <1>0, <3>2 DEF UnusedInv
      <4>2. b \notin C2Buffers(mOutBuffers)
        BY <1>0, <3>1, <4>1 DEF RefInv, Holders
      <4>3. QED
        BY <1>1, <3>1, <4>1, <4>2
    <3>3. CASE b \in C2Buffers(mOutBuffers) /\ ref[b] = 1 /\ b \in group
      BY <1>1, <3>1, <3>3
    <3>4. QED
      BY <1>1, <2>1, <3>2, <3>3
  <2>2. \A b \in group' : memory'[b] # None
    BY <1>0, <1>1 DEF UnusedInv, MppTypes
  <2>3. QED
    BY <2>1, <2>2 DEF UnusedInv
<1>7. QED
  BY <1>4, <1>5, <1>6


\* mpp_buffer_group_clear leaves nothing unused.
LEMMA HoldersOfGroup ==
    ASSUME HoldInv, GroupClear, UNCHANGED <<mOutBuffers, frame, ref, frames, held>>
    PROVE  HolderInv' /\ RefInv' /\ UnusedInv'
<1>1. unused' = <<>> /\ group' = {}
  BY DEF GroupClear
<1>2. Elements(unused') = {} /\ Distinct(unused')
  BY <1>1 DEF Elements, Distinct
<1>3. InHand' = InHand
  BY DEF InHand
<1>4. HolderInv'
  BY <1>2, <1>3 DEF HoldInv, HolderInv
<1>5. RefInv'
  BY <1>3 DEF HoldInv, RefInv, Holders
<1>6. UnusedInv'
  BY <1>1, <1>2 DEF UnusedInv
<1>7. QED
  BY <1>4, <1>5, <1>6

\* reset takes back the references of the frames and of the reference pictures.
LEMMA HoldersOfReset ==
    ASSUME HoldInv, FlushReset
    PROVE  HolderInv' /\ RefInv' /\ UnusedInv'
<1>0. /\ MppTypes /\ MppTypes' /\ HolderInv /\ RefInv /\ UnusedInv
  <2>1. TypeInv /\ Next /\ HolderInv /\ RefInv /\ UnusedInv
    BY DEF HoldInv, Next, FlushNext
  <2>2. QED
    BY <2>1, MppTypesStep DEF TypeInv
<1>1. /\ UNCHANGED <<mOutBuffers, frame, group>> /\ frames' = <<>> /\ held' = {}
  BY DEF FlushReset, decVars
<1> DEFINE Lost(b) == Cardinality({i \in DOMAIN frames : frames[i] = b})
                      + (IF b \in held THEN 1 ELSE 0)
           freed == {b \in group : ref[b] > 0 /\ ref'[b] = 0}
<1>2. /\ ref' = [b \in Buf |-> ref[b] - Lost(b)]
      /\ memory' = [b \in Buf |-> IF ref'[b] = 0 /\ b \notin group THEN None
                                                               ELSE memory[b]]
      /\ \E order \in [1 .. Cardinality(freed) -> freed] :
             /\ \A i, j \in DOMAIN order : order[i] = order[j] => i = j
             /\ unused' = unused \o order
  BY DEF FlushReset
<1>3. PICK order \in [1 .. Cardinality(freed) -> freed] :
             /\ \A i, j \in DOMAIN order : order[i] = order[j] => i = j
             /\ unused' = unused \o order
  BY <1>2
<1>4. freed \subseteq Buf /\ Cardinality(freed) \in Nat
  BY <1>0, FS_Subset, FS_CardinalityType DEF MppTypes
<1>5. \A b \in freed : b \in group /\ ref[b] > 0 /\ ref'[b] = 0
  OBVIOUS
<1>6. \A b \in Buf : Lost(b) = (IF b \in Elements(frames) THEN 1 ELSE 0)
                               + (IF b \in held THEN 1 ELSE 0)
  BY <1>0, FrameCount DEF HolderInv
<1> HIDE DEF Lost, freed
<1>7. order \in Seq(Buf)
  BY <1>4, SeqDef
<1>8. Elements(order) \subseteq freed /\ Distinct(order)
  BY <1>3 DEF Elements, Distinct
<1>9. /\ Elements(unused') = Elements(unused) \cup Elements(order)
      /\ Distinct(unused')
  <2>1. Elements(unused) \cap Elements(order) = {}
    <3>1. \A b \in Elements(unused) : ref[b] = 0
      BY <1>0 DEF UnusedInv
    <3>2. \A b \in Elements(order) : ref[b] > 0
      BY <1>5, <1>8
    <3>3. QED
      BY <3>1, <3>2
  <2>2. unused \in Seq(Buf) /\ Distinct(unused)
    BY <1>0 DEF MppTypes, HolderInv
  <2>3. QED
    BY <1>3, <1>7, <1>8, <2>1, <2>2, ConcatElements
<1>10. InHand' = InHand
  BY <1>1 DEF InHand
<1>11. Elements(frames') = {} /\ Distinct(frames')
  BY <1>1 DEF Elements, Distinct
<1>12. HolderInv'
  BY <1>0, <1>1, <1>9, <1>10, <1>11 DEF HolderInv
<1>13. \A b \in Buf : ref'[b] = ref[b] - Lost(b)
  BY <1>2
<1>14. RefInv'
  <2>1. ASSUME NEW b \in Buf
        PROVE  ref'[b] >= Holders(b)' /\ (MaxSurface = 1 => ref'[b] = Holders(b)')
    <3>1. ref[b] \in Int /\ ref[b] >= Holders(b) /\ (MaxSurface = 1 => ref[b] = Holders(b))
      BY <1>0 DEF MppTypes, RefInv
    <3>2. Holders(b)' = IF b \in InHand \/ b \in C2Buffers(mOutBuffers) THEN 1 ELSE 0
      BY <1>1, <1>10, <1>11 DEF Holders
    <3>3. b \in Elements(frames) => ~(b \in InHand \/ b \in C2Buffers(mOutBuffers))
      BY <1>0 DEF HolderInv
    <3>4. Holders(b) = Holders(b)' + Lost(b)
      BY <1>6, <3>2, <3>3 DEF Holders
    <3>5. Lost(b) \in Int /\ Holders(b)' \in Int
      BY <1>6, <3>2
    <3>6. QED
      BY <1>13, <3>1, <3>4, <3>5
  <2>2. QED
    BY <2>1 DEF RefInv
<1>15. UnusedInv'
  <2>1. ASSUME NEW b \in Elements(unused') PROVE ref'[b] = 0 /\ b \in group'
    <3>1. CASE b \in Elements(unused)
      <4>1. b \in Buf /\ ref[b] = 0 /\ b \in group
        BY <1>0, <3>1, EntryIsBuf DEF UnusedInv, MppTypes
      <4>2. b \notin Elements(frames) /\ b \notin held
        BY <1>0, <4>1 DEF RefInv, Holders
      <4>3. QED
        BY <1>1, <1>6, <1>13, <4>1, <4>2
    <3>2. CASE b \in Elements(order)
      BY <1>1, <1>5, <1>8, <3>2
    <3>3. QED
      BY <1>9, <2>1, <3>1, <3>2
  <2>2. \A b \in group : memory'[b] # None
    BY <1>0, <1>2 DEF UnusedInv, MppTypes
  <2>3. QED
    BY <1>1, <2>1, <2>2 DEF UnusedInv
<1>16. QED
  BY <1>12, <1>14, <1>15

\* MPP decodes into a buffer that nobody holds.
LEMMA HoldersOfDecode ==
    ASSUME HoldInv, MppDecode
    PROVE  HolderInv' /\ RefInv' /\ UnusedInv'
<1>0. /\ MppTypes /\ HolderInv /\ RefInv /\ UnusedInv
  BY DEF HoldInv, TypeInv
<1> DEFINE x == Head(unused)
<1>1. /\ UNCHANGED <<mOutBuffers, frame, group, memory>>
      /\ frames' = Append(frames, x) /\ unused' = Tail(unused) /\ unused # <<>>
      /\ \/ ref' = [ref EXCEPT ![x] = 1] /\ held' = held
         \/ ref' = [ref EXCEPT ![x] = 2] /\ held' = held \cup {x}
  BY DEF MppDecode, decVars, threadVars
<1>2. /\ x \in Buf /\ Elements(unused) = {x} \cup Elements(unused')
      /\ Distinct(unused') /\ x \notin Elements(unused')
  BY <1>0, <1>1, TailElements DEF MppTypes, HolderInv
<1> HIDE DEF x
<1>3. ref[x] = 0 /\ x \in group
  BY <1>0, <1>2 DEF UnusedInv
<1>4. /\ x \notin Elements(frames) /\ x \notin InHand
      /\ x \notin C2Buffers(mOutBuffers) /\ x \notin held
  BY <1>0, <1>2, <1>3 DEF RefInv, Holders
<1>5. Elements(frames') = Elements(frames) \cup {x} /\ Distinct(frames')
  <2>1. x \in Buf \cup {Info} /\ frames \in Seq(Buf \cup {Info}) /\ Distinct(frames)
    BY <1>0, <1>2 DEF MppTypes, HolderInv
  <2>2. QED
    BY <1>1, <1>4, <2>1, AppendElements
<1>6. InHand' = InHand
  BY <1>1 DEF InHand
<1>7. HolderInv'
  BY <1>0, <1>1, <1>2, <1>4, <1>5, <1>6 DEF HolderInv
<1>8. /\ \A b \in Buf : b # x => ref'[b] = ref[b] /\ (b \in held' <=> b \in held)
      /\ \/ ref'[x] = 1 /\ x \notin held'
         \/ ref'[x] = 2 /\ x \in held'
  BY <1>0, <1>1, <1>2, <1>4 DEF MppTypes
<1>9. RefInv'
  <2>1. ASSUME NEW b \in Buf
        PROVE  ref'[b] >= Holders(b)' /\ (MaxSurface = 1 => ref'[b] = Holders(b)')
    <3>1. ref[b] \in Int /\ ref[b] >= Holders(b) /\ (MaxSurface = 1 => ref[b] = Holders(b))
      BY <1>0 DEF MppTypes, RefInv
    <3>2. CASE b = x
      <4>1. Holders(b)' = ref'[b] /\ ref'[b] \in Int
        BY <1>5, <1>8, <3>2 DEF Holders
      <4>2. QED
        BY <4>1
    <3>3. CASE b # x
      <4>1. Holders(b)' = Holders(b) /\ ref'[b] = ref[b]
        BY <1>1, <1>5, <1>6, <1>8, <3>3 DEF Holders
      <4>2. QED
        BY <3>1, <4>1
    <3>4. QED
      BY <3>2, <3>3
  <2>2. QED
    BY <2>1 DEF RefInv
<1>10. UnusedInv'
  <2>1. ASSUME NEW b \in Elements(unused') PROVE ref'[b] = 0 /\ b \in group'
    <3>1. b # x /\ b \in Elements(unused) /\ b \in Buf
      BY <1>0, <1>2, <2>1, EntryIsBuf DEF MppTypes
    <3>2. QED
      BY <1>0, <1>1, <1>8, <3>1 DEF UnusedInv
  <2>2. QED
    BY <1>0, <1>1, <2>1 DEF UnusedInv
<1>11. QED
  BY <1>7, <1>9, <1>10

\* MPP gives up a reference picture.
LEMMA HoldersOfRelease ==
    ASSUME HoldInv, MppRelease
    PROVE  HolderInv' /\ RefInv' /\ UnusedInv'
<1>0. /\ MppTypes /\ HolderInv /\ RefInv /\ UnusedInv
  BY DEF HoldInv, TypeInv
<1>1. PICK x \in held : held' = held \ {x} /\ PutOne(x)
  BY DEF MppRelease
<1>2. UNCHANGED <<mOutBuffers, frame, group, frames>> /\ InHand' = InHand
  BY DEF MppRelease, decVars, threadVars, InHand
<1>3. x \in Buf
  BY <1>0 DEF MppTypes
<1>4. /\ unused' \in Seq(Buf)
      /\ \A b \in Buf : ref'[b] = IF b = x THEN ref[b] - 1 ELSE ref[b]
      /\ \A b \in Elements(unused') : \/ b \in Elements(unused)
                                      \/ b = x /\ ref[x] = 1 /\ x \in group
      /\ \A b \in Buf : memory'[b] = IF ref'[b] <= 0 /\ b \notin group
                                     THEN None ELSE memory[b]
      /\ (Distinct(unused) /\ \A b \in Elements(unused) : ref[b] = 0) => Distinct(unused')
  BY <1>0, <1>1, <1>3, PutOneIs
<1>5. HolderInv'
  BY <1>0, <1>2, <1>4 DEF HolderInv, UnusedInv
<1>6. RefInv'
  <2>1. ASSUME NEW b \in Buf
        PROVE  ref'[b] >= Holders(b)' /\ (MaxSurface = 1 => ref'[b] = Holders(b)')
    <3>1. ref[b] \in Int /\ ref[b] >= Holders(b) /\ (MaxSurface = 1 => ref[b] = Holders(b))
      BY <1>0 DEF MppTypes, RefInv
    <3>2. CASE b = x
      <4>1. Holders(b) = Holders(b)' + 1 /\ Holders(b)' \in Int /\ ref'[b] = ref[b] - 1
        BY <1>1, <1>2, <1>4, <3>2 DEF Holders
      <4>2. QED
        BY <3>1, <4>1
    <3>3. CASE b # x
      <4>1. Holders(b)' = Holders(b) /\ ref'[b] = ref[b]
        BY <1>1, <1>2, <1>4, <3>3 DEF Holders
      <4>2. QED
        BY <3>1, <4>1
    <3>4. QED
      BY <3>2, <3>3
  <2>2. QED
    BY <2>1 DEF RefInv
<1>7. UnusedInv'
  <2>1. ref[x] >= 1 /\ ref[x] \in Int
    <3>1. ref[x] \in Int /\ ref[x] >= Holders(x)
      BY <1>0, <1>3 DEF RefInv, MppTypes
    <3>2. Holders(x) \in {1, 2}
      BY <1>1 DEF Holders
    <3>3. QED
      BY <3>1, <3>2
  <2>2. ASSUME NEW b \in Elements(unused') PROVE ref'[b] = 0 /\ b \in group'
    <3>1. b \in Buf
      BY <1>4, <2>2, EntryIsBuf
    <3>2. CASE b \in Elements(unused)
      BY <1>0, <1>2, <1>4, <2>1, <3>1, <3>2 DEF UnusedInv
    <3>3. CASE b = x /\ ref[x] = 1 /\ x \in group
      BY <1>2, <1>4, <3>1, <3>3
    <3>4. QED
      BY <1>4, <2>2, <3>2, <3>3
  <2>3. \A b \in group' : memory'[b] # None
    BY <1>0, <1>2, <1>4 DEF UnusedInv, MppTypes
  <2>4. QED
    BY <2>2, <2>3 DEF UnusedInv
<1>8. QED
  BY <1>5, <1>6, <1>7

\* A frame without a buffer is no holder.
LEMMA HoldersOfInfo ==
    ASSUME HoldInv, MppInfoChange
    PROVE  HolderInv' /\ RefInv' /\ UnusedInv'
<1>0. /\ MppTypes /\ HolderInv /\ RefInv /\ UnusedInv
  BY DEF HoldInv, TypeInv
<1>1. /\ UNCHANGED <<mOutBuffers, frame, group, held, ref, unused, memory>>
      /\ frames' = Append(frames, Info)
  BY DEF MppInfoChange, decVars, threadVars
<1>2. Elements(frames') = Elements(frames) \cup {Info} /\ Distinct(frames')
  <2>1. Info \in Buf \cup {Info} /\ frames \in Seq(Buf \cup {Info}) /\ Distinct(frames)
        /\ Info \notin Buf
    BY <1>0, BuffersAssumption DEF MppTypes, HolderInv
  <2>2. QED
    BY <1>1, <2>1, AppendElements
<1>3. InHand' = InHand
  BY <1>1 DEF InHand
<1>4. \A b \in Buf : b \in Elements(frames') <=> b \in Elements(frames)
  BY <1>2, BuffersAssumption
<1>5. HolderInv'
  BY <1>0, <1>1, <1>2, <1>3, <1>4 DEF HolderInv
<1>6. RefInv' /\ UnusedInv'
  BY <1>0, <1>1, <1>3, <1>4 DEF RefInv, Holders, UnusedInv
<1>7. QED
  BY <1>5, <1>6

\* So every step leaves each holder a reference.
LEMMA HolderStep == HoldInv /\ [Next]_vars => HolderInv' /\ RefInv' /\ UnusedInv'
<1> SUFFICES ASSUME HoldInv, [Next]_vars PROVE HolderInv' /\ RefInv' /\ UnusedInv'
  OBVIOUS
<1>1. CASE UNCHANGED <<mOutBuffers, frame, ref, group, unused, frames, held, memory>>
  BY <1>1 DEF HoldInv, HolderInv, RefInv, Holders, InHand, UnusedInv
<1>2. ASSUME NEW t \in Thread, Fetch(t) \/ GetFrame(t) \/ TakeBlock(t) \/ DropFrame(t)
      PROVE  HolderInv' /\ RefInv' /\ UnusedInv'
  BY <1>2, HoldersOfFetch, HoldersOfGet, HoldersOfTake, HoldersOfDrop
<1>3. ASSUME NEW t \in Thread, InfoChangeClear(t) PROVE HolderInv' /\ RefInv' /\ UnusedInv'
  BY <1>3, HoldersOfClear DEF InfoChangeClear
<1>4. ASSUME NEW t \in Thread, InfoChangeReady(t) PROVE HolderInv' /\ RefInv' /\ UnusedInv'
  BY <1>4, HoldersOfGroup DEF InfoChangeReady, decVars
<1>5. CASE FlushClear
  BY <1>5, HoldersOfClear DEF FlushClear
<1>6. CASE FlushGroup
  BY <1>6, HoldersOfGroup DEF FlushGroup, decVars
<1>7. CASE FlushReset \/ MppDecode \/ MppRelease \/ MppInfoChange
  BY <1>7, HoldersOfReset, HoldersOfDecode, HoldersOfRelease, HoldersOfInfo
<1>8. ASSUME NEW t \in Thread,
             \/ Begin(t) \/ EnsureBegin(t) \/ EnsureEnd(t) \/ FetchFails(t)
             \/ NoFrame(t) \/ FinishWork(t)
      PROVE  UNCHANGED <<mOutBuffers, frame, ref, group, unused, frames, held, memory>>
  BY <1>8 DEF Begin, EnsureBegin, EnsureEnd, FetchFails, NoFrame, FinishWork,
              Leave, decVars, mppVars
<1>9. CASE ClientReturns \/ NewSurface \/ UNCHANGED vars
  BY <1>1, <1>9 DEF ClientReturns, NewSurface, vars, decVars, threadVars, mppVars
<1>10. QED
  BY <1>1, <1>2, <1>3, <1>4, <1>5, <1>6, <1>7, <1>8, <1>9
     DEF Next, ThreadNext, InCall, FlushNext, EnvironmentNext

\* Only a commit changes mGenerationChange.
LEMMA OneStep == HoldInv /\ [Next]_vars => OneInv'
<1> SUFFICES ASSUME HoldInv, [Next]_vars, MaxSurface = 1 PROVE ~mGenerationChange'
  BY DEF OneInv
<1>1. ~mGenerationChange
  BY DEF HoldInv, OneInv
<1>2. ASSUME NEW t \in Thread, Fetch(t) PROVE ~mGenerationChange'
  BY <1>2, FetchIs
<1>3. ASSUME NEW t \in Thread,
             \/ Begin(t) \/ EnsureBegin(t) \/ EnsureEnd(t) \/ FetchFails(t)
             \/ NoFrame(t) \/ GetFrame(t) \/ TakeBlock(t) \/ DropFrame(t)
             \/ FinishWork(t) \/ InfoChangeClear(t) \/ InfoChangeReady(t)
      PROVE  mGenerationChange' = mGenerationChange
  BY <1>3 DEF Begin, EnsureBegin, EnsureEnd, FetchFails, NoFrame, GetFrame, TakeBlock,
              DropFrame, FinishWork, InfoChangeClear, InfoChangeReady, Leave, decVars
<1>4. CASE FlushNext \/ EnvironmentNext \/ UNCHANGED vars
  <2>1. mGenerationChange' = mGenerationChange
    BY <1>4 DEF FlushNext, FlushClear, FlushGroup, FlushReset, EnvironmentNext, MppDecode,
                MppRelease, MppInfoChange, ClientReturns, NewSurface, vars, decVars
  <2>2. QED
    BY <1>1, <2>1
<1>5. QED
  BY <1>1, <1>2, <1>3, <1>4 DEF Next, ThreadNext, InCall

\* The invariant holds at first.
LEMMA HoldInit == Init => HoldInv
<1> SUFFICES ASSUME Init PROVE HoldInv
  OBVIOUS
<1>1. TypeInv
  BY TypeInit
<1>2. /\ mOutBuffers = <<>> /\ unused = <<>> /\ frames = <<>> /\ held = {} /\ group = {}
      /\ frame = [t \in Thread |-> None] /\ outblock = [t \in Thread |-> None]
      /\ ref = [b \in Buf |-> 0] /\ shown = {} /\ mGenerationChange = FALSE
  BY DEF Init
<1>3. /\ Elements(unused) = {} /\ Elements(frames) = {} /\ C2Sites(mOutBuffers) = {}
      /\ MpiSites(mOutBuffers) = {} /\ \A t \in Thread : frame[t] = None /\ outblock[t] = None
  BY <1>2 DEF Elements, C2Sites, MpiSites
<1>4. C2Buffers(mOutBuffers) = {} /\ \A b \in Buf : b \notin InHand
  BY <1>3, BuffersAssumption DEF C2Buffers, InHand
<1>5. HolderInv
  BY <1>2, <1>3, <1>4 DEF HolderInv, Distinct, C2Once
<1>6. RefInv /\ UnusedInv
  BY <1>2, <1>3, <1>4 DEF RefInv, Holders, UnusedInv
<1>7. \A t \in Thread : outblock[t] \notin Offered
  BY <1>3, BuffersAssumption DEF Offered
<1>8. TokenInv /\ OneInv
  BY <1>2, <1>3, <1>7 DEF TokenInv, OneInv
<1>9. QED
  BY <1>1, <1>5, <1>6, <1>8 DEF HoldInv

\* And every step keeps it.
LEMMA HoldStep == HoldInv /\ [Next]_vars => HoldInv'
<1> SUFFICES ASSUME HoldInv, [Next]_vars PROVE HoldInv'
  OBVIOUS
<1>1. TypeInv'
  BY TypeStep DEF HoldInv
<1>2. QED
  BY <1>1, HolderStep, TokenStep, OneStep DEF HoldInv

\* The references of a buffer, counted, are its holders.
LEMMA RefsAreHolders ==
    ASSUME HoldInv, NEW b \in Buf PROVE MppRefs(b) + C2Refs(b) = Holders(b)
<1>0. TableOK /\ MppTypes /\ HolderInv
  BY DEF HoldInv, TypeInv, OwnedInv
<1> DEFINE F == {i \in DOMAIN frames : frames[i] = b}
           T == {t \in Thread : frame[t] = b}
           C == {i \in DOMAIN mOutBuffers : /\ mOutBuffers[i].mppBuffer = b
                                            /\ mOutBuffers[i].site = "C2"}
<1>1. Cardinality(F) = IF b \in Elements(frames) THEN 1 ELSE 0
  BY <1>0, FrameCount DEF HolderInv
<1>2. Cardinality(T) = IF b \in InHand THEN 1 ELSE 0
  <2>1. CASE b \in InHand
    <3>1. PICK t \in Thread : frame[t] = b
      BY <2>1 DEF InHand
    <3>2. b # None
      BY BuffersAssumption
    <3>3. T = {t}
      BY <1>0, <3>1, <3>2 DEF HolderInv
    <3>4. QED
      BY <2>1, <3>3, FS_Singleton
  <2>2. CASE b \notin InHand
    <3>1. T = {}
      BY <2>2 DEF InHand
    <3>2. QED
      BY <2>2, <3>1, FS_EmptySet
  <2>3. QED
    BY <2>1, <2>2
<1>3. Cardinality(C) = IF b \in C2Buffers(mOutBuffers) THEN 1 ELSE 0
  <2>1. \A i : i \in C <=> i \in C2Sites(mOutBuffers) /\ mOutBuffers[i].mppBuffer = b
    BY DEF C2Sites
  <2>2. CASE b \in C2Buffers(mOutBuffers)
    <3>1. PICK i \in C2Sites(mOutBuffers) : mOutBuffers[i].mppBuffer = b
      BY <2>2 DEF C2Buffers
    <3>2. C = {i}
      BY <1>0, <2>1, <3>1 DEF HolderInv, C2Once
    <3>3. QED
      BY <2>2, <3>2, FS_Singleton
  <2>3. CASE b \notin C2Buffers(mOutBuffers)
    <3>1. C = {}
      BY <2>1, <2>3 DEF C2Buffers
    <3>2. QED
      BY <2>3, <3>1, FS_EmptySet
  <2>4. QED
    BY <2>2, <2>3
<1>4. /\ MppRefs(b) = Cardinality(F) + Cardinality(T) + (IF b \in held THEN 1 ELSE 0)
      /\ C2Refs(b) = Cardinality(C)
  BY DEF MppRefs, C2Refs
<1> HIDE DEF F, T, C
<1>5. /\ ~(b \in Elements(frames) /\ b \in InHand)
      /\ ~(b \in Elements(frames) /\ b \in C2Buffers(mOutBuffers))
      /\ ~(b \in InHand /\ b \in C2Buffers(mOutBuffers))
  BY <1>0 DEF HolderInv
<1>6. QED
  BY <1>1, <1>2, <1>3, <1>4, <1>5 DEF Holders

\* The inductive invariant of the references and the blocks holds in every
\* reachable state.
LEMMA HoldAlways == Spec => []HoldInv
  BY HoldInit, HoldStep, PTL DEF Spec

\* The variables keep their types: no buffer, frame or block appears that
\* getoutframe(), finishWork() or clearOutBuffers() could not handle.
THEOREM BuffersTypeCorrect == Spec => []TypeOK
<1>1. HoldInv => TypeOK
  BY TypesAre DEF HoldInv
<1>2. QED
  BY <1>1, HoldAlways, PTL

\* While no thread is inside stop() or reset() beside the looper, every holder of
\* a buffer has a reference of its own, for every number of surfaces and buffers,
\* changes of resolution and flushes: no mpp_buffer_put() of clearOutBuffers(), of
\* commitBufferToMpp() or of a dropped frame takes one that belongs to another.
\* (The proof does not need the hypothesis, the code does: ClearOutBuffers is one
\* step here, and two of its loops beside each other put a reference twice.)
THEOREM RefsCoveredHolds == ASSUME Drainer = {} PROVE Spec => []RefsCovered
<1>1. HoldInv => RefsCovered
  <2>1. SUFFICES ASSUME HoldInv, NEW b \in Buf PROVE ref[b] >= MppRefs(b) + C2Refs(b)
    BY DEF RefsCovered
  <2>2. QED
    BY <2>1, RefsAreHolders DEF HoldInv, RefInv
<1>2. QED
  BY <1>1, HoldAlways, PTL

-----------------------------------------------------------------------------
(***************************************************************************)
(* One thread alone: no block the client has is decoded into.              *)
(***************************************************************************)

\* clearOutBuffers has put the client's blocks, and the group still has them.
Dirty == pc[Looper] \in {"ready", "flush group", "flush reset"}

\* A change of resolution is MPP's last frame, and no reference picture is left.
InfoInv ==
    /\ waiting => held = {}
    /\ \A i \in DOMAIN frames : frames[i] = Info => waiting /\ i = Len(frames)
    /\ pc[Looper] \in {"clear", "ready"} => waiting /\ frames = <<>>

\* Until the group is cleared and MPP is reset the table is empty; during a flush
\* the client counts for nothing.
DirtyInv ==
    /\ Dirty => mOutBuffers = <<>>
    /\ pc[Looper] \in {"flush group", "flush reset"} => current = {}
    /\ pc[Looper] = "flush reset" => group = {}

\* An entry has a buffer of its own, of the group, with the memory of its block.
OwnBuffers(s) ==
    /\ \A i, j \in DOMAIN s : s[i].mppBuffer = s[j].mppBuffer => i = j
    /\ \A i \in DOMAIN s : /\ s[i].mppBuffer \in group
                           /\ memory[s[i].mppBuffer] = BlockOf(s[i])

EntryInv == OwnBuffers(mOutBuffers)

\* MPP has the buffer, or will have it without a put: it is unused, or will be
\* when its frame or its reference picture goes.
Has(b) ==
    \/ b \in Elements(unused) \/ b \in Elements(frames) \/ b \in InHand
    \/ b \in held /\ ref[b] = 1 /\ b \in group

\* The block of such a buffer is with MPP and with nobody else.
Placed(b) ==
    /\ b \in group
    /\ memory[b] \notin shown \cup Offered /\ memory[b].generation <= surface
    /\ \A t \in Thread : outblock[t] # memory[b]
    /\ \A i \in MpiSites(mOutBuffers) :
          BlockOf(mOutBuffers[i]) = memory[b] => mOutBuffers[i].mppBuffer = b
    /\ b \notin C2Buffers(mOutBuffers)

HasInv ==
    ~Dirty => /\ \A a, b \in Buf : Has(a) /\ Has(b) /\ memory[a] = memory[b] => a = b
              /\ \A b \in Buf : Has(b) => Placed(b)

SafeInv == HoldInv /\ InfoInv /\ DirtyInv /\ EntryInv /\ HasInv

\* MPP's frames and the flush, for the steps of the thread.
LEMMA InfoOfThread ==
    ASSUME Drainer = {}, SafeInv, ThreadNext(Looper)
    PROVE  InfoInv' /\ DirtyInv'
<1>0. /\ pc \in [Thread -> Place] /\ Looper \in Thread /\ InfoInv /\ DirtyInv /\ MppTypes
  BY DEF SafeInv, HoldInv, TypeInv, OwnedInv, TableOK, Thread
<1>1. CASE \/ Begin(Looper) \/ EnsureBegin(Looper) \/ EnsureEnd(Looper)
           \/ FetchFails(Looper) \/ NoFrame(Looper)
  <2>1. /\ UNCHANGED <<mOutBuffers, current, group, held, frames, waiting>>
        /\ pc'[Looper] \notin {"clear", "ready", "flush group", "flush reset"}
    BY <1>0, <1>1 DEF Begin, EnsureBegin, EnsureEnd, FetchFails, NoFrame, Goto, Leave,
                      decVars, mppVars, clientVars
  <2>2. QED
    BY <1>0, <2>1 DEF InfoInv, DirtyInv, Dirty
<1>2. CASE Fetch(Looper)
  <2>1. /\ UNCHANGED <<pc, current, held, frames, waiting>> /\ pc[Looper] = "fetch"
    BY <1>2 DEF Fetch
  <2>2. QED
    BY <1>0, <2>1 DEF InfoInv, DirtyInv, Dirty
<1>3. CASE GetFrame(Looper)
  <2> DEFINE h == Head(frames)
  <2>1. /\ UNCHANGED <<mOutBuffers, current, group, held, waiting>>
        /\ frames # <<>> /\ frames' = Tail(frames)
        /\ pc'[Looper] = IF h = Info THEN "clear" ELSE "find"
    BY <1>0, <1>3 DEF GetFrame, Goto, decVars, clientVars
  <2>2. /\ h = frames[1] /\ 1 \in DOMAIN frames /\ frames' \in Seq(Buf \cup {Info})
        /\ DOMAIN frames' = 1 .. Len(frames) - 1 /\ DOMAIN frames = 1 .. Len(frames)
        /\ Len(frames) \in Nat \ {0} /\ Len(frames') = Len(frames) - 1
        /\ \A i \in 1 .. Len(frames) - 1 : frames'[i] = frames[i + 1]
    BY <1>0, <2>1, TailElements DEF MppTypes
  <2> HIDE DEF h
  <2>3. ASSUME NEW i \in DOMAIN frames', frames'[i] = Info
        PROVE  waiting' /\ i = Len(frames')
    <3>1. i + 1 \in DOMAIN frames /\ frames[i + 1] = Info
      BY <2>2, <2>3
    <3>2. waiting /\ i + 1 = Len(frames)
      BY <1>0, <3>1 DEF InfoInv
    <3>3. QED
      BY <2>1, <2>2, <2>3, <3>2
  <2>4. h = Info => waiting' /\ frames' = <<>>
    <3>1. SUFFICES ASSUME h = Info PROVE waiting' /\ frames' = <<>>
      OBVIOUS
    <3>2. waiting /\ 1 = Len(frames)
      BY <1>0, <2>2, <3>1 DEF InfoInv
    <3>3. Len(frames') = 0
      <4>1. Len(frames) = 1 /\ Len(frames') = Len(frames) - 1
        BY <2>2, <3>2
      <4>2. QED
        BY <4>1
    <3>4. QED
      BY <2>1, <2>2, <3>2, <3>3, EmptySeq
  <2>5. QED
    BY <1>0, <2>1, <2>3, <2>4 DEF InfoInv, DirtyInv, Dirty
<1>4. CASE TakeBlock(Looper) \/ DropFrame(Looper) \/ FinishWork(Looper)
  <2>1. /\ UNCHANGED <<held, frames, waiting>>
        /\ pc'[Looper] \in {"finish", "get", "ensure"}
    BY <1>0, <1>4 DEF TakeBlock, DropFrame, FinishWork, Goto, mppVars
  <2>2. QED
    BY <1>0, <2>1 DEF InfoInv, DirtyInv, Dirty
<1>5. CASE InfoChangeClear(Looper)
  <2>1. /\ UNCHANGED <<held, frames, waiting>> /\ mOutBuffers' = <<>>
        /\ pc[Looper] = "clear" /\ pc'[Looper] = "ready"
    BY <1>0, <1>5 DEF InfoChangeClear, ClearOutBuffers, Goto
  <2>2. QED
    BY <1>0, <2>1 DEF InfoInv, DirtyInv, Dirty
<1>6. CASE InfoChangeReady(Looper)
  <2>1. /\ UNCHANGED <<held, frames>> /\ frames = <<>> /\ held = {}
        /\ pc'[Looper] \in {"ensure", "idle"}
    BY <1>0, <1>6 DEF InfoChangeReady, Goto, InfoInv
  <2>2. frames' = <<>> /\ held' = {} /\ \A i \in DOMAIN frames' : FALSE
    BY <2>1
  <2>3. QED
    BY <2>1, <2>2 DEF InfoInv, DirtyInv, Dirty
<1>7. QED
  BY <1>1, <1>2, <1>3, <1>4, <1>5, <1>6 DEF ThreadNext, InCall

\* And for those of MPP, the surface and the client.
LEMMA InfoOfOthers ==
    ASSUME SafeInv, FlushNext \/ EnvironmentNext
    PROVE  InfoInv' /\ DirtyInv'
<1>0. /\ pc \in [Thread -> Place] /\ Looper \in Thread /\ InfoInv /\ DirtyInv /\ MppTypes
      /\ current \subseteq shown /\ UnusedInv
  BY DEF SafeInv, HoldInv, TypeInv, OtherTypes, OwnedInv, TableOK, Thread
<1>1. CASE FlushClear
  <2>1. /\ UNCHANGED <<held, frames, waiting>> /\ mOutBuffers' = <<>> /\ current' = {}
        /\ pc'[Looper] = "flush group"
    BY <1>0, <1>1 DEF FlushClear, ClearOutBuffers, Goto
  <2>2. QED
    BY <1>0, <2>1 DEF InfoInv, DirtyInv, Dirty
<1>2. CASE FlushGroup
  <2>1. /\ UNCHANGED <<mOutBuffers, current, held, frames, waiting>> /\ group' = {}
        /\ pc[Looper] = "flush group" /\ pc'[Looper] = "flush reset"
    BY <1>0, <1>2 DEF FlushGroup, GroupClear, Goto, decVars, clientVars
  <2>2. QED
    BY <1>0, <2>1 DEF InfoInv, DirtyInv, Dirty
<1>3. CASE FlushReset
  <2>1. frames' = <<>> /\ held' = {} /\ pc'[Looper] = "idle"
    BY <1>0, <1>3 DEF FlushReset, Goto
  <2>2. QED
    BY <2>1 DEF InfoInv, DirtyInv, Dirty
<1>4. CASE MppDecode
  <2>1. /\ UNCHANGED <<pc, mOutBuffers, current, group, waiting>> /\ ~waiting
        /\ frames' = Append(frames, Head(unused)) /\ unused # <<>>
    BY <1>4 DEF MppDecode, decVars, threadVars, clientVars
  <2>2. Head(unused) \in Buf
    BY <1>0, <2>1, TailElements DEF MppTypes
  <2>3. Head(unused) # Info /\ Head(unused) \in Buf \cup {Info}
    BY <2>2, BuffersAssumption
  <2>4. /\ Len(frames') = Len(frames) + 1 /\ frames'[Len(frames) + 1] = Head(unused)
        /\ \A i \in DOMAIN frames : frames'[i] = frames[i]
        /\ \A i \in DOMAIN frames' : i \in DOMAIN frames \/ i = Len(frames) + 1
    BY <1>0, <2>1, <2>3, AppendElements DEF MppTypes
  <2>5. \A i \in DOMAIN frames' : frames'[i] # Info
    BY <1>0, <2>1, <2>3, <2>4 DEF InfoInv
  <2>6. pc[Looper] \notin {"clear", "ready"}
    BY <1>0, <2>1 DEF InfoInv
  <2>7. QED
    BY <1>0, <2>1, <2>5, <2>6 DEF InfoInv, DirtyInv, Dirty
<1>5. CASE MppRelease
  <2>1. /\ UNCHANGED <<pc, mOutBuffers, current, group, waiting, frames>>
        /\ held # {}
    BY <1>5 DEF MppRelease, decVars, threadVars, clientVars
  <2>2. QED
    BY <1>0, <2>1 DEF InfoInv, DirtyInv, Dirty
<1>6. CASE MppInfoChange
  <2>1. /\ UNCHANGED <<pc, mOutBuffers, current, group, held>> /\ ~waiting /\ waiting'
        /\ held = {} /\ frames' = Append(frames, Info)
    BY <1>6 DEF MppInfoChange, decVars, threadVars, clientVars
  <2>2. /\ Len(frames') = Len(frames) + 1
        /\ \A i \in DOMAIN frames : frames'[i] = frames[i]
        /\ \A i \in DOMAIN frames' : i \in DOMAIN frames \/ i = Len(frames) + 1
    BY <1>0, <2>1, AppendElements DEF MppTypes
  <2>3. \A i \in DOMAIN frames' : frames'[i] = Info => i = Len(frames')
    BY <1>0, <2>1, <2>2 DEF InfoInv
  <2>4. pc[Looper] \notin {"clear", "ready"}
    BY <1>0, <2>1 DEF InfoInv
  <2>5. QED
    BY <1>0, <2>1, <2>3, <2>4 DEF InfoInv, DirtyInv, Dirty
<1>7. CASE ClientReturns \/ NewSurface
  <2>1. /\ UNCHANGED <<pc, mOutBuffers, group, held, waiting, frames>>
        /\ current' \subseteq current
    BY <1>7 DEF ClientReturns, NewSurface, decVars, threadVars, mppVars
  <2>2. QED
    BY <1>0, <2>1 DEF InfoInv, DirtyInv, Dirty
<1>8. QED
  BY <1>1, <1>2, <1>3, <1>4, <1>5, <1>6, <1>7 DEF FlushNext, EnvironmentNext

\* The table r has the entries of s, but for their sides.
SameEntries(r, s) ==
    /\ DOMAIN r = DOMAIN s
    /\ \A i \in DOMAIN s : /\ r[i].mppBuffer = s[i].mppBuffer
                           /\ BlockOf(r[i]) = BlockOf(s[i])

\* The buffers of the group stay there, with their memory.
GroupKept == \A b \in group : b \in group' /\ memory'[b] = memory[b]

\* Then the entries keep theirs.
LEMMA EntriesKept ==
    ASSUME NEW s, OwnBuffers(s), SameEntries(mOutBuffers', s), GroupKept PROVE EntryInv'
  BY DEF EntryInv, OwnBuffers, SameEntries, GroupKept

\* The entries that are left have theirs.
LEMMA OwnSuffix ==
    ASSUME NEW s \in Seq(OutBuffer), NEW r \in Seq(OutBuffer), Suffix(r, s), OwnBuffers(s)
    PROVE  OwnBuffers(r)
<1>1. PICK k \in Nat : \A i \in DOMAIN r : i + k \in DOMAIN s /\ r[i] = s[i + k]
  BY DEF Suffix
<1>2. \A i, j \in DOMAIN r : i + k = j + k => i = j
  BY EntryTypes
<1>3. \A i, j \in DOMAIN r : r[i].mppBuffer = r[j].mppBuffer => i = j
  BY <1>1, <1>2 DEF OwnBuffers
<1>4. QED
  BY <1>1, <1>3 DEF OwnBuffers

\* A put keeps the group.
LEMMA PutKeepsGroup ==
    ASSUME MppTypes, group' = group,
           \A b \in Buf : memory'[b] = IF ref'[b] <= 0 /\ b \notin group
                                       THEN None ELSE memory[b]
    PROVE  GroupKept
  BY DEF MppTypes, GroupKept

\* An entry that comes back and a new one have their buffers.
LEMMA EntriesOfFetch ==
    ASSUME SafeInv, NEW t \in Thread, Fetch(t)
    PROVE  EntryInv' /\ GroupKept
<1>0. /\ mOutBuffers \in Seq(OutBuffer) /\ MppTypes /\ UnusedInv /\ EntryInv /\ HoldInv
      /\ surface \in Generation /\ free \subseteq Slot
  BY DEF SafeInv, HoldInv, TypeInv, OwnedInv, TableOK
<1>1. PICK slot \in free, s \in Seq(OutBuffer) :
              /\ Suffix(s, mOutBuffers)
              /\ \/ \E i \in C2Sites(s) : Again(s, i, slot)
                 \/ \E b \in Buf : Fresh(s, b, slot)
  BY <1>0, FetchIs
<1>2. OwnBuffers(s)
  BY <1>0, <1>1, OwnSuffix DEF EntryInv
<1>3. ASSUME NEW i \in C2Sites(s), Again(s, i, slot) PROVE EntryInv' /\ GroupKept
  <2> DEFINE x == s[i].mppBuffer
  <2>1. i \in DOMAIN s /\ x \in Buf
    BY EntryTypes DEF C2Sites, OutBuffer
  <2>2. /\ PutOne(x) /\ group' = group /\ mOutBuffers' = [s EXCEPT ![i].site = "MPI"]
    BY <1>3 DEF Again
  <2>3. /\ DOMAIN mOutBuffers' = DOMAIN s
        /\ mOutBuffers'[i].index = s[i].index
        /\ mOutBuffers'[i].generation = s[i].generation
        /\ mOutBuffers'[i].mppBuffer = s[i].mppBuffer
        /\ \A j \in DOMAIN s : j # i => mOutBuffers'[j] = s[j]
    BY <2>1, <2>2, SiteIs
  <2>4. SameEntries(mOutBuffers', s)
    BY <2>3 DEF SameEntries, BlockOf
  <2> HIDE DEF x
  <2>5. GroupKept
    BY <1>0, <2>1, <2>2, PutOneIs, PutKeepsGroup
  <2>6. QED
    BY <1>2, <2>4, <2>5, EntriesKept
<1>4. ASSUME NEW b \in Buf, Fresh(s, b, slot) PROVE EntryInv' /\ GroupKept
  <2> DEFINE e == [index |-> slot, generation |-> surface, mppBuffer |-> b, site |-> "MPI"]
  <2>1. e \in OutBuffer /\ mOutBuffers' = Append(s, e) /\ e.site = "MPI"
    BY <1>0, <1>4 DEF Fresh, OutBuffer
  <2>2. e.mppBuffer = b /\ BlockOf(e) = [slot |-> slot, generation |-> surface]
    BY DEF BlockOf
  <2> HIDE DEF e
  <2>3. /\ b \notin group /\ group' = group \cup {b}
        /\ memory' = [memory EXCEPT ![b] = [slot |-> slot, generation |-> surface]]
    BY <1>0, <1>4 DEF Fresh, UnusedInv
  <2>4. GroupKept /\ b \in group' /\ memory'[b] = BlockOf(e)
    BY <1>0, <2>2, <2>3 DEF GroupKept, MppTypes
  <2>5. \A i \in DOMAIN mOutBuffers' : \/ i \in DOMAIN s /\ mOutBuffers'[i] = s[i]
                                       \/ i = Len(s) + 1 /\ mOutBuffers'[i] = e
    BY <2>1, AppendIs
  <2>6. \A i \in DOMAIN s : s[i].mppBuffer # b
    BY <1>2, <2>3 DEF OwnBuffers
  <2>7. EntryInv'
    BY <1>2, <2>2, <2>4, <2>5, <2>6 DEF EntryInv, OwnBuffers, GroupKept
  <2>8. QED
    BY <2>4, <2>7
<1>5. QED
  BY <1>1, <1>3, <1>4

\* With one thread no group is cleared, and no block taken back, while an entry
\* is left: every step keeps the entries' buffers.
LEMMA EntryStep ==
    ASSUME Drainer = {}, SafeInv, [Next]_vars PROVE EntryInv'
<1>0. /\ mOutBuffers \in Seq(OutBuffer) /\ MppTypes /\ EntryInv /\ DirtyInv /\ HandInv
      /\ Thread = {Looper} /\ HoldInv /\ OtherTypes
  BY DEF SafeInv, HoldInv, TypeInv, OwnedInv, TableOK, Thread
<1>1. CASE mOutBuffers' = <<>>
  BY <1>1 DEF EntryInv, OwnBuffers
<1>2. CASE UNCHANGED <<mOutBuffers, group, memory>>
  BY <1>0, <1>2 DEF EntryInv, OwnBuffers
<1>3. ASSUME NEW x \in Buf, PutOne(x), UNCHANGED <<mOutBuffers, group>> PROVE EntryInv'
  <2>1. GroupKept
    BY <1>0, <1>3, PutOneIs, PutKeepsGroup
  <2>2. SameEntries(mOutBuffers', mOutBuffers)
    BY <1>3 DEF SameEntries
  <2>3. QED
    BY <1>0, <2>1, <2>2, EntriesKept DEF EntryInv
<1>4. CASE ThreadNext(Looper)
  <2>1. CASE Fetch(Looper)
    BY <1>0, <2>1, EntriesOfFetch
  <2>2. CASE TakeBlock(Looper)
    <3>1. /\ Found(Looper) \in DOMAIN mOutBuffers /\ UNCHANGED <<group, memory>>
          /\ mOutBuffers' = [mOutBuffers EXCEPT ![Found(Looper)].site = "C2"]
      BY <1>0, <2>2, FoundIs DEF TakeBlock, mppVars, MpiSites
    <3> DEFINE i == Found(Looper)
    <3> HIDE DEF i
    <3>2. /\ DOMAIN mOutBuffers' = DOMAIN mOutBuffers
          /\ mOutBuffers'[i].index = mOutBuffers[i].index
          /\ mOutBuffers'[i].generation = mOutBuffers[i].generation
          /\ mOutBuffers'[i].mppBuffer = mOutBuffers[i].mppBuffer
          /\ \A j \in DOMAIN mOutBuffers : j # i => mOutBuffers'[j] = mOutBuffers[j]
      <4>1. i \in DOMAIN mOutBuffers /\ mOutBuffers' = [mOutBuffers EXCEPT ![i].site = "C2"]
        BY <3>1 DEF i
      <4>2. QED
        BY <1>0, <4>1, SiteIs
    <3>3. SameEntries(mOutBuffers', mOutBuffers) /\ GroupKept
      BY <3>1, <3>2 DEF SameEntries, BlockOf, GroupKept
    <3>4. QED
      BY <1>0, <3>3, EntriesKept DEF EntryInv
  <2>3. CASE DropFrame(Looper)
    <3>1. /\ PutOne(frame[Looper]) /\ UNCHANGED <<mOutBuffers, group>>
          /\ frame[Looper] \in Buf
      BY <1>0, <2>3 DEF DropFrame, decVars, HandInv, OtherTypes
    <3>2. QED
      BY <1>3, <3>1
  <2>4. CASE InfoChangeClear(Looper)
    BY <1>1, <2>4 DEF InfoChangeClear, ClearOutBuffers
  <2>5. CASE InfoChangeReady(Looper)
    BY <1>0, <1>1, <2>5 DEF InfoChangeReady, decVars, DirtyInv, Dirty
  <2>6. CASE \/ Begin(Looper) \/ EnsureBegin(Looper) \/ EnsureEnd(Looper)
             \/ FetchFails(Looper) \/ NoFrame(Looper) \/ GetFrame(Looper)
             \/ FinishWork(Looper)
    BY <1>2, <2>6 DEF Begin, EnsureBegin, EnsureEnd, FetchFails, NoFrame, GetFrame,
                      FinishWork, Leave, decVars, mppVars
  <2>7. QED
    BY <1>4, <2>1, <2>2, <2>3, <2>4, <2>5, <2>6 DEF ThreadNext, InCall
<1>5. CASE FlushClear
  BY <1>1, <1>5 DEF FlushClear, ClearOutBuffers
<1>6. CASE FlushGroup \/ FlushReset
  BY <1>0, <1>1, <1>6 DEF FlushGroup, FlushReset, decVars, DirtyInv, Dirty
<1>7. CASE MppRelease
  <2>1. /\ \E x \in held : PutOne(x) /\ x \in Buf
        /\ UNCHANGED <<mOutBuffers, group>>
    BY <1>0, <1>7 DEF MppRelease, decVars, MppTypes
  <2>2. QED
    BY <1>3, <2>1
<1>8. CASE MppDecode \/ MppInfoChange \/ ClientReturns \/ NewSurface \/ UNCHANGED vars
  BY <1>2, <1>8 DEF MppDecode, MppInfoChange, ClientReturns, NewSurface, decVars, mppVars,
                    vars
<1>9. QED
  BY <1>0, <1>4, <1>5, <1>6, <1>7, <1>8 DEF Next, FlushNext, EnvironmentNext

\* If no buffer comes to MPP, and those MPP has keep their places, the
\* invariant stays.
LEMMA HasFewer ==
    ASSUME SafeInv, ~Dirty, GroupKept,
           \A b \in Buf : Has(b)' => Has(b) /\ (Placed(b) => Placed(b)')
    PROVE  HasInv'
<1>1. \A b \in Buf : Has(b)' => Has(b) /\ Placed(b) /\ Placed(b)'
  BY DEF SafeInv, HasInv
<1>2. \A b \in Buf : Placed(b) => memory'[b] = memory[b]
  BY DEF Placed, GroupKept
<1>3. \A a, b \in Buf : Has(a)' /\ Has(b)' /\ memory'[a] = memory'[b] => a = b
  BY <1>1, <1>2 DEF SafeInv, HasInv
<1>4. QED
  BY <1>1, <1>3 DEF HasInv

\* They do when the table, the surface and the client are left alone.
LEMMA PlacedKept ==
    ASSUME NEW b \in Buf, Placed(b), GroupKept,
           UNCHANGED <<mOutBuffers, outblock, shown, surface, free>>
    PROVE  Placed(b)'
<1>1. b \in group' /\ memory'[b] = memory[b]
  BY DEF Placed, GroupKept
<1>2. Offered' = Offered
  BY DEF Offered
<1>3. QED
  BY <1>1, <1>2 DEF Placed

\* So a step that only moves MPP's buffers keeps the invariant.
LEMMA HasQuiet ==
    ASSUME SafeInv, ~Dirty, GroupKept, \A b \in Buf : Has(b)' => Has(b),
           UNCHANGED <<mOutBuffers, outblock, shown, surface, free>>
    PROVE  HasInv'
  BY HasFewer, PlacedKept

\* A put leaves the buffer unused, or with a reference picture.
LEMMA PutGives ==
    ASSUME SafeInv, NEW x \in Buf, PutOne(x), UNCHANGED <<group, frames>>,
           held' \subseteq held, \A b \in Buf : b \in InHand' => b \in InHand
    PROVE  /\ GroupKept /\ \A b \in Buf : Has(b)' => Has(b) \/ b = x
           /\ Has(x)' /\ x \notin held' => Has(x) \/ (ref[x] = 1 /\ x \in group)
<1>0. MppTypes /\ \A b \in held : b \in Buf
  BY DEF SafeInv, HoldInv, TypeInv, MppTypes
<1>1. /\ \A b \in Buf : ref'[b] = IF b = x THEN ref[b] - 1 ELSE ref[b]
      /\ \A b \in Elements(unused') : \/ b \in Elements(unused)
                                      \/ b = x /\ ref[x] = 1 /\ x \in group
      /\ \A b \in Buf : memory'[b] = IF ref'[b] <= 0 /\ b \notin group
                                     THEN None ELSE memory[b]
  BY <1>0, PutOneIs
<1>2. GroupKept
  BY <1>0, <1>1, PutKeepsGroup
<1>3. \A b \in Buf : Has(b)' => Has(b) \/ b = x
  BY <1>1 DEF Has
<1>4. Has(x)' /\ x \notin held' => Has(x) \/ (ref[x] = 1 /\ x \in group)
  BY <1>1 DEF Has
<1>5. QED
  BY <1>2, <1>3, <1>4

\* The frames go from MPP to the thread, or are dropped.
LEMMA HasOfFrames ==
    ASSUME Drainer = {}, SafeInv, ~Dirty, GetFrame(Looper) \/ DropFrame(Looper)
    PROVE  HasInv'
<1>0. /\ MppTypes /\ OtherTypes /\ HandInv /\ Thread = {Looper} /\ HolderInv /\ RefInv
  BY DEF SafeInv, HoldInv, TypeInv, Thread
<1>1. UNCHANGED <<mOutBuffers, outblock, shown, surface, free, group, held>>
  BY DEF GetFrame, DropFrame, decVars, clientVars
<1>2. CASE GetFrame(Looper)
  <2>1. /\ frames # <<>> /\ frames' = Tail(frames) /\ UNCHANGED <<unused, ref, memory>>
        /\ frame' = frame \/ frame' = [frame EXCEPT ![Looper] = Head(frames)]
    BY <1>2 DEF GetFrame
  <2>2. Elements(frames) = {Head(frames)} \cup Elements(frames')
    BY <1>0, <2>1, TailElements DEF MppTypes
  <2>3. \A b \in Buf : b \in InHand' => b \in InHand \/ b \in Elements(frames)
    BY <1>0, <2>1, <2>2 DEF InHand, OtherTypes
  <2>4. \A b \in Buf : Has(b)' => Has(b)
    BY <1>1, <2>1, <2>2, <2>3 DEF Has
  <2>5. QED
    BY <1>1, <2>1, <2>4, HasQuiet DEF GroupKept
<1>3. CASE DropFrame(Looper)
  <2> DEFINE x == frame[Looper]
  <2>1. /\ PutOne(x) /\ UNCHANGED <<frames>> /\ x \in Buf /\ x \in InHand
        /\ frame' = [frame EXCEPT ![Looper] = None]
    BY <1>0, <1>3 DEF DropFrame, HandInv, OtherTypes, InHand
  <2>2. \A b \in Buf : b \in InHand' => b \in InHand
    BY <1>0, <2>1, HandIs
  <2>3. Has(x)
    BY <2>1 DEF Has
  <2> HIDE DEF x
  <2>4. GroupKept /\ \A b \in Buf : Has(b)' => Has(b)
    BY <1>1, <2>1, <2>2, <2>3, PutGives
  <2>5. QED
    BY <1>1, <2>4, HasQuiet
<1>4. QED
  BY <1>2, <1>3

\* MPP decodes into a buffer it has, and gives up a reference picture.
LEMMA HasOfMpp ==
    ASSUME SafeInv, ~Dirty, MppDecode \/ MppRelease \/ MppInfoChange
    PROVE  HasInv'
<1>0. /\ MppTypes /\ UnusedInv /\ HolderInv
  BY DEF SafeInv, HoldInv, TypeInv
<1>1. /\ UNCHANGED <<mOutBuffers, outblock, shown, surface, free, group, frame>>
      /\ InHand' = InHand
  BY DEF MppDecode, MppRelease, MppInfoChange, decVars, clientVars, threadVars, InHand
<1>2. CASE MppDecode
  <2> DEFINE x == Head(unused)
  <2>1. /\ UNCHANGED memory /\ frames' = Append(frames, x) /\ unused' = Tail(unused)
        /\ unused # <<>>
        /\ \/ ref' = [ref EXCEPT ![x] = 1] /\ held' = held
           \/ ref' = [ref EXCEPT ![x] = 2] /\ held' = held \cup {x}
    BY <1>2 DEF MppDecode
  <2>2. /\ Elements(unused) = {x} \cup Elements(unused') /\ x \in Buf
    BY <1>0, <2>1, TailElements DEF MppTypes
  <2>3. Elements(frames') = Elements(frames) \cup {x}
    <3>1. x \in Buf \cup {Info} /\ frames \in Seq(Buf \cup {Info})
      BY <1>0, <2>2 DEF MppTypes
    <3>2. QED
      BY <2>1, <3>1, AppendElements
  <2>4. \A b \in Buf : b # x => ref'[b] = ref[b] /\ (b \in held' => b \in held)
    BY <1>0, <2>1 DEF MppTypes
  <2>5. Has(x)
    BY <2>2 DEF Has
  <2> HIDE DEF x
  <2>6. \A b \in Buf : Has(b)' => Has(b)
    BY <1>1, <2>2, <2>3, <2>4, <2>5 DEF Has
  <2>7. QED
    BY <1>1, <2>1, <2>6, HasQuiet DEF GroupKept
<1>3. CASE MppRelease
  <2>1. PICK x \in held : held' = held \ {x} /\ PutOne(x) /\ frames' = frames
    BY <1>3 DEF MppRelease
  <2>2. x \in Buf
    BY <1>0 DEF MppTypes
  <2>3. /\ GroupKept /\ \A b \in Buf : Has(b)' => Has(b) \/ b = x
        /\ Has(x)' /\ x \notin held' => Has(x) \/ (ref[x] = 1 /\ x \in group)
    BY <1>1, <2>1, <2>2, PutGives
  <2>4. Has(x)' => Has(x)
    BY <2>1, <2>3 DEF Has
  <2>5. QED
    BY <1>1, <2>3, <2>4, HasQuiet
<1>4. CASE MppInfoChange
  <2>1. UNCHANGED <<ref, unused, held, memory>> /\ frames' = Append(frames, Info)
    BY <1>4 DEF MppInfoChange
  <2>2. Elements(frames') = Elements(frames) \cup {Info}
    BY <1>0, <2>1, AppendElements DEF MppTypes
  <2>3. \A b \in Buf : b # Info
    BY BuffersAssumption
  <2>4. \A b \in Buf : Has(b)' => Has(b)
    BY <1>1, <2>1, <2>2, <2>3 DEF Has
  <2>5. QED
    BY <1>1, <2>1, <2>4, HasQuiet DEF GroupKept
<1>5. QED
  BY <1>2, <1>3, <1>4

\* The block of a frame goes to the client: its buffer is no longer MPP's.
LEMMA HasOfTake ==
    ASSUME Drainer = {}, SafeInv, ~Dirty, TakeBlock(Looper)
    PROVE  HasInv'
<1>0. /\ mOutBuffers \in Seq(OutBuffer) /\ HoldInv /\ MppTypes /\ OtherTypes
      /\ Thread = {Looper} /\ Looper \in Thread /\ HolderInv /\ RefInv /\ UnusedInv
      /\ EntryInv /\ HasInv /\ outblock \in [Thread -> Block \cup {None}]
  BY DEF SafeInv, HoldInv, TypeInv, OwnedInv, TableOK, Thread
<1>x. PICK x \in Buf : x = frame[Looper]
  BY <1>0, FoundIs
<1> DEFINE n == Found(Looper)
           k == BlockOf(mOutBuffers[n])
<1>1. /\ n \in DOMAIN mOutBuffers /\ n \in MpiSites(mOutBuffers)
      /\ mOutBuffers[n].mppBuffer = x
      /\ x \in InHand /\ x \notin C2Buffers(mOutBuffers)
  BY <1>0, <1>x, FoundIs DEF MpiSites
<1>2. /\ mOutBuffers' = [mOutBuffers EXCEPT ![n].site = "C2"]
      /\ outblock' = [outblock EXCEPT ![Looper] = k]
      /\ frame' = [frame EXCEPT ![Looper] = None]
      /\ UNCHANGED <<shown, surface, free, ref, group, unused, frames, held, memory>>
  BY DEF TakeBlock, mppVars, clientVars, BlockOf
<1>3. memory[x] = k
  BY <1>0, <1>1 DEF EntryInv, OwnBuffers
<1> HIDE DEF n, k
<1>4. /\ C2Buffers(mOutBuffers') = C2Buffers(mOutBuffers) \cup {x}
      /\ DOMAIN mOutBuffers' = DOMAIN mOutBuffers /\ mOutBuffers'[n].site = "C2"
      /\ \A j \in DOMAIN mOutBuffers : j # n => mOutBuffers'[j] = mOutBuffers[j]
  <2>1. /\ n \in DOMAIN mOutBuffers /\ mOutBuffers[n].mppBuffer \notin C2Buffers(mOutBuffers)
        /\ mOutBuffers' = [mOutBuffers EXCEPT ![n].site = "C2"] /\ C2Once(mOutBuffers)
        /\ mOutBuffers[n].mppBuffer = x
    BY <1>0, <1>1, <1>2 DEF HolderInv
  <2>2. C2Buffers(mOutBuffers') = C2Buffers(mOutBuffers) \cup {mOutBuffers[n].mppBuffer}
    BY <1>0, <2>1, TakenIs
  <2>3. /\ DOMAIN mOutBuffers' = DOMAIN mOutBuffers /\ mOutBuffers'[n].site = "C2"
        /\ \A j \in DOMAIN mOutBuffers : j # n => mOutBuffers'[j] = mOutBuffers[j]
    BY <1>0, <2>1, SiteIs
  <2>4. QED
    BY <2>1, <2>2, <2>3
<1>5. \A b \in Buf : b \in InHand' <=> b \in InHand /\ b # x
  BY <1>0, <1>x, <1>2, HandIs
<1>6. Has(x)
  BY <1>1 DEF Has
<1>7. ~Has(x)'
  <2>1. x \notin Elements(frames) /\ ref[x] \in Int /\ ref[x] >= Holders(x)
    BY <1>0, <1>1 DEF HolderInv, RefInv, MppTypes
  <2>2. Holders(x) \in Int /\ Holders(x) >= 1 /\ (x \in held => Holders(x) = 2)
    BY <1>1 DEF Holders
  <2>3. x \notin Elements(unused)
    <3>1. ref[x] # 0
      BY <2>1, <2>2
    <3>2. QED
      BY <1>0, <3>1 DEF UnusedInv
  <2>4. ~(x \in held /\ ref[x] = 1)
    BY <2>1, <2>2
  <2>5. QED
    BY <1>1, <1>2, <1>5, <2>1, <2>3, <2>4 DEF Has
<1>8. outblock'[Looper] = k /\ \A t \in Thread : outblock'[t] = k
  BY <1>0, <1>2
<1>9. ASSUME NEW b \in Buf, Has(b)'
      PROVE  Has(b) /\ (Placed(b) => Placed(b)')
  <2>1. b # x
    BY <1>7, <1>9
  <2>2. Has(b)
    BY <1>2, <1>5, <1>9 DEF Has
  <2>3. memory[b] # k
    BY <1>0, <1>1, <1>3, <1>6, <2>1, <2>2 DEF HasInv
  <2>4. Offered' = Offered
    BY <1>2 DEF Offered
  <2>5. \A i \in MpiSites(mOutBuffers') : /\ i \in MpiSites(mOutBuffers)
                                          /\ mOutBuffers'[i] = mOutBuffers[i]
    BY <1>4 DEF MpiSites
  <2>6. ASSUME Placed(b) PROVE Placed(b)'
    <3>1. /\ b \in group' /\ memory'[b] \notin shown' \cup Offered'
          /\ memory'[b].generation <= surface'
      BY <1>2, <2>4, <2>6 DEF Placed
    <3>2. \A t \in Thread : outblock'[t] # memory'[b]
      BY <1>2, <1>8, <2>3
    <3>3. b \notin C2Buffers(mOutBuffers')
      BY <1>4, <2>1, <2>6 DEF Placed
    <3>4. \A i \in MpiSites(mOutBuffers') :
             BlockOf(mOutBuffers'[i]) = memory'[b] => mOutBuffers'[i].mppBuffer = b
      BY <1>2, <2>5, <2>6 DEF Placed
    <3>5. QED
      BY <3>1, <3>2, <3>3, <3>4 DEF Placed
  <2>7. QED
    BY <2>2, <2>6
<1>10. GroupKept
  BY <1>2 DEF GroupKept
<1>11. QED
  BY <1>9, <1>10, HasFewer

\* The client gets blocks that are not MPP's, and gives such blocks back.
LEMMA HasOfClient ==
    ASSUME SafeInv, ~Dirty,
           (\E t \in Thread : FinishWork(t)) \/ ClientReturns \/ NewSurface
    PROVE  HasInv'
<1>0. /\ TokenInv /\ TableOK /\ surface \in Nat
      /\ \A k \in Block : k # None /\ k.generation \in Nat
      /\ memory \in [Buf -> Block \cup {None}] /\ UnusedInv
  BY BuffersAssumption
     DEF SafeInv, HoldInv, TypeInv, MppTypes, OwnedInv, TableOK, Generation, Block
<1>1. UNCHANGED <<mOutBuffers, frame, group, unused, frames, held, ref, memory>>
  BY DEF FinishWork, ClientReturns, NewSurface, decVars, threadVars, mppVars
<1>2. GroupKept /\ \A b \in Buf : Has(b)' => Has(b)
  BY <1>1 DEF GroupKept, Has, InHand
<1>3. \A b \in Buf : Placed(b) => memory[b] \in Block
  BY <1>0 DEF Placed, UnusedInv
<1>4. SUFFICES ASSUME NEW b \in Buf, Placed(b) PROVE Placed(b)'
  BY <1>2, HasFewer
<1>5. SUFFICES /\ memory[b] \notin shown' \cup Offered' /\ memory[b].generation <= surface'
               /\ \A t \in Thread : outblock'[t] # memory[b]
  BY <1>1, <1>4 DEF Placed
<1>6. memory[b] \in Block
  BY <1>3, <1>4
<1>7. ASSUME NEW t \in Thread, FinishWork(t)
      PROVE  /\ memory[b] \notin shown' \cup Offered' /\ memory[b].generation <= surface'
             /\ \A u \in Thread : outblock'[u] # memory[b]
  <2>1. /\ UNCHANGED <<surface, free>> /\ outblock' = [outblock EXCEPT ![t] = None]
        /\ shown' = shown \cup {outblock[t]}
    BY <1>7 DEF FinishWork
  <2>2. Offered' = Offered
    BY <2>1 DEF Offered
  <2>3. \A u \in Thread : outblock'[u] = outblock[u] \/ outblock'[u] = None
    BY <1>0, <2>1 DEF TableOK
  <2>4. QED
    BY <1>0, <1>4, <1>6, <2>1, <2>2, <2>3 DEF Placed
<1>8. CASE ClientReturns
  <2>1. PICK k \in shown :
          /\ shown' = shown \ {k}
          /\ free' = free \cup IF k.generation = surface THEN {k.slot} ELSE {}
    BY <1>8 DEF ClientReturns
  <2>2. UNCHANGED <<outblock, surface>>
    BY <1>8 DEF ClientReturns, threadVars
  <2>3. ASSUME NEW x \in Offered' PROVE x \in Offered \cup {k}
    <3>1. x \in Block /\ k \in Block /\ x.generation = surface /\ x.slot \in free'
      BY <1>0, <2>2, <2>3 DEF Offered, TableOK
    <3>2. CASE x.slot \in free
      BY <3>1, <3>2 DEF Offered
    <3>3. CASE k.generation = surface /\ x.slot = k.slot
      BY <3>1, <3>3 DEF Block
    <3>4. QED
      BY <2>1, <3>1, <3>2, <3>3
  <2>4. QED
    BY <1>4, <2>1, <2>2, <2>3 DEF Placed
<1>9. CASE NewSurface
  <2>1. surface' = surface + 1 /\ UNCHANGED <<outblock, shown>>
    BY <1>9 DEF NewSurface, threadVars
  <2>2. memory[b].generation <= surface /\ memory[b].generation \in Nat
    BY <1>0, <1>4, <1>6 DEF Placed
  <2>3. memory[b].generation <= surface + 1 /\ memory[b].generation # surface + 1
    BY <1>0, <2>2
  <2>4. memory[b] \notin Offered'
    BY <2>1, <2>3 DEF Offered
  <2>5. QED
    BY <1>4, <2>1, <2>3, <2>4 DEF Placed
<1>10. QED
  BY <1>7, <1>8, <1>9

\* A block the surface gives is MPP's, under one buffer.
LEMMA HasOfFetch ==
    ASSUME SafeInv, ~Dirty, NEW t \in Thread, Fetch(t)
    PROVE  HasInv'
<1>0. /\ mOutBuffers \in Seq(OutBuffer) /\ MppTypes /\ HoldInv /\ HolderInv /\ UnusedInv
      /\ EntryInv /\ HasInv /\ TokenInv /\ TokenInv' /\ surface \in Generation
      /\ free \subseteq Slot /\ surface <= surface
  BY TokensOfFetch, BuffersAssumption
     DEF SafeInv, HoldInv, TypeInv, OwnedInv, TableOK, Generation
<1>1. PICK slot \in free, s \in Seq(OutBuffer) :
              /\ free' = free \ {slot} /\ Suffix(s, mOutBuffers)
              /\ \/ \E i \in C2Sites(s) : Again(s, i, slot)
                 \/ \E b \in Buf : Fresh(s, b, slot)
  BY <1>0, FetchIs
<1>2. PICK k \in Block : k = [slot |-> slot, generation |-> surface]
  BY <1>0 DEF Block
<1>3. /\ UNCHANGED <<pc, frame, frames, held, outblock, shown, surface>>
      /\ InHand' = InHand /\ ~Dirty'
  BY DEF Fetch, InHand, Dirty
<1>4. /\ k \in Offered /\ Offered' = Offered \ {k}
      /\ k \notin shown /\ \A u \in Thread : outblock[u] # k
  <2>1. k \in Offered
    BY <1>0, <1>1, <1>2 DEF Offered
  <2>2. Offered' = Offered \ {k}
    BY <1>1, <1>2, <1>3 DEF Offered, Block
  <2>3. QED
    BY <1>0, <2>1, <2>2 DEF TokenInv
<1>5. EntryInv' /\ GroupKept
  BY EntriesOfFetch
<1>6. \E x \in Buf : /\ ~Has(x) /\ x \in group' /\ memory'[x] = k
                     /\ \A b \in Buf : Has(b)' => Has(b) \/ b = x
                     /\ \A i \in MpiSites(mOutBuffers') :
                           \/ mOutBuffers'[i].mppBuffer = x /\ BlockOf(mOutBuffers'[i]) = k
                           \/ \E j \in MpiSites(mOutBuffers) : mOutBuffers'[i] = mOutBuffers[j]
                     /\ C2Buffers(mOutBuffers') \subseteq C2Buffers(mOutBuffers) \ {x}
  <2>1. ASSUME NEW i \in MpiSites(s)
        PROVE  \E j \in MpiSites(mOutBuffers) : s[i] = mOutBuffers[j]
    <3>1. PICK j \in DOMAIN mOutBuffers : s[i] = mOutBuffers[j]
      BY <1>0, <1>1, SuffixIs DEF MpiSites
    <3>2. QED
      BY <3>1 DEF MpiSites
  <2>2. C2Buffers(s) \subseteq C2Buffers(mOutBuffers) /\ C2Once(s)
    BY <1>0, <1>1, SuffixIs DEF HolderInv
  <2>3. OwnBuffers(s)
    BY <1>0, <1>1, OwnSuffix DEF EntryInv
  <2>4. ASSUME NEW i \in C2Sites(s), Again(s, i, slot)
        PROVE  \E x \in Buf :
                  /\ ~Has(x) /\ x \in group' /\ memory'[x] = k
                  /\ \A b \in Buf : Has(b)' => Has(b) \/ b = x
                  /\ \A j \in MpiSites(mOutBuffers') :
                        \/ mOutBuffers'[j].mppBuffer = x /\ BlockOf(mOutBuffers'[j]) = k
                        \/ \E l \in MpiSites(mOutBuffers) : mOutBuffers'[j] = mOutBuffers[l]
                  /\ C2Buffers(mOutBuffers') \subseteq C2Buffers(mOutBuffers) \ {x}
    <3>1. PICK x \in Buf : x = s[i].mppBuffer
      BY EntryTypes DEF C2Sites, OutBuffer
    <3>2. i \in DOMAIN s /\ x \in C2Buffers(s)
      BY <3>1 DEF C2Sites, C2Buffers
    <3>3. /\ PutOne(x) /\ group' = group /\ mOutBuffers' = [s EXCEPT ![i].site = "MPI"]
          /\ BlockOf(s[i]) = k
      BY <1>2, <2>4, <3>1 DEF Again, BlockOf
    <3>4. x \in group /\ memory[x] = k
      BY <2>3, <3>1, <3>2, <3>3 DEF OwnBuffers
    <3>5. ~Has(x)
      BY <1>0, <2>2, <3>2 DEF HasInv, Placed
    <3>6. \A b \in Buf : Has(b)' => Has(b) \/ b = x
      BY <1>3, <3>3, PutGives
    <3>7. C2Buffers(mOutBuffers') = C2Buffers(s) \ {x}
      BY <2>2, <3>1, <3>3, BackIs
    <3>8. /\ DOMAIN mOutBuffers' = DOMAIN s
          /\ mOutBuffers'[i].index = s[i].index
          /\ mOutBuffers'[i].generation = s[i].generation
          /\ mOutBuffers'[i].mppBuffer = s[i].mppBuffer
          /\ \A j \in DOMAIN s : j # i => mOutBuffers'[j] = s[j]
      BY <3>2, <3>3, SiteIs
    <3>9. \A j \in MpiSites(mOutBuffers') :
             \/ mOutBuffers'[j].mppBuffer = x /\ BlockOf(mOutBuffers'[j]) = k
             \/ j \in MpiSites(s) /\ mOutBuffers'[j] = s[j]
      BY <3>1, <3>3, <3>8 DEF MpiSites, BlockOf
    <3>10. x \in group' /\ memory'[x] = k
      BY <1>5, <3>4 DEF GroupKept
    <3>11. C2Buffers(mOutBuffers') \subseteq C2Buffers(mOutBuffers) \ {x}
      BY <2>2, <3>7
    <3>12. \A j \in MpiSites(mOutBuffers') :
              \/ mOutBuffers'[j].mppBuffer = x /\ BlockOf(mOutBuffers'[j]) = k
              \/ \E l \in MpiSites(mOutBuffers) : mOutBuffers'[j] = mOutBuffers[l]
      BY <2>1, <3>9
    <3>13. QED
      BY <3>5, <3>6, <3>10, <3>11, <3>12
  <2>5. ASSUME NEW x \in Buf, Fresh(s, x, slot)
        PROVE  /\ ~Has(x) /\ x \in group' /\ memory'[x] = k
               /\ \A b \in Buf : Has(b)' => Has(b) \/ b = x
               /\ \A j \in MpiSites(mOutBuffers') :
                     \/ mOutBuffers'[j].mppBuffer = x /\ BlockOf(mOutBuffers'[j]) = k
                     \/ \E l \in MpiSites(mOutBuffers) : mOutBuffers'[j] = mOutBuffers[l]
               /\ C2Buffers(mOutBuffers') \subseteq C2Buffers(mOutBuffers) \ {x}
    <3> DEFINE e == [index |-> slot, generation |-> surface, mppBuffer |-> x, site |-> "MPI"]
    <3>1. e \in OutBuffer /\ mOutBuffers' = Append(s, e) /\ e.site = "MPI"
      BY <1>0, <2>5 DEF Fresh, OutBuffer
    <3>2. e.mppBuffer = x /\ BlockOf(e) = k
      BY <1>2 DEF BlockOf
    <3> HIDE DEF e
    <3>3. /\ x \notin group /\ group' = group \cup {x} /\ ref' = ref
          /\ unused' = Append(unused, x) /\ memory' = [memory EXCEPT ![x] = k]
      BY <1>0, <1>2, <2>5 DEF Fresh, UnusedInv
    <3>4. x \in group' /\ memory'[x] = k /\ Elements(unused') = Elements(unused) \cup {x}
      BY <1>0, <3>3, AppendElements DEF MppTypes
    <3>5. ~Has(x)
      BY <1>0, <3>3 DEF HasInv, Placed
    <3>6. \A b \in Buf : Has(b)' => Has(b) \/ b = x
      BY <1>3, <3>3, <3>4 DEF Has
    <3>7. /\ C2Buffers(mOutBuffers') = C2Buffers(s)
          /\ \A i \in DOMAIN mOutBuffers' : \/ i \in DOMAIN s /\ mOutBuffers'[i] = s[i]
                                            \/ i = Len(s) + 1 /\ mOutBuffers'[i] = e
      BY <3>1, AppendIs
    <3>8. x \notin C2Buffers(s)
      BY <2>3, <3>3 DEF OwnBuffers, C2Buffers, C2Sites
    <3>9. \A j \in MpiSites(mOutBuffers') :
             \/ mOutBuffers'[j].mppBuffer = x /\ BlockOf(mOutBuffers'[j]) = k
             \/ j \in MpiSites(s) /\ mOutBuffers'[j] = s[j]
      BY <3>2, <3>7 DEF MpiSites
    <3>10. QED
      BY <2>1, <2>2, <3>4, <3>5, <3>6, <3>7, <3>8, <3>9
  <2>6. QED
    BY <1>1, <2>4, <2>5
<1>7. PICK x \in Buf : /\ ~Has(x) /\ x \in group' /\ memory'[x] = k
                       /\ \A b \in Buf : Has(b)' => Has(b) \/ b = x
                       /\ \A i \in MpiSites(mOutBuffers') :
                             \/ mOutBuffers'[i].mppBuffer = x /\ BlockOf(mOutBuffers'[i]) = k
                             \/ \E j \in MpiSites(mOutBuffers) :
                                   mOutBuffers'[i] = mOutBuffers[j]
                       /\ C2Buffers(mOutBuffers') \subseteq C2Buffers(mOutBuffers) \ {x}
  BY <1>6
<1>8. \A b \in Buf : Has(b) => /\ b # x /\ Placed(b) /\ b \in group' /\ memory'[b] = memory[b]
                               /\ memory[b] # k
  BY <1>0, <1>4, <1>5, <1>7 DEF HasInv, Placed, GroupKept
<1>9. \A a, b \in Buf : Has(a)' /\ Has(b)' /\ memory'[a] = memory'[b] => a = b
  BY <1>0, <1>7, <1>8 DEF HasInv
<1>10. Placed(x)'
  <2>1. k \notin shown' \cup Offered' /\ \A u \in Thread : outblock'[u] # k
    BY <1>3, <1>4
  <2>2. k.generation <= surface'
    BY <1>0, <1>2, <1>3
  <2>3. ASSUME NEW i \in MpiSites(mOutBuffers'), BlockOf(mOutBuffers'[i]) = k
        PROVE  mOutBuffers'[i].mppBuffer = x
    BY <1>0, <1>4, <1>7, <2>3 DEF TokenInv
  <2>4. QED
    BY <1>7, <2>1, <2>2, <2>3 DEF Placed
<1>11. ASSUME NEW b \in Buf, Has(b) PROVE Placed(b)'
  <2>1. Placed(b) /\ b # x /\ b \in group' /\ memory'[b] = memory[b] /\ memory[b] # k
    BY <1>8, <1>11
  <2>2. /\ memory[b] \notin shown' \cup Offered' /\ memory[b].generation <= surface'
        /\ \A u \in Thread : outblock'[u] # memory[b]
    BY <1>3, <1>4, <2>1 DEF Placed
  <2>3. ASSUME NEW i \in MpiSites(mOutBuffers'), BlockOf(mOutBuffers'[i]) = memory[b]
        PROVE  mOutBuffers'[i].mppBuffer = b
    BY <1>7, <2>1, <2>3 DEF Placed
  <2>4. b \notin C2Buffers(mOutBuffers')
    BY <1>7, <2>1 DEF Placed
  <2>5. QED
    BY <2>1, <2>2, <2>3, <2>4 DEF Placed
<1>12. QED
  BY <1>7, <1>9, <1>10, <1>11 DEF HasInv

\* When the group has been cleared and MPP reset, MPP has no buffer.
LEMMA NothingLeft ==
    ASSUME Drainer = {}, SafeInv, InfoChangeReady(Looper) \/ FlushReset
    PROVE  \A b \in Buf : ~Has(b)'
<1>0. /\ InfoInv /\ DirtyInv /\ HandInv /\ Thread = {Looper} /\ HoldInv
      /\ frame \in [Thread -> Buf \cup {None}] /\ \A b \in Buf : b # None
  BY BuffersAssumption DEF SafeInv, HoldInv, TypeInv, OtherTypes, Thread
<1>1. frame' = frame /\ frame[Looper] = None
  BY <1>0 DEF InfoChangeReady, FlushReset, HandInv
<1>2. \A b \in Buf : b \notin InHand'
  BY <1>0, <1>1 DEF InHand
<1>3. CASE InfoChangeReady(Looper)
  <2>1. unused' = <<>> /\ frames' = <<>> /\ held' = {}
    BY <1>0, <1>3 DEF InfoChangeReady, GroupClear, InfoInv
  <2>2. QED
    BY <1>2, <2>1 DEF Has, Elements
<1>4. CASE FlushReset
  <2>1. frames' = <<>> /\ held' = {} /\ group' = {}
    BY <1>0, <1>4 DEF FlushReset, DirtyInv
  <2>2. UnusedInv'
    BY <1>0, <1>4, HoldersOfReset
  <2>3. \A b \in Buf : b \notin Elements(unused')
    BY <2>1, <2>2 DEF UnusedInv
  <2>4. QED
    BY <1>2, <2>1, <2>3 DEF Has, Elements
<1>5. QED
  BY <1>3, <1>4

\* Only these two steps end the state in which the table is dirty.
LEMMA DirtyStays ==
    ASSUME Drainer = {}, SafeInv, Dirty, ~InfoChangeReady(Looper), ~FlushReset, [Next]_vars
    PROVE  Dirty'
<1>0. /\ pc \in [Thread -> Place] /\ Looper \in Thread /\ Thread = {Looper}
  BY DEF SafeInv, HoldInv, TypeInv, OwnedInv, TableOK, Thread
<1>1. CASE ThreadNext(Looper)
  BY <1>0, <1>1 DEF ThreadNext, InCall, Begin, Idle, EnsureBegin, EnsureEnd, Fetch,
     FetchFails, NoFrame, GetFrame, TakeBlock, DropFrame, FinishWork, InfoChangeClear,
     Goto, Dirty
<1>2. CASE FlushNext
  BY <1>0, <1>2 DEF FlushNext, FlushClear, FlushGroup, Idle, Goto, Dirty
<1>3. CASE EnvironmentNext \/ UNCHANGED vars
  BY <1>3 DEF EnvironmentNext, MppDecode, MppRelease, MppInfoChange, ClientReturns,
              NewSurface, vars, threadVars, Dirty
<1>4. QED
  BY <1>0, <1>1, <1>2, <1>3 DEF Next

\* So every step keeps the blocks MPP has apart from the client's.
LEMMA HasStep ==
    ASSUME Drainer = {}, SafeInv, [Next]_vars PROVE HasInv'
<1>0. /\ pc \in [Thread -> Place] /\ Looper \in Thread /\ Thread = {Looper}
  BY DEF SafeInv, HoldInv, TypeInv, OwnedInv, TableOK, Thread
<1>1. CASE Dirty'
  BY <1>1 DEF HasInv
<1>2. CASE InfoChangeReady(Looper) \/ FlushReset
  BY <1>2, NothingLeft DEF HasInv
<1>3. CASE InfoChangeClear(Looper) \/ FlushClear \/ FlushGroup
  BY <1>0, <1>1, <1>3 DEF InfoChangeClear, FlushClear, FlushGroup, Goto, Dirty
<1>4. ASSUME Dirty, ~InfoChangeReady(Looper), ~FlushReset PROVE Dirty'
  BY <1>4, DirtyStays
<1>5. ASSUME ~Dirty PROVE HasInv'
  <2>1. CASE \/ Begin(Looper) \/ EnsureBegin(Looper) \/ EnsureEnd(Looper)
             \/ FetchFails(Looper) \/ NoFrame(Looper) \/ UNCHANGED vars
    <3>1. UNCHANGED <<mOutBuffers, outblock, shown, surface, free, frame, group, memory,
                      unused, frames, held, ref>>
      BY <2>1 DEF Begin, EnsureBegin, EnsureEnd, FetchFails, NoFrame, Leave, decVars,
                  mppVars, clientVars, vars, threadVars
    <3>2. GroupKept /\ \A b \in Buf : Has(b)' => Has(b)
      BY <3>1 DEF GroupKept, Has, InHand
    <3>3. QED
      BY <1>5, <3>1, <3>2, HasQuiet
  <2>2. CASE Fetch(Looper)
    BY <1>0, <1>5, <2>2, HasOfFetch
  <2>3. CASE GetFrame(Looper) \/ DropFrame(Looper)
    BY <1>5, <2>3, HasOfFrames
  <2>4. CASE TakeBlock(Looper)
    BY <1>5, <2>4, HasOfTake
  <2>5. CASE FinishWork(Looper) \/ ClientReturns \/ NewSurface
    BY <1>0, <1>5, <2>5, HasOfClient
  <2>6. CASE MppDecode \/ MppRelease \/ MppInfoChange
    BY <1>5, <2>6, HasOfMpp
  <2>7. QED
    BY <1>0, <1>2, <1>3, <2>1, <2>2, <2>3, <2>4, <2>5, <2>6
       DEF Next, ThreadNext, InCall, FlushNext, EnvironmentNext
<1>6. QED
  BY <1>1, <1>2, <1>4, <1>5

\* With one thread the invariant holds at first and every step keeps it.
LEMMA SafeStep ==
    ASSUME Drainer = {}
    PROVE  (Init => SafeInv) /\ (SafeInv /\ [Next]_vars => SafeInv')
<1>1. Init => SafeInv
  <2> SUFFICES ASSUME Init PROVE SafeInv
    OBVIOUS
  <2>1. HoldInv /\ Looper \in Thread
    BY HoldInit DEF Thread
  <2>2. /\ mOutBuffers = <<>> /\ frames = <<>> /\ unused = <<>> /\ held = {} /\ ~waiting
        /\ pc = [t \in Thread |-> "idle"] /\ frame = [t \in Thread |-> None]
    BY DEF Init
  <2>3. InfoInv /\ DirtyInv /\ EntryInv
    BY <2>1, <2>2 DEF InfoInv, DirtyInv, Dirty, EntryInv, OwnBuffers
  <2>4. \A b \in Buf : ~Has(b)
    BY <2>2, BuffersAssumption DEF Has, Elements, InHand
  <2>5. QED
    BY <2>1, <2>3, <2>4 DEF SafeInv, HasInv
<1>2. ASSUME SafeInv, [Next]_vars PROVE SafeInv'
  <2>1. HoldInv'
    BY <1>2, HoldStep DEF SafeInv
  <2>2. EntryInv' /\ HasInv'
    BY <1>2, EntryStep, HasStep
  <2>3. InfoInv' /\ DirtyInv'
    <3>1. CASE UNCHANGED vars
      BY <1>2, <3>1 DEF SafeInv, InfoInv, DirtyInv, Dirty, vars, decVars, threadVars, mppVars,
                        clientVars
    <3>2. CASE Next
      <4>1. ThreadNext(Looper) \/ FlushNext \/ EnvironmentNext
        BY <3>2 DEF Next, Thread
      <4>2. QED
        BY <1>2, <4>1, InfoOfThread, InfoOfOthers
    <3>3. QED
      BY <1>2, <3>1, <3>2
  <2>4. QED
    BY <2>1, <2>2, <2>3 DEF SafeInv
<1>3. QED
  BY <1>1, <1>2

\* The invariant of one thread holds in every reachable state.
LEMMA SafeAlways == ASSUME Drainer = {} PROVE Spec => []SafeInv
<1>1. (Init => SafeInv) /\ (SafeInv /\ [Next]_vars => SafeInv')
  BY SafeStep
<1>2. QED
  BY <1>1, PTL DEF Spec

\* While no thread is inside stop() or reset() beside the looper, MPP never
\* decodes into a block the client was given since the last flush, nor into one
\* it is about to be given: for every number of buffers and surfaces, every clear
\* count, any changes of resolution and flushes.
THEOREM NotOverwrittenHolds == ASSUME Drainer = {} PROVE Spec => []NotOverwritten
<1>1. SafeInv => NotOverwritten
  <2>1. SUFFICES ASSUME SafeInv, ~waiting, NEW b \in Elements(unused)
                 PROVE  memory[b] \notin current /\ \A t \in Thread : outblock[t] # memory[b]
    BY DEF NotOverwritten, Writable
  <2>2. b \in Buf /\ current \subseteq shown /\ HandInv /\ InfoInv /\ DirtyInv /\ HasInv
        /\ memory[b] # None /\ Thread = {Looper}
    <3>1. UnusedInv /\ unused \in Seq(Buf)
      BY <2>1 DEF SafeInv, HoldInv, TypeInv, MppTypes
    <3>2. b \in Buf
      BY <2>1, <3>1, EntryIsBuf
    <3>3. QED
      BY <2>1, <3>1, <3>2 DEF SafeInv, HoldInv, TypeInv, OtherTypes, UnusedInv, Thread
  <2>3. CASE Dirty
    <3>1. pc[Looper] \in {"flush group", "flush reset"}
      BY <2>1, <2>2, <2>3 DEF InfoInv, Dirty
    <3>2. current = {} /\ outblock[Looper] = None
      BY <2>2, <3>1 DEF DirtyInv, HandInv
    <3>3. QED
      BY <2>2, <3>2
  <2>4. CASE ~Dirty
    BY <2>1, <2>2, <2>4 DEF HasInv, Has, Placed
  <2>5. QED
    BY <2>3, <2>4
<1>2. QED
  BY <1>1, SafeAlways, PTL

-----------------------------------------------------------------------------
(***************************************************************************)
(* One thread and one surface: a block has one buffer.                     *)
(***************************************************************************)

\* A slot is in the table once; a buffer in use has memory; no two buffers have
\* the memory of one block; and none has it without an entry.
OnceInv ==
    /\ \A i, j \in DOMAIN mOutBuffers :
          mOutBuffers[i].index = mOutBuffers[j].index => i = j
    /\ \A b \in Buf : ref[b] >= 1 => memory[b] # None
    /\ \A a, b \in Buf : memory[a] = memory[b] /\ memory[a] # None => a = b
    /\ ~Dirty => \A b \in Buf : memory[b] # None =>
                    \E i \in DOMAIN mOutBuffers : mOutBuffers[i].mppBuffer = b

\* No place is found just when there is none.
LEMMA FirstNone ==
    ASSUME NEW places \in SUBSET (Nat \ {0}), First(places) = 0 PROVE places = {}
<1> SUFFICES ASSUME places # {} PROVE FALSE
  OBVIOUS
<1>1. PICK n \in places : \A m \in places : <<m, n>> \notin OpToRel(<, Nat)
  BY WFMin, NatLessThanWellFounded
<1>2. \A m \in places : ~(m < n)
  BY <1>1 DEF OpToRel
<1>3. \A m \in places : n <= m
  BY <1>2
<1>4. QED
  BY <1>3 DEF First, Min

\* With one surface a commit finds the block's entry if there is one.
LEMMA CommitOfOne ==
    ASSUME SafeInv, MaxSurface = 1, NEW t \in Thread, Fetch(t)
    PROVE  \E slot \in Slot :
              \/ \E i \in DOMAIN mOutBuffers : Again(mOutBuffers, i, slot)
              \/ /\ \E b \in Buf : Fresh(mOutBuffers, b, slot)
                 /\ \A i \in DOMAIN mOutBuffers : mOutBuffers[i].index # slot
<1>0. /\ TypeInv /\ free \subseteq Slot /\ mOutBuffers \in Seq(OutBuffer) /\ surface = 1
      /\ ~mGenerationChange /\ mGeneration \in {0, surface} /\ Generation = {1}
  BY DEF SafeInv, HoldInv, TypeInv, OwnedInv, TableOK, OneInv, OtherTypes, Generation
<1>1. PICK slot \in free : Commit(slot)
  BY DEF Fetch
<1>2. slot \in Slot
  BY <1>0
<1>3. \/ \E i \in DOMAIN mOutBuffers : Again(mOutBuffers, i, slot)
      \/ /\ \E b \in Buf : Fresh(mOutBuffers, b, slot)
         /\ ~SameGeneration(mOutBuffers, FindIndex(mOutBuffers, slot))
  BY <1>0, <1>1, <1>2, CommitIs
<1> DEFINE places == {j \in DOMAIN mOutBuffers : mOutBuffers[j].index = slot}
<1>4. places \in SUBSET (Nat \ {0}) /\ places \in SUBSET Nat
      /\ FindIndex(mOutBuffers, slot) = First(places)
  BY <1>0, EntryTypes DEF FindIndex
<1>5. ASSUME ~SameGeneration(mOutBuffers, FindIndex(mOutBuffers, slot)) PROVE places = {}
  <2>1. CASE First(places) = 0
    BY <1>4, <2>1, FirstNone
  <2>2. CASE First(places) # 0
    <3>1. First(places) \in DOMAIN mOutBuffers
      BY <1>4, <2>2, FirstPlace
    <3>2. mOutBuffers[First(places)] \in OutBuffer
      BY <1>0, <3>1, EntryTypes
    <3>3. mOutBuffers[First(places)].generation = surface
      BY <1>0, <3>2 DEF OutBuffer
    <3>4. QED
      BY <1>4, <1>5, <2>2, <3>3 DEF SameGeneration
  <2>3. QED
    BY <2>1, <2>2
<1>6. QED
  BY <1>2, <1>3, <1>5

\* No buffer gets memory, and one that loses it is not in use.
NoNewMemory ==
    \A b \in Buf : /\ memory'[b] # None => memory'[b] = memory[b]
                   /\ ref'[b] >= 1 => ref[b] >= 1 /\ memory'[b] = memory[b]

\* A put gives no memory.
LEMMA PutGivesNone ==
    ASSUME MppTypes, NEW x \in Buf, PutOne(x) PROVE NoNewMemory
<1>1. /\ \A b \in Buf : ref'[b] = IF b = x THEN ref[b] - 1 ELSE ref[b]
      /\ \A b \in Buf : memory'[b] = IF ref'[b] <= 0 /\ b \notin group
                                     THEN None ELSE memory[b]
  BY PutOneIs
<1>2. ASSUME NEW b \in Buf, ref'[b] >= 1 PROVE ref[b] >= 1 /\ memory'[b] = memory[b]
  <2>1. ref[b] \in Int
    BY DEF MppTypes
  <2>2. ref[b] >= 1 /\ ~(ref'[b] <= 0)
    BY <1>1, <1>2, <2>1
  <2>3. QED
    BY <1>1, <2>2
<1>3. QED
  BY <1>1, <1>2 DEF NoNewMemory

\* Then the invariant stays while the table has the same entries.
LEMMA OnceKept ==
    ASSUME OnceInv, ~Dirty, NoNewMemory, NEW s, s = mOutBuffers,
           SameEntries(mOutBuffers', s)
    PROVE  OnceInv'
<1>1. \A i \in DOMAIN mOutBuffers : mOutBuffers'[i].index = mOutBuffers[i].index
  BY DEF SameEntries, BlockOf
<1>2. QED
  BY <1>1 DEF OnceInv, NoNewMemory, SameEntries

\* Or while it is empty and the group about to be cleared.
LEMMA OnceDirty ==
    ASSUME OnceInv, NoNewMemory, Dirty', mOutBuffers' = <<>>
    PROVE  OnceInv'
  BY DEF OnceInv, NoNewMemory

\* With one surface a reset, like a change of resolution, leaves no memory.
LEMMA OnceNothing ==
    ASSUME Drainer = {}, MaxSurface = 1, SafeInv, SafeInv', OnceInv,
           InfoChangeReady(Looper) \/ FlushReset
    PROVE  OnceInv'
<1>0. /\ InfoInv /\ DirtyInv /\ HandInv /\ Thread = {Looper} /\ RefInv /\ RefInv'
      /\ MppTypes /\ frame \in [Thread -> Buf \cup {None}] /\ \A b \in Buf : b # None
  BY BuffersAssumption DEF SafeInv, HoldInv, TypeInv, OtherTypes, Thread
<1>1. /\ frame' = frame /\ frame[Looper] = None /\ mOutBuffers = <<>>
      /\ mOutBuffers' = <<>>
  BY <1>0 DEF InfoChangeReady, FlushReset, HandInv, DirtyInv, Dirty, decVars
<1>2. \A b \in Buf : b \notin InHand /\ b \notin InHand'
  BY <1>0, <1>1 DEF InHand
<1>3. \A b \in Buf : b \notin C2Buffers(mOutBuffers) /\ b \notin C2Buffers(mOutBuffers')
  BY <1>1 DEF C2Buffers, C2Sites
<1>4. \A b \in Buf : ref'[b] = 0 /\ memory'[b] = None
  <2>1. CASE InfoChangeReady(Looper)
    <3>1. frames = <<>> /\ held = {} /\ ref' = ref
      BY <1>0, <2>1 DEF InfoChangeReady, InfoInv
    <3>2. \A b \in Buf : Holders(b) = 0
      BY <1>2, <1>3, <3>1 DEF Holders, Elements
    <3>3. \A b \in Buf : ref[b] = 0
      BY <1>0, <3>2 DEF RefInv
    <3>4. QED
      BY <2>1, <3>1, <3>3 DEF InfoChangeReady, GroupClear
  <2>2. CASE FlushReset
    <3>1. frames' = <<>> /\ held' = {} /\ group = {}
      BY <1>0, <2>2 DEF FlushReset, DirtyInv
    <3>2. \A b \in Buf : Holders(b)' = 0
      BY <1>2, <1>3, <3>1 DEF Holders, Elements
    <3>3. \A b \in Buf : ref'[b] = 0
      BY <1>0, <3>2 DEF RefInv
    <3>4. QED
      BY <2>2, <3>1, <3>3 DEF FlushReset
  <2>3. QED
    BY <2>1, <2>2
<1>5. QED
  BY <1>1, <1>4 DEF OnceInv

\* A commit of a block the table has keeps the entries, and one of a new block
\* is the first of its slot.
LEMMA OnceOfFetch ==
    ASSUME MaxSurface = 1, SafeInv, OnceInv, ~Dirty, NEW t \in Thread, Fetch(t)
    PROVE  OnceInv'
<1>0. /\ mOutBuffers \in Seq(OutBuffer) /\ MppTypes /\ UnusedInv /\ EntryInv /\ EntryInv'
      /\ surface \in Generation /\ pc' = pc /\ Generation = {1}
      /\ \A k \in Block : k # None
  <2>1. EntryInv'
    BY EntriesOfFetch
  <2>2. Generation = {1}
    BY DEF Generation
  <2>3. \A k \in Block : k # None
    BY BuffersAssumption
  <2>4. QED
    BY <2>1, <2>2, <2>3 DEF SafeInv, HoldInv, TypeInv, OwnedInv, TableOK, Fetch
<1>1. PICK slot \in Slot :
         \/ \E i \in DOMAIN mOutBuffers : Again(mOutBuffers, i, slot)
         \/ /\ \E b \in Buf : Fresh(mOutBuffers, b, slot)
            /\ \A i \in DOMAIN mOutBuffers : mOutBuffers[i].index # slot
  BY CommitOfOne
<1>2. ASSUME NEW i \in DOMAIN mOutBuffers, Again(mOutBuffers, i, slot) PROVE OnceInv'
  <2>1. PICK x \in Buf : x = mOutBuffers[i].mppBuffer
    BY <1>0, EntryTypes DEF OutBuffer
  <2>2. PutOne(x) /\ mOutBuffers' = [mOutBuffers EXCEPT ![i].site = "MPI"]
    BY <1>2, <2>1 DEF Again
  <2>3. /\ DOMAIN mOutBuffers' = DOMAIN mOutBuffers
        /\ mOutBuffers'[i].index = mOutBuffers[i].index
        /\ mOutBuffers'[i].generation = mOutBuffers[i].generation
        /\ mOutBuffers'[i].mppBuffer = mOutBuffers[i].mppBuffer
        /\ \A j \in DOMAIN mOutBuffers : j # i => mOutBuffers'[j] = mOutBuffers[j]
    BY <1>0, <2>2, SiteIs
  <2>4. SameEntries(mOutBuffers', mOutBuffers)
    BY <2>3 DEF SameEntries, BlockOf
  <2>5. NoNewMemory
    BY <1>0, <2>2, PutGivesNone
  <2>6. QED
    BY <2>4, <2>5, OnceKept
<1>3. ASSUME NEW x \in Buf, Fresh(mOutBuffers, x, slot),
             \A i \in DOMAIN mOutBuffers : mOutBuffers[i].index # slot
      PROVE  OnceInv'
  <2> DEFINE e == [index |-> slot, generation |-> surface, mppBuffer |-> x, site |-> "MPI"]
  <2>1. /\ e \in OutBuffer /\ mOutBuffers' = Append(mOutBuffers, e) /\ e.site = "MPI"
        /\ e.index = slot /\ e.mppBuffer = x
    BY <1>0, <1>3 DEF Fresh, OutBuffer
  <2> HIDE DEF e
  <2>2. PICK k \in Block : k = [slot |-> slot, generation |-> surface]
    BY <1>0 DEF Block
  <2>3. ref' = ref /\ memory' = [memory EXCEPT ![x] = k] /\ memory[x] = None
    BY <1>3, <2>2 DEF Fresh
  <2>4. /\ \A i \in DOMAIN mOutBuffers' : \/ i \in DOMAIN mOutBuffers
                                             /\ mOutBuffers'[i] = mOutBuffers[i]
                                          \/ i = Len(mOutBuffers) + 1 /\ mOutBuffers'[i] = e
        /\ \A i \in DOMAIN mOutBuffers : /\ i \in DOMAIN mOutBuffers'
                                         /\ mOutBuffers'[i] = mOutBuffers[i]
        /\ \E i \in DOMAIN mOutBuffers' : mOutBuffers'[i] = e
    <3>1. \A i \in DOMAIN mOutBuffers' : \/ i \in DOMAIN mOutBuffers
                                            /\ mOutBuffers'[i] = mOutBuffers[i]
                                         \/ i = Len(mOutBuffers) + 1 /\ mOutBuffers'[i] = e
      BY <1>0, <2>1, AppendIs
    <3>2. /\ \A i \in DOMAIN mOutBuffers : /\ i \in DOMAIN mOutBuffers'
                                           /\ mOutBuffers'[i] = mOutBuffers[i]
          /\ Len(mOutBuffers') = Len(mOutBuffers) + 1
          /\ mOutBuffers'[Len(mOutBuffers) + 1] = e /\ mOutBuffers' \in Seq(OutBuffer)
      BY <1>0, <2>1, AppendElements
    <3>3. Len(mOutBuffers) + 1 \in DOMAIN mOutBuffers'
      BY <1>0, <3>2, EntryTypes
    <3>4. QED
      BY <3>1, <3>2, <3>3
  <2>5. \A i, j \in DOMAIN mOutBuffers' :
           mOutBuffers'[i].index = mOutBuffers'[j].index => i = j
    BY <1>3, <2>1, <2>4 DEF OnceInv
  <2>6. \A b \in Buf : memory'[b] = IF b = x THEN k ELSE memory[b]
    BY <1>0, <2>3 DEF MppTypes
  <2>7. \A b \in Buf : ref'[b] >= 1 => memory'[b] # None
    BY <1>0, <2>3, <2>6 DEF OnceInv
  <2>8. \A b \in Buf : memory[b] # k
    <3>1. SUFFICES ASSUME NEW b \in Buf, memory[b] = k PROVE FALSE
      OBVIOUS
    <3>2. PICK i \in DOMAIN mOutBuffers : mOutBuffers[i].mppBuffer = b
      BY <1>0, <3>1 DEF OnceInv
    <3>3. BlockOf(mOutBuffers[i]) = k
      BY <1>0, <3>1, <3>2 DEF EntryInv, OwnBuffers
    <3>4. QED
      BY <1>3, <2>2, <3>3 DEF BlockOf
  <2>9. \A a, b \in Buf : memory'[a] = memory'[b] /\ memory'[a] # None => a = b
    BY <2>6, <2>8 DEF OnceInv
  <2>10. ASSUME NEW b \in Buf, memory'[b] # None
         PROVE  \E i \in DOMAIN mOutBuffers' : mOutBuffers'[i].mppBuffer = b
    <3>1. CASE b = x
      BY <2>1, <2>4, <3>1
    <3>2. CASE b # x
      <4>1. PICK i \in DOMAIN mOutBuffers : mOutBuffers[i].mppBuffer = b
        BY <2>6, <2>10, <3>2 DEF OnceInv
      <4>2. QED
        BY <2>4, <4>1
    <3>3. QED
      BY <3>1, <3>2
  <2>11. QED
    BY <2>5, <2>7, <2>9, <2>10 DEF OnceInv
<1>4. QED
  BY <1>1, <1>2, <1>3

\* A picture is decoded into a buffer with memory.
LEMMA OnceOfDecode ==
    ASSUME SafeInv, OnceInv, MppDecode PROVE OnceInv'
<1>0. MppTypes /\ UnusedInv
  BY DEF SafeInv, HoldInv, TypeInv
<1>1. UNCHANGED <<mOutBuffers, memory, pc>>
  BY DEF MppDecode, decVars, threadVars
<1> DEFINE x == Head(unused)
<1>2. unused # <<>> /\ (ref' = [ref EXCEPT ![x] = 1] \/ ref' = [ref EXCEPT ![x] = 2])
  BY DEF MppDecode
<1>3. x \in Buf /\ x \in Elements(unused)
  BY <1>0, <1>2, TailElements DEF MppTypes
<1>4. memory[x] # None
  BY <1>0, <1>3 DEF UnusedInv
<1> HIDE DEF x
<1>5. \A b \in Buf : b # x => ref'[b] = ref[b]
  BY <1>0, <1>2 DEF MppTypes
<1>6. \A b \in Buf : ref'[b] >= 1 => memory[b] # None
  BY <1>4, <1>5 DEF OnceInv
<1>7. QED
  BY <1>1, <1>6 DEF OnceInv, Dirty

\* A step that gives no memory and leaves the table keeps the invariant.
LEMMA OnceQuiet ==
    ASSUME OnceInv, NoNewMemory, mOutBuffers' = mOutBuffers, Dirty => Dirty'
    PROVE  OnceInv'
  BY DEF OnceInv, NoNewMemory

\* So with one thread and one surface every step keeps it.
LEMMA OnceStep ==
    ASSUME Drainer = {}, MaxSurface = 1, SafeInv, SafeInv', OnceInv, [Next]_vars
    PROVE  OnceInv'
<1>0. /\ mOutBuffers \in Seq(OutBuffer) /\ MppTypes /\ DirtyInv /\ HandInv /\ TableOK
      /\ Thread = {Looper} /\ Looper \in Thread /\ HoldInv /\ OtherTypes
      /\ pc \in [Thread -> Place] /\ \A b \in Buf : b # None
  BY BuffersAssumption DEF SafeInv, HoldInv, TypeInv, OwnedInv, TableOK, Thread
<1>1. CASE UNCHANGED <<mOutBuffers, ref, memory, pc>>
  BY <1>1 DEF OnceInv, Dirty
<1>2. CASE \/ Begin(Looper) \/ EnsureBegin(Looper) \/ EnsureEnd(Looper)
           \/ FetchFails(Looper) \/ NoFrame(Looper) \/ GetFrame(Looper)
           \/ FinishWork(Looper)
  <2>1. UNCHANGED <<mOutBuffers, ref, memory>> /\ ~Dirty
    BY <1>2 DEF Begin, Idle, EnsureBegin, EnsureEnd, FetchFails, NoFrame, GetFrame,
                FinishWork, Leave, decVars, mppVars, Dirty
  <2>2. QED
    BY <2>1, OnceQuiet DEF NoNewMemory
<1>3. CASE Fetch(Looper)
  BY <1>0, <1>3, OnceOfFetch DEF Fetch, Dirty
<1>4. CASE TakeBlock(Looper)
  <2>1. /\ Found(Looper) \in DOMAIN mOutBuffers /\ UNCHANGED <<ref, memory>> /\ ~Dirty
        /\ mOutBuffers' = [mOutBuffers EXCEPT ![Found(Looper)].site = "C2"]
    BY <1>0, <1>4, FoundIs DEF TakeBlock, mppVars, MpiSites, Dirty
  <2> DEFINE i == Found(Looper)
  <2> HIDE DEF i
  <2>2. i \in DOMAIN mOutBuffers /\ mOutBuffers' = [mOutBuffers EXCEPT ![i].site = "C2"]
    BY <2>1 DEF i
  <2>3. /\ DOMAIN mOutBuffers' = DOMAIN mOutBuffers
        /\ mOutBuffers'[i].index = mOutBuffers[i].index
        /\ mOutBuffers'[i].generation = mOutBuffers[i].generation
        /\ mOutBuffers'[i].mppBuffer = mOutBuffers[i].mppBuffer
        /\ \A j \in DOMAIN mOutBuffers : j # i => mOutBuffers'[j] = mOutBuffers[j]
    BY <1>0, <2>2, SiteIs
  <2>4. SameEntries(mOutBuffers', mOutBuffers) /\ NoNewMemory
    BY <2>1, <2>3 DEF SameEntries, BlockOf, NoNewMemory
  <2>5. QED
    BY <2>1, <2>4, OnceKept
<1>5. CASE DropFrame(Looper)
  <2>1. /\ PutOne(frame[Looper]) /\ mOutBuffers' = mOutBuffers /\ ~Dirty
        /\ frame[Looper] \in Buf
    BY <1>0, <1>5 DEF DropFrame, decVars, HandInv, OtherTypes, Dirty
  <2>2. NoNewMemory
    BY <1>0, <2>1, PutGivesNone
  <2>3. QED
    BY <2>1, <2>2, OnceQuiet
<1>6. CASE InfoChangeClear(Looper) \/ FlushClear
  <2>1. ClearOutBuffers /\ mOutBuffers' = <<>> /\ Dirty'
    BY <1>0, <1>6 DEF InfoChangeClear, FlushClear, ClearOutBuffers, Goto, Dirty
  <2>2. /\ \A b \in Buf : ref'[b] = IF b \in C2Buffers(mOutBuffers) THEN ref[b] - 1
                                                                  ELSE ref[b]
        /\ \A b \in Buf : memory'[b] = IF ref'[b] <= 0 /\ b \notin group
                                       THEN None ELSE memory[b]
    BY <1>0, <2>1, ClearIs
  <2>3. NoNewMemory
    <3>1. ASSUME NEW b \in Buf, ref'[b] >= 1 PROVE ref[b] >= 1 /\ memory'[b] = memory[b]
      <4>1. ref[b] \in Int
        BY <1>0 DEF MppTypes
      <4>2. ref[b] >= 1 /\ ~(ref'[b] <= 0)
        BY <2>2, <3>1, <4>1
      <4>3. QED
        BY <2>2, <4>2
    <3>2. QED
      BY <2>2, <3>1 DEF NoNewMemory
  <2>4. QED
    BY <2>1, <2>3, OnceDirty
<1>7. CASE FlushGroup
  <2>1. mOutBuffers' = mOutBuffers /\ mOutBuffers = <<>> /\ Dirty' /\ ref' = ref
        /\ memory' = [b \in Buf |-> IF ref[b] = 0 THEN None ELSE memory[b]]
    BY <1>0, <1>7 DEF FlushGroup, GroupClear, DirtyInv, Dirty, Goto, decVars
  <2>2. NoNewMemory
    <3>1. ASSUME NEW b \in Buf, ref'[b] >= 1 PROVE ref[b] >= 1 /\ memory'[b] = memory[b]
      BY <2>1, <3>1
    <3>2. QED
      BY <2>1, <3>1 DEF NoNewMemory
  <2>3. QED
    BY <2>1, <2>2, OnceDirty
<1>8. CASE InfoChangeReady(Looper) \/ FlushReset
  BY <1>8, OnceNothing
<1>9. CASE MppDecode
  BY <1>9, OnceOfDecode
<1>10. CASE MppRelease
  <2>1. /\ \E x \in held : PutOne(x) /\ x \in Buf
        /\ UNCHANGED <<mOutBuffers, pc>>
    BY <1>0, <1>10 DEF MppRelease, decVars, threadVars, MppTypes
  <2>2. NoNewMemory
    BY <1>0, <2>1, PutGivesNone
  <2>3. QED
    BY <2>1, <2>2, OnceQuiet DEF Dirty
<1>11. CASE MppInfoChange \/ ClientReturns \/ NewSurface \/ UNCHANGED vars
  BY <1>1, <1>11 DEF MppInfoChange, ClientReturns, NewSurface, decVars, mppVars, threadVars,
                     vars
<1>12. QED
  BY <1>0, <1>2, <1>3, <1>4, <1>5, <1>6, <1>7, <1>8, <1>9, <1>10, <1>11
     DEF Next, ThreadNext, InCall, FlushNext, EnvironmentNext

\* While one thread decodes to one surface MPP never has the memory of one block
\* under two buffers: a block that comes back finds its entry, and a flush or a
\* change of resolution forgets the entries only together with the memory.
THEOREM OneBufferPerBlockHolds ==
    ASSUME Drainer = {}, MaxSurface = 1 PROVE Spec => []OneBufferPerBlock
<1>1. Init => SafeInv /\ OnceInv
  <2>1. Init => SafeInv
    BY SafeStep
  <2>2. Init => OnceInv
    BY DEF Init, OnceInv
  <2>3. QED
    BY <2>1, <2>2
<1>2. (SafeInv /\ OnceInv) /\ [Next]_vars => (SafeInv /\ OnceInv)'
  <2> SUFFICES ASSUME SafeInv, OnceInv, [Next]_vars PROVE SafeInv' /\ OnceInv'
    OBVIOUS
  <2>1. SafeInv'
    BY SafeStep
  <2>2. QED
    BY <2>1, OnceStep
<1>3. SafeInv /\ OnceInv => OneBufferPerBlock
  <2> DEFINE has == Elements(unused) \cup held \cup (Elements(frames) \ {Info})
  <2>1. SUFFICES ASSUME SafeInv, OnceInv, NEW a \in has, NEW b \in has, memory[a] = memory[b]
                 PROVE  a = b
    BY DEF OneBufferPerBlock
  <2>2. MppTypes /\ UnusedInv /\ RefInv
    BY <2>1 DEF SafeInv, HoldInv, TypeInv
  <2>3. ASSUME NEW x \in has PROVE x \in Buf /\ memory[x] # None
    <3>1. CASE x \in Elements(unused)
      BY <2>2, <3>1, EntryIsBuf DEF UnusedInv, MppTypes
    <3>2. CASE x \in held \/ x \in Elements(frames) \ {Info}
      <4>1. x \in Buf
        BY <2>2, <3>2, EntryIsBuf DEF MppTypes
      <4>2. ref[x] \in Int /\ ref[x] >= Holders(x)
        BY <2>2, <4>1 DEF RefInv, MppTypes
      <4>3. Holders(x) \in {1, 2}
        BY <3>2 DEF Holders
      <4>4. ref[x] >= 1
        BY <4>2, <4>3
      <4>5. QED
        BY <2>1, <4>1, <4>4 DEF OnceInv
    <3>3. QED
      BY <2>3, <3>1, <3>2
  <2>4. QED
    BY <2>1, <2>3 DEF OnceInv
<1>4. QED
  BY <1>1, <1>2, <1>3, PTL DEF Spec

-----------------------------------------------------------------------------
(***************************************************************************)
(* One thread: the frame of a buffer is found in the table.                *)
(***************************************************************************)

\* getoutframe() should find the buffer when its frame comes.
Expected(b) == Has(b) /\ b \notin keptOver

\* In s, b is before c.
Before(s, b, c) == \A p, q \in DOMAIN s : s[p] = b /\ s[q] = c => p < q

\* Buffers come out of MPP in the order in which they were given: c after b.
Pipe == Elements(unused) \cup Elements(frames) \cup InHand
After(c, b) ==
    /\ c \notin InHand
    /\ b \in Elements(unused) => c \notin Elements(frames)
    /\ Before(unused, b, c) /\ Before(frames, b, c)

OfGeneration(s, g) == {i \in DOMAIN s : s[i].generation = g}

\* Each such buffer has its entry, for MPP.
KnownEntries ==
    ~Dirty => \A b \in Buf : Expected(b) =>
                 \E i \in MpiSites(mOutBuffers) : mOutBuffers[i].mppBuffer = b

\* While one of an older surface is left, all blocks of the new one are still
\* behind it, and at least as many as the generation's count.
OldFirst ==
    \A i \in MpiSites(mOutBuffers) :
        LET b == mOutBuffers[i].mppBuffer IN
        mOutBuffers[i].generation # mGeneration /\ Expected(b) =>
            /\ b \in Pipe
            /\ \A j \in OfGeneration(mOutBuffers, mGeneration) :
                  mOutBuffers[j].site = "MPI" /\ After(mOutBuffers[j].mppBuffer, b)
            /\ mGenerationCount
                 <= Cardinality(OfGeneration(mOutBuffers, mGeneration))

\* No entry is newer than the last block, no block newer than the surface; a
\* reference picture that was kept is in an older one.
AgeInv ==
    /\ \A i \in DOMAIN mOutBuffers : mOutBuffers[i].generation <= mGeneration
    /\ mGeneration <= surface
    /\ \A b \in Buf : memory[b] # None =>
          /\ memory[b].generation <= surface
          /\ b \in keptOver => memory[b].generation # surface

KnownInv == KnownEntries /\ OldFirst /\ AgeInv

\* What is appended is behind b, unless it is b.
LEMMA BeforeAppend ==
    ASSUME NEW S, NEW s \in Seq(S), NEW e \in S, NEW b, NEW c, e # b, Before(s, b, c)
    PROVE  Before(Append(s, e), b, c)
<1>1. /\ Append(s, e)[Len(s) + 1] = e /\ DOMAIN s = 1 .. Len(s) /\ Len(s) \in Nat
      /\ \A i \in DOMAIN s : Append(s, e)[i] = s[i]
      /\ \A i \in DOMAIN Append(s, e) : i \in DOMAIN s \/ i = Len(s) + 1
  BY AppendElements, LenProperties
<1>2. QED
  BY <1>1 DEF Before

\* It is also before all that was not there.
LEMMA BeforeNone ==
    ASSUME NEW s, NEW b, NEW c, b \notin Elements(s) \/ c \notin Elements(s)
    PROVE  Before(s, b, c)
  BY DEF Before, Elements

\* Taking the first leaves the order.
LEMMA BeforeTail ==
    ASSUME NEW S, NEW s \in Seq(S), s # <<>>, NEW b, NEW c, Before(s, b, c)
    PROVE  /\ Before(Tail(s), b, c)
           /\ c = Head(s) => b \notin Elements(s)
<1>1. /\ DOMAIN Tail(s) = 1 .. Len(s) - 1 /\ DOMAIN s = 1 .. Len(s) /\ Len(s) \in Nat \ {0}
      /\ \A i \in 1 .. Len(s) - 1 : Tail(s)[i] = s[i + 1]
      /\ Head(s) = s[1]
  BY TailElements
<1>2. Before(Tail(s), b, c)
  <2>1. SUFFICES ASSUME NEW p \in DOMAIN Tail(s), NEW q \in DOMAIN Tail(s),
                        Tail(s)[p] = b, Tail(s)[q] = c
                 PROVE  p < q
    BY DEF Before
  <2>2. p + 1 \in DOMAIN s /\ q + 1 \in DOMAIN s /\ s[p + 1] = b /\ s[q + 1] = c
    BY <1>1, <2>1
  <2>3. p + 1 < q + 1
    BY <2>2 DEF Before
  <2>4. QED
    BY <1>1, <2>3
<1>3. c = Head(s) => b \notin Elements(s)
  BY <1>1 DEF Before, Elements
<1>4. QED
  BY <1>2, <1>3

\* A put may append the buffer to the unused ones.
LEMMA PutOneAppends ==
    ASSUME MppTypes, NEW b \in Buf, PutOne(b)
    PROVE  \/ unused' = unused
           \/ unused' = Append(unused, b) /\ ref[b] = 1 /\ b \in group
<1> DEFINE s == <<b>>
           freed == {i \in {1} : ref[s[i]] = 1 /\ s[i] \in group}
<1>1. PICK order \in [1 .. Cardinality(freed) -> freed] :
        unused' = unused \o [i \in DOMAIN order |-> s[order[i]]]
  BY DEF PutOne, Put
<1>2. unused \in Seq(Buf)
  BY DEF MppTypes
<1>3. CASE freed = {}
  <2>1. DOMAIN order = {}
    BY <1>1, <1>3, FS_EmptySet
  <2>2. [i \in DOMAIN order |-> s[order[i]]] = <<>>
    BY <2>1
  <2>3. unused \o <<>> = unused
    BY <1>2
  <2>4. QED
    BY <1>1, <2>2, <2>3
<1>4. CASE freed # {}
  <2>1. freed = {1} /\ ref[b] = 1 /\ b \in group
    BY <1>4
  <2>2. Cardinality(freed) = 1
    BY <2>1, FS_Singleton
  <2>3. order \in [1 .. 1 -> {1}]
    BY <1>1, <2>1, <2>2
  <2>4. [i \in DOMAIN order |-> s[order[i]]] = <<b>>
    <3>1. DOMAIN order = 1 .. 1
      BY <2>3
    <3>2. \A i \in 1 .. 1 : order[i] = 1
      BY <2>3
    <3>3. QED
      BY <3>1, <3>2
  <2>5. unused' = unused \o <<b>>
    BY <1>1, <2>4
  <2>6. unused \o <<b>> = Append(unused, b)
    BY <1>2
  <2>7. QED
    BY <2>1, <2>5, <2>6
<1>5. QED
  BY <1>3, <1>4

\* Clearing the old generation keeps the entries of the new one.
LEMMA NewestKept ==
    ASSUME NEW s \in Seq(OutBuffer), NEW i \in DOMAIN s
    PROVE  \E j \in DOMAIN ClearOldGeneration(s, s[i].generation) :
              ClearOldGeneration(s, s[i].generation)[j] = s[i]
<1> DEFINE g == s[i].generation
           places == {j \in DOMAIN s : s[j].generation = g}
           f == First(places)
           r == SubSeq(s, f, Len(s))
<1>1. DOMAIN s = 1 .. Len(s) /\ Len(s) \in Nat
  BY LenProperties
<1>2. places \in SUBSET Nat /\ i \in places
  BY <1>1
<1>3. f # 0 /\ f \in places /\ f <= i
  <2>1. PICK n \in places : \A m \in places : <<m, n>> \notin OpToRel(<, Nat)
    BY <1>2, WFMin, NatLessThanWellFounded
  <2>2. \A m \in places : ~(m < n)
    BY <1>2, <2>1 DEF OpToRel
  <2>3. \A m \in places : n <= m
    BY <1>2, <2>2
  <2>4. f \in places /\ \A m \in places : f <= m
    BY <1>2, <2>3 DEF First, Min
  <2>5. QED
    BY <1>1, <1>2, <2>4
<1>4. ClearOldGeneration(s, g) = r
  BY <1>3 DEF ClearOldGeneration
<1>5. f \in 1 .. Len(s)
  BY <1>1, <1>3
<1> HIDE DEF f, places
<1>6. \A j \in f .. Len(s) : s[j] \in OutBuffer
  BY <1>1, <1>5, ElementOfSeq
<1>7. /\ r \in Seq(OutBuffer) /\ Len(r) = Len(s) - f + 1
      /\ \A j \in 1 .. Len(s) - f + 1 : r[j] = s[f + j - 1]
  BY <1>1, <1>5, <1>6, SubSeqProperties
<1>8. DOMAIN r = 1 .. Len(s) - f + 1
  BY <1>7, LenProperties
<1>9. i - f + 1 \in DOMAIN r /\ r[i - f + 1] = s[i]
  BY <1>1, <1>3, <1>5, <1>7, <1>8
<1>10. QED
  BY <1>4, <1>9

\* With the table empty nothing is expected of it but when it is dirty, or MPP
\* has no buffer.
LEMMA KnownEmpty ==
    ASSUME mOutBuffers' = <<>>, AgeInv', Dirty' \/ \A b \in Buf : ~Has(b)'
    PROVE  KnownInv'
<1>1. KnownEntries'
  BY DEF KnownEntries, Expected
<1>2. MpiSites(mOutBuffers') = {}
  BY DEF MpiSites
<1>3. OldFirst'
  BY <1>2 DEF OldFirst
<1>4. QED
  BY <1>1, <1>3 DEF KnownInv

\* No entry and no block is newer after a step that only drops some.
LEMMA AgeKept ==
    ASSUME SafeInv, AgeInv, UNCHANGED <<keptOver, surface>>,
           \A b \in Buf : memory'[b] # None => memory'[b] = memory[b],
           NEW s, s = mOutBuffers,
           \/ mOutBuffers' = <<>> /\ mGeneration' \in {0, mGeneration}
           \/ SameEntries(mOutBuffers', s) /\ mGeneration' = mGeneration
    PROVE  AgeInv'
<1>1. surface \in Nat
  BY BuffersAssumption DEF SafeInv, HoldInv, TypeInv, OwnedInv, TableOK, Generation
<1>2. \A i \in DOMAIN mOutBuffers' : mOutBuffers'[i].generation <= mGeneration'
  <2>1. CASE mOutBuffers' = <<>>
    BY <2>1
  <2>2. CASE SameEntries(mOutBuffers', s) /\ mGeneration' = mGeneration
    <3>1. \A i \in DOMAIN s : mOutBuffers'[i].generation = s[i].generation
      BY <2>2 DEF SameEntries, BlockOf
    <3>2. QED
      BY <2>2, <3>1 DEF AgeInv, SameEntries
  <2>3. QED
    BY <2>1, <2>2
<1>3. mGeneration' <= surface'
  BY <1>1 DEF AgeInv
<1>4. QED
  BY <1>2, <1>3 DEF AgeInv

\* The buffers of the table.
Entered == {mOutBuffers[i].mppBuffer : i \in DOMAIN mOutBuffers}

\* The entries stay right while MPP gets no buffer and keeps the order.
LEMMA KnownKept ==
    ASSUME KnownInv, AgeInv', ~Dirty,
           UNCHANGED <<mOutBuffers, mGeneration, mGenerationCount, keptOver>>,
           mOutBuffers \in Seq(OutBuffer),
           \A b \in Buf : Has(b)' => Has(b),
           \A b \in Entered : b \in Pipe => b \in Pipe',
           \A b, c \in Entered : b \in Pipe /\ After(c, b) => After(c, b)'
    PROVE  KnownInv'
<1>1. KnownEntries'
  BY DEF KnownInv, KnownEntries, Expected
<1>2. \A i \in DOMAIN mOutBuffers : /\ mOutBuffers[i].mppBuffer \in Buf
                                    /\ mOutBuffers[i].mppBuffer \in Entered
  BY EntryTypes DEF Entered, OutBuffer
<1>3. OldFirst'
  <2>1. SUFFICES ASSUME NEW i \in MpiSites(mOutBuffers),
                        mOutBuffers[i].generation # mGeneration,
                        Expected(mOutBuffers[i].mppBuffer)'
                 PROVE  /\ mOutBuffers[i].mppBuffer \in Pipe'
                        /\ \A j \in OfGeneration(mOutBuffers, mGeneration) :
                              /\ mOutBuffers[j].site = "MPI"
                              /\ After(mOutBuffers[j].mppBuffer, mOutBuffers[i].mppBuffer)'
                        /\ mGenerationCount
                             <= Cardinality(OfGeneration(mOutBuffers, mGeneration))
    BY DEF OldFirst, Expected
  <2>2. PICK b \in Buf : b = mOutBuffers[i].mppBuffer
    BY <1>2 DEF MpiSites
  <2>3. b \in Entered /\ Expected(b)
    BY <1>2, <2>1, <2>2 DEF MpiSites, Expected
  <2>4. /\ b \in Pipe
        /\ \A j \in OfGeneration(mOutBuffers, mGeneration) :
              mOutBuffers[j].site = "MPI" /\ After(mOutBuffers[j].mppBuffer, b)
        /\ mGenerationCount <= Cardinality(OfGeneration(mOutBuffers, mGeneration))
    BY <2>1, <2>2, <2>3 DEF KnownInv, OldFirst
  <2>5. ASSUME NEW j \in OfGeneration(mOutBuffers, mGeneration)
        PROVE  After(mOutBuffers[j].mppBuffer, mOutBuffers[i].mppBuffer)'
    <3>1. PICK c \in Entered : c = mOutBuffers[j].mppBuffer
      BY <1>2 DEF OfGeneration
    <3>2. After(c, b)
      BY <2>4, <3>1
    <3>3. After(c, b)'
      BY <2>3, <2>4, <3>2
    <3>4. QED
      BY <2>2, <3>1, <3>3 DEF After
  <2>6. b \in Pipe'
    BY <2>3, <2>4
  <2>7. QED
    BY <2>2, <2>4, <2>5, <2>6
<1>4. QED
  BY <1>1, <1>3 DEF KnownInv

\* Both invariants give the types.
LEMMA SafeTypes ==
    ASSUME Drainer = {}, SafeInv
    PROVE  /\ mOutBuffers \in Seq(OutBuffer) /\ MppTypes /\ OtherTypes /\ HandInv
           /\ HolderInv /\ RefInv /\ UnusedInv /\ Thread = {Looper} /\ TableOK
           /\ frame \in [Thread -> Buf \cup {None}] /\ Entered \subseteq Buf
           /\ \A b \in Buf : b # None /\ b # Info
<1>1. mOutBuffers \in Seq(OutBuffer)
  BY DEF SafeInv, HoldInv, TypeInv, OwnedInv, TableOK
<1>2. Entered \subseteq Buf
  <2>1. \A i \in DOMAIN mOutBuffers : mOutBuffers[i].mppBuffer \in Buf
    BY <1>1, EntryTypes DEF OutBuffer
  <2>2. QED
    BY <2>1 DEF Entered
<1>3. QED
  BY <1>1, <1>2, BuffersAssumption
     DEF SafeInv, HoldInv, TypeInv, OwnedInv, TableOK, OtherTypes, Thread

\* getoutframe takes the first frame, or drops one that no entry has.
LEMMA KnownOfFrames ==
    ASSUME Drainer = {}, SafeInv, KnownInv, AgeInv', ~Dirty,
           GetFrame(Looper) \/ DropFrame(Looper)
    PROVE  KnownInv'
<1>0. /\ mOutBuffers \in Seq(OutBuffer) /\ MppTypes /\ HandInv /\ HolderInv /\ RefInv
      /\ Thread = {Looper} /\ frame \in [Thread -> Buf \cup {None}] /\ Entered \subseteq Buf
      /\ OtherTypes /\ \A b \in Buf : b # None /\ b # Info
  BY SafeTypes
<1>1. UNCHANGED <<mOutBuffers, mGeneration, mGenerationCount, keptOver, group, held>>
  BY DEF GetFrame, DropFrame, decVars, history
<1>2. CASE GetFrame(Looper)
  <2> DEFINE x == Head(frames)
  <2>1. /\ frames # <<>> /\ frames' = Tail(frames) /\ UNCHANGED <<unused, ref>>
        /\ frame' = frame \/ frame' = [frame EXCEPT ![Looper] = x]
        /\ frame[Looper] = None
    BY <1>0, <1>2 DEF GetFrame, HandInv
  <2>2. Elements(frames) = {x} \cup Elements(frames')
    BY <1>0, <2>1, TailElements DEF MppTypes
  <2>3. frame' = frame \/ InHand' = {x}
    BY <1>0, <2>1 DEF InHand
  <2>4. InHand = {None}
    BY <1>0, <2>1 DEF InHand
  <2>5. InHand' \subseteq {None, x}
    BY <2>3, <2>4 DEF InHand
  <2>6. \A b \in Buf : Has(b)' => Has(b)
    BY <1>0, <1>1, <2>1, <2>2, <2>5 DEF Has
  <2>7. \A b \in Entered : b \in Pipe => b \in Pipe'
    <3>1. ASSUME NEW b \in Entered, b \in Pipe, b = x PROVE b \in Pipe'
      <4>1. b # Info /\ b # None
        BY <1>0, <3>1
      <4>2. frame' = [frame EXCEPT ![Looper] = x]
        BY <1>2, <3>1, <4>1 DEF GetFrame
      <4>3. InHand' = {x}
        BY <1>0, <4>2 DEF InHand
      <4>4. QED
        BY <3>1, <4>3 DEF Pipe
    <3>2. ASSUME NEW b \in Entered, b \in Pipe, b # x PROVE b \in Pipe'
      BY <1>0, <2>1, <2>2, <2>4, <3>2 DEF Pipe
    <3>3. QED
      BY <3>1, <3>2
  <2>8. ASSUME NEW b \in Entered, NEW c \in Entered, b \in Pipe, After(c, b)
        PROVE  After(c, b)'
    <3>1. Before(frames, b, c) /\ Before(unused, b, c) /\ frames \in Seq(Buf \cup {Info})
      BY <1>0, <2>8 DEF After, MppTypes
    <3>2. Before(frames', b, c) /\ (c = x => b \notin Elements(frames))
      BY <2>1, <3>1, BeforeTail
    <3>3. c # x
      BY <1>0, <2>2, <2>4, <2>8, <3>2 DEF After, Pipe
    <3>4. c \notin InHand'
      BY <1>0, <2>5, <3>3
    <3>5. b \in Elements(unused) => c \notin Elements(frames')
      BY <2>2, <2>8 DEF After
    <3>6. QED
      BY <2>1, <3>1, <3>2, <3>4, <3>5 DEF After
  <2>9. QED
    BY <1>0, <1>1, <2>6, <2>7, <2>8, KnownKept
<1>3. CASE DropFrame(Looper)
  <2>x. PICK x \in Buf : x = frame[Looper]
    BY <1>0, <1>3 DEF DropFrame, HandInv
  <2>1. /\ PutOne(x) /\ frames' = frames /\ x \in InHand
        /\ frame' = [frame EXCEPT ![Looper] = None] /\ Found(Looper) = 0
    BY <1>0, <1>3, <2>x DEF DropFrame, InHand
  <2>2. x \notin Entered
    <3> DEFINE places == {i \in DOMAIN mOutBuffers : mOutBuffers[i].mppBuffer = x}
    <3>1. places \in SUBSET (Nat \ {0}) /\ First(places) = 0
      BY <1>0, <2>x, <2>1, EntryTypes DEF Found, FindBuffer
    <3>2. places = {}
      BY <3>1, FirstNone
    <3>3. QED
      BY <3>2 DEF Entered
  <2>3. InHand' = {None} /\ InHand = {x}
    BY <1>0, <2>x, <2>1 DEF InHand
  <2>4. unused' = unused \/ unused' = Append(unused, x)
    BY <1>0, <2>1, PutOneAppends
  <2>5. Elements(unused) \subseteq Elements(unused')
        /\ Elements(unused') \subseteq Elements(unused) \cup {x}
    <3>1. unused \in Seq(Buf)
      BY <1>0 DEF MppTypes
    <3>2. Elements(Append(unused, x)) = Elements(unused) \cup {x}
      BY <2>x, <3>1, AppendElements
    <3>3. QED
      BY <2>4, <3>2
  <2>6. \A b \in Buf : Has(b)' => Has(b)
    <3>1. \A b \in Buf : ref'[b] = IF b = x THEN ref[b] - 1 ELSE ref[b]
      BY <1>0, <2>1, PutOneIs
    <3>2. Has(x)
      BY <2>1 DEF Has
    <3>3. QED
      BY <1>0, <1>1, <2>1, <2>3, <2>5, <3>1, <3>2 DEF Has
  <2>7. \A b \in Entered : b \in Pipe => b \in Pipe'
    BY <2>1, <2>2, <2>3, <2>5 DEF Pipe
  <2>8. ASSUME NEW b \in Entered, NEW c \in Entered, b \in Pipe, After(c, b)
        PROVE  After(c, b)'
    <3>1. b # x /\ c # x /\ b \in Buf /\ c \in Buf /\ unused \in Seq(Buf)
      BY <1>0, <2>2, <2>8 DEF MppTypes
    <3>2. Before(unused', b, c)
      BY <2>4, <2>8, <3>1, BeforeAppend DEF After
    <3>3. Before(frames', b, c)
      BY <2>1, <2>8 DEF After
    <3>4. c \notin InHand' /\ (b \in Elements(unused') => c \notin Elements(frames'))
      BY <1>0, <2>1, <2>3, <2>5, <2>8, <3>1 DEF After
    <3>5. QED
      BY <3>2, <3>3, <3>4 DEF After
  <2>9. QED
    BY <1>0, <1>1, <2>6, <2>7, <2>8, KnownKept
<1>4. QED
  BY <1>2, <1>3

\* MPP decodes into the first unused buffer, which gets the last frame.
LEMMA KnownOfDecode ==
    ASSUME Drainer = {}, SafeInv, KnownInv, AgeInv', ~Dirty, MppDecode
    PROVE  KnownInv'
<1>0. /\ mOutBuffers \in Seq(OutBuffer) /\ MppTypes /\ HolderInv /\ RefInv /\ UnusedInv
      /\ Entered \subseteq Buf /\ \A b \in Buf : b # Info
  BY SafeTypes
<1>x. PICK x \in Buf : x = Head(unused)
  BY <1>0, TailElements DEF MppTypes, MppDecode
<1>1. /\ UNCHANGED <<mOutBuffers, mGeneration, mGenerationCount, keptOver, group, frame>>
      /\ InHand' = InHand /\ unused # <<>>
      /\ unused' = Tail(unused) /\ frames' = Append(frames, x)
      /\ \/ ref' = [ref EXCEPT ![x] = 1] /\ held' = held
         \/ ref' = [ref EXCEPT ![x] = 2] /\ held' = held \cup {x}
  BY <1>x DEF MppDecode, decVars, threadVars, history, InHand
<1>2. /\ frames \in Seq(Buf \cup {Info}) /\ x \in Buf \cup {Info} /\ unused \in Seq(Buf)
  BY <1>0 DEF MppTypes
<1>3. /\ Elements(unused) = {x} \cup Elements(unused')
      /\ Elements(frames') = Elements(frames) \cup {x}
  BY <1>x, <1>1, <1>2, TailElements, AppendElements
<1>4. \A b \in Buf : Has(b)' => Has(b)
  <2>1. \A b \in Buf : b # x => ref'[b] = ref[b] /\ (b \in held' => b \in held)
    BY <1>0, <1>1 DEF MppTypes
  <2>2. Has(x)
    BY <1>3 DEF Has
  <2>3. QED
    BY <1>1, <1>3, <2>1, <2>2 DEF Has
<1>5. \A b \in Entered : b \in Pipe => b \in Pipe'
  BY <1>1, <1>3 DEF Pipe
<1>6. ASSUME NEW b \in Entered, NEW c \in Entered, b \in Pipe, After(c, b)
      PROVE  After(c, b)'
  <2>1. Before(unused, b, c) /\ Before(frames, b, c) /\ c \notin InHand
    BY <1>6 DEF After
  <2>2. Before(unused', b, c) /\ (c = x => b \notin Elements(unused))
    BY <1>x, <1>1, <1>2, <2>1, BeforeTail
  <2>3. b \in Elements(unused) => c \notin Elements(frames) /\ c # x
    BY <1>6, <2>2 DEF After
  <2>4. Before(frames', b, c)
    <3>1. CASE b = x
      <4>1. c \notin Elements(frames')
        BY <1>3, <2>3, <3>1
      <4>2. QED
        BY <4>1, BeforeNone
    <3>2. CASE b # x
      BY <1>1, <1>2, <2>1, <3>2, BeforeAppend
    <3>3. QED
      BY <3>1, <3>2
  <2>5. b \in Elements(unused') => c \notin Elements(frames')
    BY <1>3, <2>3
  <2>6. QED
    BY <1>1, <2>1, <2>2, <2>4, <2>5 DEF After
<1>7. QED
  BY <1>0, <1>1, <1>4, <1>5, <1>6, KnownKept

\* A reference picture given up is unused after the others, or still in use.
LEMMA KnownOfRelease ==
    ASSUME Drainer = {}, SafeInv, KnownInv, AgeInv', ~Dirty, MppRelease
    PROVE  KnownInv'
<1>0. /\ mOutBuffers \in Seq(OutBuffer) /\ MppTypes /\ HolderInv /\ RefInv /\ UnusedInv
      /\ Entered \subseteq Buf
  BY SafeTypes
<1>1. PICK x \in held : held' = held \ {x} /\ PutOne(x)
  BY DEF MppRelease
<1>2. /\ UNCHANGED <<mOutBuffers, mGeneration, mGenerationCount, keptOver, group, frame,
                     frames>>
      /\ InHand' = InHand /\ x \in Buf /\ unused \in Seq(Buf)
  BY <1>0 DEF MppRelease, decVars, threadVars, history, InHand, MppTypes
<1>3. unused' = unused \/ (unused' = Append(unused, x) /\ ref[x] = 1 /\ x \in group)
  BY <1>0, <1>1, <1>2, PutOneAppends
<1>4. /\ Elements(unused) \subseteq Elements(unused')
      /\ Elements(unused') \subseteq Elements(unused) \cup {x}
      /\ x \in Elements(unused') => x \in Elements(unused) \/ (ref[x] = 1 /\ x \in group)
  <2>1. Elements(Append(unused, x)) = Elements(unused) \cup {x}
    BY <1>2, AppendElements
  <2>2. QED
    BY <1>3, <2>1
<1>5. \A b \in Buf : Has(b)' => Has(b)
  <2>1. \A b \in Buf : ref'[b] = IF b = x THEN ref[b] - 1 ELSE ref[b]
    BY <1>0, <1>1, <1>2, PutOneIs
  <2>2. QED
    BY <1>1, <1>2, <1>4, <2>1 DEF Has
<1>6. \A b \in Entered : b \in Pipe => b \in Pipe'
  BY <1>2, <1>4 DEF Pipe
<1>7. x \in Pipe => unused' = unused
  <2>1. SUFFICES ASSUME x \in Pipe, ref[x] = 1 PROVE FALSE
    BY <1>3
  <2>2. x \notin Elements(unused)
    BY <1>0, <2>1 DEF UnusedInv
  <2>3. Holders(x) = 2
    BY <1>1, <2>1, <2>2 DEF Holders, Pipe
  <2>4. QED
    BY <1>0, <1>2, <2>1, <2>3 DEF RefInv
<1>8. ASSUME NEW b \in Entered, NEW c \in Entered, b \in Pipe, After(c, b)
      PROVE  After(c, b)'
  <2>1. CASE unused' = unused
    BY <1>2, <1>8, <2>1 DEF After
  <2>2. CASE unused' # unused
    <3>1. b # x
      BY <1>7, <1>8, <2>2
    <3>2. Before(unused', b, c)
      BY <1>2, <1>3, <1>8, <3>1, BeforeAppend DEF After
    <3>3. b \in Elements(unused') => c \notin Elements(frames')
      BY <1>2, <1>4, <1>8, <3>1 DEF After
    <3>4. c \notin InHand' /\ Before(frames', b, c)
      BY <1>2, <1>8 DEF After
    <3>5. QED
      BY <3>2, <3>3, <3>4 DEF After
  <2>3. QED
    BY <2>1, <2>2
<1>9. QED
  BY <1>0, <1>2, <1>5, <1>6, <1>8, KnownKept

\* A change of resolution comes after the frames.
LEMMA KnownOfInfo ==
    ASSUME Drainer = {}, SafeInv, KnownInv, AgeInv', ~Dirty, MppInfoChange
    PROVE  KnownInv'
<1>0. /\ mOutBuffers \in Seq(OutBuffer) /\ MppTypes /\ Entered \subseteq Buf
      /\ \A b \in Buf : b # Info
  BY SafeTypes
<1>1. /\ UNCHANGED <<mOutBuffers, mGeneration, mGenerationCount, keptOver, group, frame,
                     unused, ref, held>>
      /\ InHand' = InHand /\ frames' = Append(frames, Info)
      /\ frames \in Seq(Buf \cup {Info}) /\ Info \in Buf \cup {Info}
  BY <1>0 DEF MppInfoChange, decVars, threadVars, InHand, MppTypes
<1>2. Elements(frames') = Elements(frames) \cup {Info}
  BY <1>1, AppendElements
<1>3. \A b \in Buf : Has(b)' => Has(b)
  BY <1>0, <1>1, <1>2 DEF Has
<1>4. \A b \in Entered : b \in Pipe => b \in Pipe'
  BY <1>1, <1>2 DEF Pipe
<1>5. ASSUME NEW b \in Entered, NEW c \in Entered, b \in Pipe, After(c, b)
      PROVE  After(c, b)'
  <2>1. Before(frames', b, c)
    BY <1>0, <1>1, <1>5, BeforeAppend DEF After
  <2>2. b \in Elements(unused') => c \notin Elements(frames')
    BY <1>0, <1>1, <1>2, <1>5 DEF After
  <2>3. QED
    BY <1>1, <1>5, <2>1, <2>2 DEF After
<1>6. QED
  BY <1>0, <1>1, <1>3, <1>4, <1>5, KnownKept

\* Steps that leave MPP and the table alone.
LEMMA KnownQuiet ==
    ASSUME Drainer = {}, SafeInv, KnownInv, AgeInv', ~Dirty,
           UNCHANGED <<mOutBuffers, mGeneration, mGenerationCount, keptOver, group, frame,
                       unused, frames, ref, held>>
    PROVE  KnownInv'
<1>0. mOutBuffers \in Seq(OutBuffer)
  BY SafeTypes
<1>1. /\ \A b \in Buf : Has(b)' => Has(b)
      /\ \A b \in Entered : b \in Pipe => b \in Pipe'
      /\ \A b, c \in Entered : b \in Pipe /\ After(c, b) => After(c, b)'
  BY DEF Has, Pipe, InHand, After
<1>2. QED
  BY <1>0, <1>1, KnownKept

\* The block that is taken is one of those in hand; no other is behind it.
LEMMA KnownOfTake ==
    ASSUME Drainer = {}, SafeInv, SafeInv', KnownInv, AgeInv', ~Dirty, TakeBlock(Looper)
    PROVE  KnownInv'
<1>0. /\ mOutBuffers \in Seq(OutBuffer) /\ HoldInv /\ Thread = {Looper} /\ Looper \in Thread
      /\ OtherTypes /\ HolderInv /\ EntryInv /\ \A b \in Buf : b # None
  BY SafeTypes DEF SafeInv
<1>x. PICK x \in Buf : x = frame[Looper]
  BY <1>0, FoundIs
<1> DEFINE n == Found(Looper)
<1>1. /\ n \in DOMAIN mOutBuffers /\ mOutBuffers[n].mppBuffer = x /\ x \in InHand
  BY <1>0, <1>x, FoundIs DEF MpiSites
<1>2. /\ mOutBuffers' = [mOutBuffers EXCEPT ![n].site = "C2"]
      /\ frame' = [frame EXCEPT ![Looper] = None]
      /\ UNCHANGED <<ref, group, unused, frames, held, mGeneration, mGenerationCount,
                     keptOver, memory>>
      /\ ~Dirty'
  BY <1>0 DEF TakeBlock, mppVars, history, Dirty, Goto, SafeInv, HoldInv, TypeInv, OwnedInv,
              TableOK
<1> HIDE DEF n
<1>3. /\ DOMAIN mOutBuffers' = DOMAIN mOutBuffers /\ mOutBuffers'[n].site = "C2"
      /\ mOutBuffers'[n].generation = mOutBuffers[n].generation
      /\ mOutBuffers'[n].mppBuffer = x
      /\ \A j \in DOMAIN mOutBuffers : j # n => mOutBuffers'[j] = mOutBuffers[j]
  BY <1>0, <1>1, <1>2, SiteIs
<1>4. InHand' = {None} /\ InHand = {x}
  BY <1>0, <1>x, <1>2 DEF InHand, OtherTypes
<1>5. ~Has(x)'
  <2>1. x \in C2Buffers(mOutBuffers')
    BY <1>1, <1>3 DEF C2Buffers, C2Sites
  <2>2. QED
    BY <1>2, <2>1 DEF SafeInv, HasInv, Placed
<1>6. \A b \in Buf : Expected(b)' => b # x /\ Expected(b)
  BY <1>0, <1>2, <1>4, <1>5 DEF Expected, Has
<1>7. KnownEntries'
  <2>1. SUFFICES ASSUME NEW b \in Buf, Expected(b)'
                 PROVE  \E i \in MpiSites(mOutBuffers') : mOutBuffers'[i].mppBuffer = b
    BY DEF KnownEntries
  <2>2. PICK i \in MpiSites(mOutBuffers) : mOutBuffers[i].mppBuffer = b
    BY <1>6, <2>1 DEF KnownInv, KnownEntries
  <2>3. i # n
    BY <1>1, <1>6, <2>1, <2>2
  <2>4. QED
    BY <1>3, <2>2, <2>3 DEF MpiSites
<1>8. OldFirst'
  <2>1. SUFFICES ASSUME NEW i \in MpiSites(mOutBuffers'),
                        mOutBuffers'[i].generation # mGeneration,
                        Expected(mOutBuffers[i].mppBuffer)'
                 PROVE  /\ mOutBuffers'[i].mppBuffer \in Pipe'
                        /\ \A j \in OfGeneration(mOutBuffers', mGeneration) :
                              /\ mOutBuffers'[j].site = "MPI"
                              /\ After(mOutBuffers[j].mppBuffer, mOutBuffers[i].mppBuffer)'
                        /\ mGenerationCount
                             <= Cardinality(OfGeneration(mOutBuffers', mGeneration))
    BY <1>2 DEF OldFirst, Expected
  <2>2. /\ i # n /\ i \in MpiSites(mOutBuffers) /\ mOutBuffers'[i] = mOutBuffers[i]
    BY <1>3, <2>1 DEF MpiSites
  <2>3. PICK b \in Buf : b = mOutBuffers[i].mppBuffer
    BY <1>0, <2>2, EntryTypes DEF MpiSites, OutBuffer
  <2>4. b # x /\ Expected(b)
    <3>1. Expected(b)'
      BY <2>1, <2>2, <2>3 DEF Expected, Has
    <3>2. QED
      BY <1>6, <3>1
  <2>5. OfGeneration(mOutBuffers', mGeneration) = OfGeneration(mOutBuffers, mGeneration)
    BY <1>1, <1>3 DEF OfGeneration
  <2>6. /\ b \in Pipe
        /\ \A j \in OfGeneration(mOutBuffers, mGeneration) :
              mOutBuffers[j].site = "MPI" /\ After(mOutBuffers[j].mppBuffer, b)
        /\ mGenerationCount <= Cardinality(OfGeneration(mOutBuffers, mGeneration))
    BY <2>1, <2>2, <2>3, <2>4 DEF KnownInv, OldFirst
  <2>7. b \in Pipe'
    BY <1>2, <1>4, <2>4, <2>6 DEF Pipe
  <2>8. ASSUME NEW j \in OfGeneration(mOutBuffers, mGeneration)
        PROVE  /\ mOutBuffers'[j].site = "MPI"
               /\ After(mOutBuffers[j].mppBuffer, mOutBuffers[i].mppBuffer)'
    <3>1. j \in DOMAIN mOutBuffers /\ mOutBuffers[j].site = "MPI"
      BY <2>6 DEF OfGeneration
    <3>2. PICK c \in Buf : c = mOutBuffers[j].mppBuffer
      BY <1>0, <3>1, EntryTypes DEF OutBuffer
    <3>3. After(c, b)
      BY <2>6, <3>2
    <3>4. j # n
      BY <1>1, <3>2, <3>3 DEF After
    <3>5. mOutBuffers'[j] = mOutBuffers[j]
      BY <1>3, <3>1, <3>4
    <3>6. After(c, b)'
      BY <1>0, <1>2, <1>4, <3>3 DEF After
    <3>7. QED
      BY <2>2, <2>3, <3>1, <3>2, <3>5, <3>6 DEF After
  <2>9. QED
    BY <2>2, <2>3, <2>5, <2>6, <2>7, <2>8
<1>9. QED
  BY <1>7, <1>8 DEF KnownInv

\* commitBufferToMpp counts the generation's blocks.
LEMMA CountIs ==
    ASSUME SafeInv, NEW t \in Thread, Fetch(t)
    PROVE  /\ mGeneration' = surface /\ mGenerationCount' \in Nat
           /\ mGeneration # surface => mGenerationCount' = 1
           /\ mGeneration = surface => mGenerationCount' <= mGenerationCount + 1
           /\ mGenerationCount \in Nat
<1>1. mGenerationCount \in Nat
  BY DEF SafeInv, HoldInv, TypeInv, OtherTypes
<1>2. /\ mGeneration' = surface
      /\ mGenerationCount' = IF mGeneration # surface THEN 1
                 ELSE IF mGenerationCount > kMaxGegerationClearCount
                      THEN mGenerationCount ELSE mGenerationCount + 1
  BY DEF Fetch, Commit
<1>3. QED
  BY <1>1, <1>2

\* No entry is forgotten while a buffer of an older surface is expected: so many
\* blocks of the new surface are with MPP only after it.
LEMMA NoneCleared ==
    ASSUME kMaxReferenceCount <= kMaxGegerationClearCount + 1, SafeInv, KnownInv,
           NEW t \in Thread, Fetch(t), NEW s, Cleared(s),
           NEW i \in MpiSites(mOutBuffers), mOutBuffers[i].generation # surface,
           Expected(mOutBuffers[i].mppBuffer)
    PROVE  s = mOutBuffers
<1>0. /\ mOutBuffers \in Seq(OutBuffer) /\ left \in [Thread -> Nat] /\ RoomLeft
      /\ kMaxReferenceCount \in Nat /\ kMaxGegerationClearCount \in Nat
  BY BuffersAssumption DEF SafeInv, HoldInv, TypeInv, OwnedInv, TableOK
<1> DEFINE S == MpiSites(mOutBuffers)
           C == OfGeneration(mOutBuffers, mGeneration)
<1>1. /\ IsFiniteSet(S) /\ OwnedByMpi(mOutBuffers) = Cardinality(S)
      /\ Cardinality(S) \in Nat
  BY <1>0, OwnedNat
<1>2. Cardinality(S) + 1 <= kMaxReferenceCount
  BY <1>0, <1>1 DEF Fetch, RoomLeft
<1>3. Cardinality(S) <= kMaxGegerationClearCount
  BY <1>0, <1>1, <1>2
<1>4. CASE mGeneration # surface
  <2>1. mGenerationCount' = 1
    BY <1>4, CountIs
  <2>2. Cardinality(S) # 0
    BY <1>1, FS_EmptySet
  <2>3. QED
    BY <1>0, <1>1, <1>3, <2>1, <2>2 DEF Cleared
<1>5. CASE mGeneration = surface
  <2>1. /\ \A j \in C : mOutBuffers[j].site = "MPI"
        /\ mGenerationCount <= Cardinality(C)
    BY <1>5 DEF KnownInv, OldFirst
  <2>2. C \subseteq S \ {i}
    BY <1>5, <2>1 DEF OfGeneration, MpiSites
  <2> HIDE DEF S, C
  <2>3. /\ IsFiniteSet(S \ {i}) /\ Cardinality(S \ {i}) = Cardinality(S) - 1
    BY <1>1, FS_RemoveElement DEF S
  <2>4. /\ Cardinality(C) \in Nat /\ Cardinality(C) <= Cardinality(S \ {i})
    BY <2>2, <2>3, FS_Subset, FS_CardinalityType
  <2>5. mGenerationCount' <= mGenerationCount + 1 /\ mGenerationCount \in Nat
        /\ mGenerationCount' \in Nat
    BY <1>5, CountIs
  <2>6. mGenerationCount' <= Cardinality(S)
    BY <1>1, <2>1, <2>3, <2>4, <2>5
  <2>7. QED
    BY <1>0, <1>1, <1>3, <2>5, <2>6 DEF Cleared
<1>6. QED
  BY <1>4, <1>5

\* So an expected buffer keeps its entry.
LEMMA EntryStays ==
    ASSUME kMaxReferenceCount <= kMaxGegerationClearCount + 1, SafeInv, KnownInv,
           NEW t \in Thread, Fetch(t), NEW s, Cleared(s),
           NEW i \in MpiSites(mOutBuffers), Expected(mOutBuffers[i].mppBuffer)
    PROVE  \E j \in MpiSites(s) : s[j] = mOutBuffers[i]
<1>1. CASE mOutBuffers[i].generation # surface
  BY <1>1, NoneCleared
<1>2. CASE mOutBuffers[i].generation = surface
  <2>1. mOutBuffers \in Seq(OutBuffer) /\ i \in DOMAIN mOutBuffers
    BY DEF SafeInv, HoldInv, TypeInv, OwnedInv, TableOK, MpiSites
  <2>2. \E j \in DOMAIN s : s[j] = mOutBuffers[i]
    BY <1>2, <2>1, NewestKept DEF Cleared
  <2>3. QED
    BY <2>2 DEF MpiSites
<1>3. QED
  BY <1>1, <1>2

\* The reference pictures kept over are those of older surfaces, those MPP has
\* now too.
LEMMA KeptIs ==
    ASSUME Drainer = {}, SafeInv, KnownInv, ~Dirty, NEW t \in Thread, Fetch(t),
           NEW b \in Buf, Has(b), b \notin keptOver'
    PROVE  /\ Expected(b)
           /\ memory[b].generation # surface => b \notin held
<1>1. b \in group /\ memory[b] # None /\ memory \in [Buf -> Block \cup {None}]
  BY DEF SafeInv, HasInv, Placed, HoldInv, UnusedInv, TypeInv, MppTypes
<1>2. memory'[b] = memory[b]
  BY <1>1, EntriesOfFetch DEF GroupKept
<1>3. b \in keptOver \cup held => memory[b].generation = surface
  BY <1>1, <1>2 DEF Fetch, OfOlderSurface
<1>4. b \notin keptOver
  BY <1>1, <1>3 DEF KnownInv, AgeInv
<1>5. QED
  BY <1>3, <1>4 DEF Expected

\* The entry n of the new table is for the buffer x that MPP is given; the others
\* are those of s.
Given(s, x, n) ==
    /\ n \in MpiSites(mOutBuffers') /\ mOutBuffers'[n].mppBuffer = x
    /\ mOutBuffers'[n].generation = surface
    /\ \A j \in MpiSites(s) : /\ j \in MpiSites(mOutBuffers')
                              /\ mOutBuffers'[j].mppBuffer = s[j].mppBuffer
    /\ \A j \in DOMAIN mOutBuffers' : j # n => j \in DOMAIN s /\ mOutBuffers'[j] = s[j]
    /\ \A b \in Buf : Has(b)' => Has(b) \/ b = x
    /\ \A b \in Buf : memory'[b] # None => \/ memory'[b] = memory[b]
                                           \/ memory'[b].generation = surface

\* It is there again, or new and the last.
GivenNew(s, x, n) ==
    /\ ~Has(x) /\ n \notin DOMAIN s /\ DOMAIN mOutBuffers' = DOMAIN s \cup {n}
    /\ \A j \in DOMAIN s : mOutBuffers'[j] = s[j]
    /\ unused' = Append(unused, x)

\* A block that comes again is given with its entry.
LEMMA GivenAgain ==
    ASSUME Drainer = {}, SafeInv, ~Dirty, NEW t \in Thread, Fetch(t), NEW slot \in free,
           NEW s \in Seq(OutBuffer), NEW i \in C2Sites(s), Again(s, i, slot)
    PROVE  \E x \in Buf : Given(s, x, i)
<1>1. MppTypes /\ i \in DOMAIN s
  BY DEF SafeInv, HoldInv, TypeInv, C2Sites
<1>2. PICK x \in Buf : x = s[i].mppBuffer
  BY <1>1, EntryTypes DEF OutBuffer
<1>3. /\ PutOne(x) /\ group' = group /\ mOutBuffers' = [s EXCEPT ![i].site = "MPI"]
      /\ s[i].generation = surface
  BY <1>2 DEF Again
<1>4. /\ DOMAIN mOutBuffers' = DOMAIN s
      /\ mOutBuffers'[i].generation = s[i].generation
      /\ mOutBuffers'[i].mppBuffer = s[i].mppBuffer /\ mOutBuffers'[i].site = "MPI"
      /\ \A j \in DOMAIN s : j # i => mOutBuffers'[j] = s[j]
  BY <1>1, <1>3, SiteIs
<1>5. /\ UNCHANGED <<frames, held>> /\ InHand' = InHand
  BY DEF Fetch, InHand
<1>6. \A b \in Buf : Has(b)' => Has(b) \/ b = x
  BY <1>3, <1>5, PutGives
<1>7. \A b \in Buf : memory'[b] # None => memory'[b] = memory[b]
  BY <1>1, <1>3, PutGivesNone DEF NoNewMemory
<1>8. QED
  BY <1>1, <1>2, <1>3, <1>4, <1>6, <1>7 DEF Given, MpiSites

\* A block seen for the first time is given with a new entry, the last one.
LEMMA GivenFresh ==
    ASSUME Drainer = {}, SafeInv, ~Dirty, NEW t \in Thread, Fetch(t), NEW slot \in free,
           NEW s \in Seq(OutBuffer), NEW x \in Buf, Fresh(s, x, slot)
    PROVE  Given(s, x, Len(s) + 1) /\ GivenNew(s, x, Len(s) + 1)
<1>0. /\ MppTypes /\ UnusedInv /\ HasInv /\ free \subseteq Slot /\ surface \in Generation
      /\ DOMAIN s = 1 .. Len(s) /\ Len(s) \in Nat
  BY LenProperties DEF SafeInv, HoldInv, TypeInv, OwnedInv, TableOK
<1> DEFINE e == [index |-> slot, generation |-> surface, mppBuffer |-> x, site |-> "MPI"]
<1>1. e \in OutBuffer /\ mOutBuffers' = Append(s, e)
  BY <1>0 DEF Fresh, OutBuffer
<1>2. e.mppBuffer = x /\ e.site = "MPI" /\ e.generation = surface
  OBVIOUS
<1> HIDE DEF e
<1>3. /\ Len(s) + 1 \in DOMAIN mOutBuffers' /\ mOutBuffers'[Len(s) + 1] = e
      /\ \A j \in DOMAIN s : j \in DOMAIN mOutBuffers' /\ mOutBuffers'[j] = s[j]
      /\ \A j \in DOMAIN mOutBuffers' : j \in DOMAIN s \/ j = Len(s) + 1
  <2>1. /\ Append(s, e) \in Seq(OutBuffer) /\ Len(Append(s, e)) = Len(s) + 1
        /\ Append(s, e)[Len(s) + 1] = e
        /\ \A i \in DOMAIN s : i \in DOMAIN Append(s, e) /\ Append(s, e)[i] = s[i]
        /\ \A i \in DOMAIN Append(s, e) : i \in DOMAIN s \/ i = Len(s) + 1
    BY <1>1, AppendElements
  <2>2. DOMAIN Append(s, e) = 1 .. Len(s) + 1
    BY <2>1, LenProperties
  <2>3. QED
    BY <1>0, <1>1, <2>1, <2>2
<1>4. /\ unused' = Append(unused, x) /\ group' = group \cup {x} /\ ref' = ref /\ x \notin group
      /\ memory' = [memory EXCEPT ![x] = [slot |-> slot, generation |-> surface]]
  BY <1>0 DEF Fresh, UnusedInv
<1>5. Elements(unused') = Elements(unused) \cup {x}
  BY <1>0, <1>4, AppendElements DEF MppTypes
<1>6. ~Has(x)
  BY <1>0, <1>4 DEF HasInv, Placed
<1>7. \A b \in Buf : Has(b)' => Has(b) \/ b = x
  BY <1>4, <1>5 DEF Fetch, Has, InHand
<1>8. \A b \in Buf : memory'[b] = memory[b] \/ memory'[b].generation = surface
  BY <1>0, <1>4 DEF MppTypes
<1>9. Given(s, x, Len(s) + 1)
  BY <1>2, <1>3, <1>7, <1>8 DEF Given, MpiSites
<1>10. GivenNew(s, x, Len(s) + 1)
  <2>1. Len(s) + 1 \notin DOMAIN s
    BY <1>0
  <2>2. DOMAIN mOutBuffers' = DOMAIN s \cup {Len(s) + 1}
    BY <1>3
  <2>3. QED
    BY <1>3, <1>4, <1>6, <2>1, <2>2 DEF GivenNew
<1>11. QED
  BY <1>9, <1>10

\* A commit gives MPP one buffer, in one of the two ways.
LEMMA GivenIs ==
    ASSUME Drainer = {}, SafeInv, ~Dirty, NEW t \in Thread, Fetch(t)
    PROVE  \E s \in Seq(OutBuffer), x \in Buf, n \in Nat :
              /\ Suffix(s, mOutBuffers) /\ Cleared(s) /\ Given(s, x, n)
              /\ \/ \E k \in C2Sites(s) : s[k].generation = surface
                 \/ GivenNew(s, x, n)
<1>1. PICK slot \in free, s \in Seq(OutBuffer) :
              /\ Suffix(s, mOutBuffers) /\ Cleared(s)
              /\ \/ \E i \in C2Sites(s) : Again(s, i, slot)
                 \/ \E b \in Buf : Fresh(s, b, slot)
  BY FetchIs DEF SafeInv
<1>2. ASSUME NEW i \in C2Sites(s), Again(s, i, slot)
      PROVE  \E x \in Buf : Given(s, x, i) /\ i \in Nat /\ s[i].generation = surface
  <2>1. i \in Nat
    BY EntryTypes DEF C2Sites
  <2>2. QED
    BY <1>2, <2>1, GivenAgain DEF Again
<1>3. ASSUME NEW x \in Buf, Fresh(s, x, slot)
      PROVE  Given(s, x, Len(s) + 1) /\ GivenNew(s, x, Len(s) + 1) /\ Len(s) + 1 \in Nat
  BY <1>3, GivenFresh, LenProperties
<1>4. CASE \E i \in C2Sites(s) : Again(s, i, slot)
  BY <1>1, <1>2, <1>4
<1>5. CASE \E b \in Buf : Fresh(s, b, slot)
  BY <1>1, <1>3, <1>5
<1>6. QED
  BY <1>1, <1>4, <1>5

\* No block is newer than the surface after a commit.
LEMMA AgeOfFetch ==
    ASSUME Drainer = {}, SafeInv, KnownInv, ~Dirty, NEW t \in Thread, Fetch(t)
    PROVE  AgeInv'
<1>1. /\ surface' = surface /\ surface \in Nat
      /\ keptOver' = {b \in keptOver \cup held : OfOlderSurface(memory'[b])}
  BY BuffersAssumption
     DEF Fetch, SafeInv, HoldInv, TypeInv, OwnedInv, TableOK, Generation
<1>2. \A b \in Buf : memory'[b] # None => memory'[b].generation <= surface
  BY <1>1, GivenIs DEF Given, KnownInv, AgeInv
<1>3. \A b \in keptOver' : memory'[b].generation # surface
  BY <1>1 DEF OfOlderSurface
<1>4. TokenInv'
  BY TokensOfFetch DEF SafeInv
<1>5. mGeneration' = surface
  BY CountIs
<1>6. QED
  BY <1>1, <1>2, <1>3, <1>4, <1>5 DEF AgeInv, TokenInv

\* Each buffer that is expected after a commit has its entry.
LEMMA EntriesOfCommit ==
    ASSUME Drainer = {}, kMaxReferenceCount <= kMaxGegerationClearCount + 1,
           SafeInv, KnownInv, ~Dirty, NEW t \in Thread, Fetch(t)
    PROVE  KnownEntries'
<1>1. PICK s \in Seq(OutBuffer), x \in Buf, n \in Nat : Cleared(s) /\ Given(s, x, n)
  BY GivenIs
<1>2. SUFFICES ASSUME NEW b \in Buf, Expected(b)'
               PROVE  \E i \in MpiSites(mOutBuffers') : mOutBuffers'[i].mppBuffer = b
  BY DEF KnownEntries
<1>3. CASE b = x
  BY <1>1, <1>3 DEF Given
<1>4. CASE b # x
  <2>1. Has(b) /\ b \notin keptOver'
    BY <1>1, <1>2, <1>4 DEF Expected, Given
  <2>2. Expected(b)
    BY <2>1, KeptIs
  <2>3. PICK i \in MpiSites(mOutBuffers) : mOutBuffers[i].mppBuffer = b
    BY <2>2 DEF KnownInv, KnownEntries
  <2>4. PICK j \in MpiSites(s) : s[j] = mOutBuffers[i]
    BY <1>1, <2>2, <2>3, EntryStays
  <2>5. QED
    BY <1>1, <2>3, <2>4 DEF Given
<1>5. QED
  BY <1>3, <1>4

\* Only a new block is given while a buffer of an older surface is expected.
LEMMA OldOfCommit ==
    ASSUME Drainer = {}, kMaxReferenceCount <= kMaxGegerationClearCount + 1,
           SafeInv, KnownInv, ~Dirty, NEW t \in Thread, Fetch(t),
           NEW s \in Seq(OutBuffer), NEW x \in Buf, NEW n, Suffix(s, mOutBuffers),
           Cleared(s), Given(s, x, n),
           \/ \E k \in C2Sites(s) : s[k].generation = surface
           \/ GivenNew(s, x, n),
           NEW i \in MpiSites(mOutBuffers'), mOutBuffers'[i].generation # surface,
           NEW b \in Buf, b = mOutBuffers'[i].mppBuffer, Expected(b)'
    PROVE  /\ GivenNew(s, x, n) /\ s = mOutBuffers /\ b # x /\ b \in Pipe
           /\ \A j \in OfGeneration(mOutBuffers, surface) :
                 /\ mGeneration = surface
                 /\ mOutBuffers[j].site = "MPI" /\ After(mOutBuffers[j].mppBuffer, b)
           /\ mGeneration = surface
                => mGenerationCount <= Cardinality(OfGeneration(mOutBuffers, surface))
<1>0. /\ mOutBuffers \in Seq(OutBuffer) /\ EntryInv /\ EntryInv'
      /\ surface \in Nat /\ mGeneration \in Nat
  BY EntriesOfFetch, BuffersAssumption
     DEF SafeInv, HoldInv, TypeInv, OwnedInv, TableOK, OtherTypes, Generation
<1>1. i # n /\ i \in MpiSites(s) /\ mOutBuffers'[i] = s[i]
  BY DEF Given, MpiSites
<1>2. b # x
  BY <1>0, <1>1 DEF Given, EntryInv, OwnBuffers, MpiSites
<1>3. PICK l \in MpiSites(mOutBuffers) : s[i] = mOutBuffers[l]
  BY <1>0, <1>1, SuffixIs DEF MpiSites
<1>4. Has(b) /\ b \notin keptOver'
  BY <1>2 DEF Expected, Given
<1>5. memory[b].generation = mOutBuffers[l].generation
  <2>1. b = mOutBuffers[l].mppBuffer
    BY <1>1, <1>3
  <2>2. memory[b] = BlockOf(mOutBuffers[l])
    BY <1>0, <2>1 DEF EntryInv, OwnBuffers, MpiSites
  <2>3. QED
    BY <2>2 DEF BlockOf
<1>6. Expected(b) /\ b \notin held
  BY <1>1, <1>3, <1>4, <1>5, KeptIs
<1>7. s = mOutBuffers
  BY <1>1, <1>3, <1>6, NoneCleared
<1>8. b \in Pipe
  BY <1>4, <1>6 DEF Has, Pipe
<1>9. \A j \in OfGeneration(mOutBuffers, surface) : mGeneration = surface
  BY <1>0 DEF KnownInv, AgeInv, OfGeneration
<1>10. mGeneration = surface =>
          /\ \A j \in OfGeneration(mOutBuffers, surface) :
                mOutBuffers[j].site = "MPI" /\ After(mOutBuffers[j].mppBuffer, b)
          /\ mGenerationCount <= Cardinality(OfGeneration(mOutBuffers, surface))
  BY <1>1, <1>3, <1>6 DEF KnownInv, OldFirst
<1>11. GivenNew(s, x, n)
  <2>1. ASSUME NEW k \in C2Sites(s), s[k].generation = surface PROVE FALSE
    <3>1. k \in OfGeneration(mOutBuffers, surface) /\ mOutBuffers[k].site = "C2"
      BY <1>7, <2>1 DEF OfGeneration, C2Sites
    <3>2. QED
      BY <1>9, <1>10, <3>1
  <2>2. QED
    BY <2>1
<1>12. QED
  BY <1>2, <1>7, <1>8, <1>9, <1>10, <1>11

\* It comes after that buffer, and is counted.
LEMMA OldFirstOfFetch ==
    ASSUME Drainer = {}, kMaxReferenceCount <= kMaxGegerationClearCount + 1,
           SafeInv, KnownInv, ~Dirty, NEW t \in Thread, Fetch(t)
    PROVE  OldFirst'
<1>0. /\ mOutBuffers \in Seq(OutBuffer) /\ unused \in Seq(Buf)
  BY DEF SafeInv, HoldInv, TypeInv, OwnedInv, TableOK, MppTypes
<1>1. PICK s \in Seq(OutBuffer), x \in Buf, n \in Nat :
         /\ Suffix(s, mOutBuffers) /\ Cleared(s) /\ Given(s, x, n)
         /\ \/ \E k \in C2Sites(s) : s[k].generation = surface
            \/ GivenNew(s, x, n)
  BY GivenIs
<1>2. /\ mGeneration' = surface /\ mGenerationCount' \in Nat /\ mGenerationCount \in Nat
      /\ mGeneration # surface => mGenerationCount' = 1
      /\ mGeneration = surface => mGenerationCount' <= mGenerationCount + 1
  BY CountIs
<1>3. frames' = frames /\ InHand' = InHand
  BY DEF Fetch, InHand
<1>4. mOutBuffers' \in Seq(OutBuffer)
  BY TypeStep DEF SafeInv, HoldInv, TypeInv, OwnedInv, TableOK, Next, ThreadNext, InCall
<1>5. SUFFICES ASSUME NEW i \in MpiSites(mOutBuffers'),
                      mOutBuffers'[i].generation # surface,
                      Expected(mOutBuffers[i].mppBuffer)'
               PROVE  /\ mOutBuffers'[i].mppBuffer \in Pipe'
                      /\ \A j \in OfGeneration(mOutBuffers', surface) :
                            /\ mOutBuffers'[j].site = "MPI"
                            /\ After(mOutBuffers[j].mppBuffer, mOutBuffers[i].mppBuffer)'
                      /\ mGenerationCount'
                           <= Cardinality(OfGeneration(mOutBuffers', surface))
  BY <1>2 DEF OldFirst
<1>6. PICK b \in Buf : b = mOutBuffers'[i].mppBuffer
  BY <1>4, EntryTypes DEF MpiSites, OutBuffer
<1>7. Expected(b)'
  BY <1>5, <1>6 DEF Expected, Has
<1> DEFINE C == OfGeneration(mOutBuffers, surface)
<1>8. /\ GivenNew(s, x, n) /\ s = mOutBuffers /\ b # x /\ b \in Pipe
      /\ \A j \in C : /\ mGeneration = surface
                      /\ mOutBuffers[j].site = "MPI" /\ After(mOutBuffers[j].mppBuffer, b)
      /\ mGeneration = surface => mGenerationCount <= Cardinality(C)
  BY <1>1, <1>5, <1>6, <1>7, OldOfCommit
<1>9. /\ unused' = Append(unused, x) /\ Elements(unused') = Elements(unused) \cup {x}
      /\ x \notin Elements(unused) /\ x \notin Elements(frames) /\ x \notin InHand
  BY <1>0, <1>8, AppendElements DEF GivenNew, Has
<1>10. ASSUME NEW c, c = x \/ After(c, b) PROVE After(c, b)'
  <2>1. Before(unused, b, c) /\ Before(frames, b, c) /\ c \notin InHand
    BY <1>9, <1>10, BeforeNone DEF After
  <2>2. Before(unused', b, c)
    BY <1>0, <1>8, <1>9, <2>1, BeforeAppend
  <2>3. b \in Elements(unused') => c \notin Elements(frames')
    BY <1>3, <1>8, <1>9, <1>10 DEF After
  <2>4. QED
    BY <1>3, <2>1, <2>2, <2>3 DEF After
<1>11. OfGeneration(mOutBuffers', surface) = C \cup {n} /\ n \notin C
  BY <1>1, <1>8 DEF OfGeneration, Given, GivenNew, MpiSites
<1>12. ASSUME NEW j \in C \cup {n}
       PROVE  /\ mOutBuffers'[j].site = "MPI"
              /\ After(mOutBuffers[j].mppBuffer, mOutBuffers[i].mppBuffer)'
  <2>1. PICK c : c = mOutBuffers'[j].mppBuffer
    OBVIOUS
  <2>2. j = n => mOutBuffers'[j].site = "MPI" /\ c = x
    BY <1>1, <2>1 DEF Given, MpiSites
  <2>3. j # n => mOutBuffers'[j].site = "MPI" /\ After(c, b)
    BY <1>8, <1>12, <2>1 DEF GivenNew, OfGeneration
  <2>4. After(c, b)'
    BY <1>10, <2>2, <2>3
  <2>5. QED
    BY <1>6, <2>1, <2>2, <2>3, <2>4 DEF After
<1>13. mGenerationCount' <= Cardinality(C \cup {n})
  <2>1. IsFiniteSet(C)
    <3>1. IsFiniteSet(DOMAIN mOutBuffers) /\ C \subseteq DOMAIN mOutBuffers
      BY <1>0, EntryTypes DEF OfGeneration
    <3>2. QED
      BY <3>1, FS_Subset
  <2> HIDE DEF C
  <2>2. Cardinality(C \cup {n}) = Cardinality(C) + 1 /\ Cardinality(C) \in Nat
    BY <1>11, <2>1, FS_AddElement, FS_CardinalityType
  <2>3. QED
    BY <1>2, <1>8, <2>2
<1>14. b \in Pipe'
  BY <1>3, <1>8, <1>9 DEF Pipe
<1>15. QED
  BY <1>6, <1>11, <1>12, <1>13, <1>14

\* Nothing else gives a buffer memory, or the table an entry.
LEMMA AgeStep ==
    ASSUME Drainer = {}, SafeInv, KnownInv, [Next]_vars PROVE AgeInv'
<1>0. /\ Thread = {Looper} /\ Looper \in Thread /\ MppTypes /\ TableOK /\ AgeInv
      /\ mOutBuffers \in Seq(OutBuffer) /\ HoldInv /\ DirtyInv
  BY SafeTypes DEF SafeInv, KnownInv
<1>1. CASE Fetch(Looper) /\ pc[Looper] = "fetch"
  BY <1>0, <1>1, AgeOfFetch DEF Dirty
<1>2. CASE NewSurface
  <2>1. /\ surface' = surface + 1 /\ surface \in Nat
        /\ UNCHANGED <<mOutBuffers, mGeneration, memory, keptOver>>
    BY <1>0, <1>2, BuffersAssumption DEF NewSurface, decVars, mppVars, history, TableOK,
                                         Generation
  <2>2. \A i \in DOMAIN mOutBuffers : mOutBuffers[i].generation <= mGeneration
    BY <1>0 DEF AgeInv
  <2>3. mGeneration \in Nat
    BY BuffersAssumption DEF SafeInv, HoldInv, TypeInv, OtherTypes, Generation
  <2>4. ASSUME NEW b \in Buf, memory[b] # None
        PROVE  memory[b].generation <= surface + 1 /\ memory[b].generation # surface + 1
    <3>1. memory[b].generation \in Nat
      BY <1>0, <2>4, BuffersAssumption DEF MppTypes, Block, Generation
    <3>2. QED
      BY <1>0, <2>1, <2>4, <3>1 DEF AgeInv
  <2>5. QED
    BY <1>0, <2>1, <2>2, <2>3, <2>4 DEF AgeInv
<1>3. ASSUME UNCHANGED <<mOutBuffers, mGeneration, memory, keptOver, surface>>
      PROVE  AgeInv'
  BY <1>0, <1>3 DEF AgeInv
<1>4. CASE \/ Begin(Looper) \/ EnsureBegin(Looper) \/ EnsureEnd(Looper)
           \/ FetchFails(Looper) \/ NoFrame(Looper) \/ GetFrame(Looper)
           \/ FinishWork(Looper) \/ MppDecode \/ MppInfoChange \/ ClientReturns
           \/ UNCHANGED vars
  <2>1. UNCHANGED <<mOutBuffers, mGeneration, memory, keptOver, surface>>
    BY <1>4 DEF Begin, EnsureBegin, EnsureEnd, FetchFails, NoFrame, GetFrame, FinishWork,
                MppDecode, MppInfoChange, ClientReturns, Leave, decVars, mppVars, clientVars,
                history, vars
  <2>2. QED
    BY <1>3, <2>1
<1>5. CASE DropFrame(Looper) \/ MppRelease
  <2>1. PICK x \in Buf : PutOne(x)
    BY <1>0, <1>5 DEF DropFrame, MppRelease, HoldInv, TypeInv, HandInv, OtherTypes, MppTypes
  <2>2. \A b \in Buf : memory'[b] # None => memory'[b] = memory[b]
    BY <1>0, <2>1, PutGivesNone DEF NoNewMemory
  <2>3. UNCHANGED <<mOutBuffers, mGeneration, keptOver, surface>>
    BY <1>5 DEF DropFrame, MppRelease, decVars, clientVars, history
  <2>4. QED
    BY <1>0, <2>2, <2>3 DEF AgeInv
<1>6. CASE InfoChangeClear(Looper) \/ FlushClear
  <2>1. /\ UNCHANGED <<keptOver, surface>> /\ mGeneration' \in {0, mGeneration}
        /\ ClearOutBuffers /\ mOutBuffers' = <<>>
    BY <1>6 DEF InfoChangeClear, FlushClear, ClearOutBuffers, history
  <2>2. \A b \in Buf : memory'[b] # None => memory'[b] = memory[b]
    BY <1>0, <2>1, ClearIs
  <2>3. QED
    BY <1>0, <2>1, <2>2, AgeKept
<1>7. CASE InfoChangeReady(Looper) \/ FlushGroup \/ FlushReset
  <2>1. UNCHANGED <<mOutBuffers, mGeneration, keptOver, surface>>
    BY <1>7 DEF InfoChangeReady, FlushGroup, FlushReset, decVars, clientVars, history
  <2>2. \A b \in Buf : memory'[b] # None => memory'[b] = memory[b]
    BY <1>7 DEF InfoChangeReady, FlushGroup, FlushReset, GroupClear
  <2>3. QED
    BY <1>0, <2>1, <2>2 DEF AgeInv
<1>8. CASE TakeBlock(Looper)
  <2>1. UNCHANGED <<mGeneration, memory, keptOver, surface>>
    BY <1>8 DEF TakeBlock, mppVars, clientVars, history
  <2>2. /\ Found(Looper) \in DOMAIN mOutBuffers
        /\ mOutBuffers' = [mOutBuffers EXCEPT ![Found(Looper)].site = "C2"]
    BY <1>0, <1>8, FoundIs DEF TakeBlock, MpiSites
  <2>3. /\ DOMAIN mOutBuffers' = DOMAIN mOutBuffers
        /\ \A i \in DOMAIN mOutBuffers :
              mOutBuffers'[i].generation = mOutBuffers[i].generation
    BY <1>0, <2>2, SiteIs
  <2>4. QED
    BY <1>0, <2>1, <2>3 DEF AgeInv
<1>9. QED
  BY <1>0, <1>1, <1>2, <1>4, <1>5, <1>6, <1>7, <1>8
     DEF Next, ThreadNext, InCall, FlushNext, EnvironmentNext, Fetch

\* So every step keeps what getoutframe() counts on.
LEMMA KnownStep ==
    ASSUME Drainer = {}, kMaxReferenceCount <= kMaxGegerationClearCount + 1,
           SafeInv, SafeInv', KnownInv, [Next]_vars
    PROVE  KnownInv'
<1>0. /\ Thread = {Looper} /\ Looper \in Thread /\ DirtyInv /\ DirtyInv' /\ AgeInv'
      /\ pc \in [Thread -> Place] /\ \A b \in Buf : b # None
  BY SafeTypes, AgeStep DEF SafeInv, TableOK
<1>1. CASE Dirty'
  BY <1>0, <1>1, KnownEmpty DEF DirtyInv
<1>2. CASE InfoChangeReady(Looper) \/ FlushReset
  <2>1. mOutBuffers' = <<>>
    BY <1>0, <1>2 DEF InfoChangeReady, FlushReset, decVars, DirtyInv, Dirty
  <2>2. \A b \in Buf : ~Has(b)'
    BY <1>2, NothingLeft
  <2>3. QED
    BY <1>0, <2>1, <2>2, KnownEmpty
<1>3. ASSUME ~Dirty, ~Dirty' PROVE KnownInv'
  <2>1. CASE \/ Begin(Looper) \/ EnsureBegin(Looper) \/ EnsureEnd(Looper)
             \/ FetchFails(Looper) \/ NoFrame(Looper) \/ FinishWork(Looper)
             \/ ClientReturns \/ NewSurface \/ UNCHANGED vars
    <3>1. UNCHANGED <<mOutBuffers, mGeneration, mGenerationCount, keptOver, group, frame,
                      unused, frames, ref, held>>
      BY <2>1 DEF Begin, EnsureBegin, EnsureEnd, FetchFails, NoFrame, FinishWork,
                  ClientReturns, NewSurface, Leave, decVars, mppVars, history, vars,
                  threadVars
    <3>2. QED
      BY <1>0, <1>3, <3>1, KnownQuiet
  <2>2. CASE Fetch(Looper)
    BY <1>0, <1>3, <2>2, EntriesOfCommit, OldFirstOfFetch DEF KnownInv
  <2>3. CASE GetFrame(Looper) \/ DropFrame(Looper)
    BY <1>0, <1>3, <2>3, KnownOfFrames
  <2>4. CASE TakeBlock(Looper)
    BY <1>0, <1>3, <2>4, KnownOfTake
  <2>5. CASE MppDecode \/ MppRelease \/ MppInfoChange
    BY <1>0, <1>3, <2>5, KnownOfDecode, KnownOfRelease, KnownOfInfo
  <2>6. CASE InfoChangeClear(Looper) \/ FlushClear \/ FlushGroup
    BY <1>0, <1>3, <2>6 DEF InfoChangeClear, FlushClear, FlushGroup, Goto, Dirty
  <2>7. QED
    BY <1>0, <1>2, <2>1, <2>2, <2>3, <2>4, <2>5, <2>6
       DEF Next, ThreadNext, InCall, FlushNext, EnvironmentNext
<1>4. ASSUME Dirty, ~InfoChangeReady(Looper), ~FlushReset PROVE Dirty'
  BY <1>4, DirtyStays
<1>5. QED
  BY <1>1, <1>2, <1>3, <1>4

\* The frame in hand is one of a buffer that is expected: its entry is found.
LEMMA FoundWhenKnown ==
    ASSUME Drainer = {}, SafeInv, KnownInv PROVE FrameFound
<1>0. /\ mOutBuffers \in Seq(OutBuffer) /\ HandInv /\ OtherTypes /\ Thread = {Looper}
  BY SafeTypes
<1>1. SUFFICES ASSUME pc[Looper] = "find", frame[Looper] \notin keptOver,
                      Found(Looper) = 0
               PROVE  FALSE
  BY <1>0 DEF FrameFound
<1>2. PICK b \in Buf : b = frame[Looper]
  BY <1>0, <1>1 DEF HandInv, OtherTypes
<1>3. Expected(b) /\ ~Dirty
  BY <1>0, <1>1, <1>2 DEF Expected, Has, InHand, Dirty
<1>4. PICK i \in MpiSites(mOutBuffers) : mOutBuffers[i].mppBuffer = b
  BY <1>3 DEF KnownInv, KnownEntries
<1> DEFINE places == {j \in DOMAIN mOutBuffers : mOutBuffers[j].mppBuffer = b}
<1>5. places \in SUBSET (Nat \ {0}) /\ i \in places /\ First(places) = 0
  BY <1>0, <1>1, <1>2, <1>4, EntryTypes DEF MpiSites, Found, FindBuffer
<1>6. QED
  BY <1>5, FirstNone

\* While no thread is in stop() or reset() beside the looper, getoutframe() finds
\* the buffer of every frame but those of kept reference pictures: with the
\* code's 16 and 100, as whenever the maximum is at most one above the clear
\* count, commitBufferToMpp() forgets no buffer whose frame is still to come.
THEOREM FrameFoundHolds ==
    ASSUME Drainer = {}, kMaxReferenceCount <= kMaxGegerationClearCount + 1
    PROVE  Spec => []FrameFound
<1>1. (Init => SafeInv) /\ (SafeInv /\ [Next]_vars => SafeInv')
  BY SafeStep
<1>2. Init => KnownInv
  <2>1. SUFFICES ASSUME Init PROVE KnownInv
    OBVIOUS
  <2>2. /\ mOutBuffers = <<>> /\ unused = <<>> /\ frames = <<>> /\ held = {}
        /\ frame = [t \in Thread |-> None] /\ memory = [b \in Buf |-> None]
        /\ mGeneration = 0 /\ surface = 1
    BY <2>1 DEF Init
  <2>3. \A b \in Buf : ~Has(b)
    BY <2>2, BuffersAssumption DEF Has, Elements, InHand
  <2>4. QED
    BY <2>2, <2>3 DEF KnownInv, KnownEntries, OldFirst, AgeInv, Expected, MpiSites
<1>3. SafeInv /\ KnownInv /\ [Next]_vars => KnownInv'
  BY <1>1, KnownStep
<1>4. SafeInv /\ KnownInv => FrameFound
  BY FoundWhenKnown
<1>5. QED
  BY <1>1, <1>2, <1>3, <1>4, PTL DEF Spec
=============================================================================
