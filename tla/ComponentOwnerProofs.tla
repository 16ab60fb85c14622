------------------------ MODULE ComponentOwnerProofs ------------------------
(***************************************************************************)
(* OwnerInv is kept by every step: a work accepted by queue_nb is in one   *)
(* place of the component, once, until it ends.                            *)
(***************************************************************************)
EXTENDS ComponentTypeProofs

\* what the step lemmas of OwnerInv take from the types
LEMMA OwnerTypes ==
    ASSUME TypeInv
    PROVE  /\ mQueue \in Seq(Work \cup {Null}) /\ mPendingWork \subseteq Work
           /\ work \in Work \cup {Null} /\ codec \subseteq Work
           /\ items \in [Client -> Seq(Work)] /\ fate \in [Work -> Fates]
           /\ nextWork \in Nat /\ nextWork <= NumWork + 1
           /\ NumWork \in Nat /\ Work = 1 .. NumWork /\ Null = 0
           /\ Null \notin Work
           /\ \A c \in Client : /\ items[c] \in Seq(Work \cup {Null})
                                /\ Works(items[c]) \subseteq Work
           /\ Works(mQueue) \subseteq Work /\ Null \notin Works(mQueue)
<1>1. /\ mQueue \in Seq(Work \cup {Null}) /\ mPendingWork \subseteq Work
      /\ work \in Work \cup {Null} /\ codec \subseteq Work
      /\ items \in [Client -> Seq(Work)] /\ fate \in [Work -> Fates]
      /\ nextWork \in Nat /\ nextWork <= NumWork + 1
  BY DEF TypeInv, TypeOK, QueueTypeOK, LocalTypeOK, ClientTypeOK, LedgerTypeOK
<1>2. NumWork \in Nat /\ Work = 1 .. NumWork /\ Null = 0 /\ Null \notin Work
  BY ComponentAssumption DEF ComponentAssumption, Work, Null
<1>3. ASSUME NEW c \in Client
      PROVE  items[c] \in Seq(Work \cup {Null}) /\ Works(items[c]) \subseteq Work
  BY <1>1 DEF Works
<1>4. Works(mQueue) \subseteq Work /\ Null \notin Works(mQueue)
  BY <1>1 DEF Works
<1>5. QED BY <1>1, <1>2, <1>3, <1>4

\* what OneOwner says of the works of the component
LEMMA OwnerFacts ==
    ASSUME TypeInv, OwnerInv
    PROVE  /\ Once(mQueue) /\ Works(mQueue) \cap mPendingWork = {}
           /\ work \notin Works(mQueue) \cup mPendingWork
           /\ Held = Works(mQueue) \cup mPendingWork \cup ({work} \ {Null})
           /\ Held \subseteq Work
           /\ \A w \in Held : /\ w < nextWork /\ fate[w] = "none"
                              /\ \A c \in Client : w \notin Works(items[c])
           /\ \A w \in Work : /\ w < nextWork /\ fate[w] = "none"
                              /\ \A c \in Client : w \notin Works(items[c])
                              => w \in Held
           /\ ItemsHeld /\ ItemsOnce /\ ItemsOwn /\ ItemsNew /\ CodecAccepted
           /\ FutureNew
BY OwnerTypes DEF OwnerInv, OneOwner, ItemsOK, Held, Queued

\* the members of an interval
LEMMA Bounds ==
    \A a, b \in Nat : \A w \in a .. (b - 1) : a <= w /\ w < b
OBVIOUS

\* new works are with their client until it pushes them
LEMMA OwnerQueueCall ==
    ASSUME TypeInv, OwnerInv, NEW c \in Client, QueueCall(c)
    PROVE  OwnerInv'
<1>1. PICK n \in 0 .. MaxBatch :
          /\ nextWork + n <= NumWork + 1
          /\ IfRunning(c, "queue", "push")
          /\ items' = [items EXCEPT ![c] = IF execState = "RUNNING"
                          THEN [i \in 1 .. n |-> nextWork + i - 1] ELSE <<>>]
          /\ nextWork' = IF execState = "RUNNING" THEN nextWork + n ELSE nextWork
  BY DEF QueueCall
<1>2. UNCHANGED <<mQueue, mPendingWork, work, fate, codec>> /\ n \in Nat
      /\ pc[c] = "idle"
      /\ pc' = [pc EXCEPT ![c] = IF execState = "RUNNING" THEN "push" ELSE "idle"]
  BY <1>1, ComponentAssumption DEF ComponentAssumption, IfRunning, Call, Goto,
     queueVars, localVars, ledgerVars
<1>3. DEFINE new == nextWork .. (nextWork' - 1)
<1>4. Once(items'[c]) /\ Works(items'[c]) = new /\ new \subseteq Work
      /\ nextWork' \in Nat /\ nextWork <= nextWork'
  <2>1. CASE execState = "RUNNING"
    <3>1. items'[c] = [i \in 1 .. n |-> nextWork + i - 1] /\ nextWork' = nextWork + n
      BY <1>1, <2>1, OwnerTypes
    <3>2. Once(items'[c])
      BY <3>1, <1>2, OwnerTypes DEF Once
    <3>3. Works(items'[c]) \subseteq new
      BY <3>1, <1>2, OwnerTypes DEF Works
    <3>4. ASSUME NEW w \in new PROVE w \in Works(items'[c])
      <4>1. w - nextWork + 1 \in 1 .. n /\ items'[c][w - nextWork + 1] = w
            /\ w # Null /\ DOMAIN items'[c] = 1 .. n
        BY <3>1, <1>2, OwnerTypes, TypeInv DEF TypeInv, TypeOK, ClientTypeOK
      <4>2. QED BY <4>1 DEF Works
    <3>5. new \subseteq Work /\ nextWork' \in Nat /\ nextWork <= nextWork'
      BY <3>1, <1>1, <1>2, OwnerTypes DEF TypeInv, TypeOK, ClientTypeOK
    <3>6. QED BY <3>2, <3>3, <3>4, <3>5
  <2>2. CASE execState # "RUNNING"
    <3>1. items'[c] = <<>> /\ nextWork' = nextWork
      BY <1>1, <2>2, OwnerTypes
    <3>2. new = {} /\ Once(<<>>)
      BY <3>1, OwnerTypes DEF Once
    <3>3. Works(items'[c]) = new /\ new \subseteq Work
      BY <3>1, <3>2, WorksEmpty
    <3>4. QED BY <3>1, <3>2, <3>3, OwnerTypes
  <2>3. QED BY <2>1, <2>2
<1>5. \A d \in Client : d # c => items'[d] = items[d] /\ pc'[d] = pc[d]
  BY <1>1, <1>2
<1> HIDE DEF new
<1>6. \A w \in new : nextWork <= w /\ w < nextWork' /\ w \notin Held
        /\ fate[w] = "none" /\ w \notin codec
        /\ \A d \in Client : w \notin Works(items[d])
  <2>1. \A w \in new : nextWork <= w /\ w < nextWork' /\ w \in Work
    <3>1. nextWork \in Nat /\ nextWork' \in Nat
      BY <1>4, OwnerTypes
    <3>2. ASSUME NEW w \in new PROVE nextWork <= w /\ w < nextWork'
      <4>1. w \in nextWork .. (nextWork' - 1)
        BY DEF new
      <4>2. QED BY <3>1, <4>1, Bounds
    <3>3. QED BY <1>4, <3>2
  <2>2. QED BY <2>1, OwnerFacts, OwnerTypes DEF ItemsNew, CodecAccepted, FutureNew
<1>7. items[c] = <<>> /\ Works(items[c]) = {}
  BY <1>2, OwnerFacts, WorksEmpty DEF ItemsHeld
<1>8. Held' = Held
  BY <1>2 DEF Held, Queued
<1>9. \A w \in Work : (w \in new) <=> (nextWork <= w /\ w < nextWork')
  BY <1>4, OwnerTypes DEF new
<1>10. OneOwner'
  <2>1. ASSUME NEW w \in Work
        PROVE  w \in Held' <=> /\ w < nextWork' /\ fate'[w] = "none"
                               /\ \A d \in Client : w \notin Works(items'[d])
    <3>1. CASE w \in new
      BY <3>1, <1>4, <1>6, <1>8
    <3>2. CASE w \notin new
      <4>1. w < nextWork' <=> w < nextWork
        BY <3>2, <1>9, <1>4, OwnerTypes
      <4>2. (\A d \in Client : w \notin Works(items'[d]))
             <=> (\A d \in Client : w \notin Works(items[d]))
        BY <3>2, <1>4, <1>5, <1>7
      <4>3. QED BY <4>1, <4>2, <1>2, <1>8, OwnerFacts
    <3>3. QED BY <3>1, <3>2
  <2>2. QED BY <2>1, <1>2, OwnerFacts DEF OneOwner, Queued
<1>11. ItemsHeld' /\ ItemsOnce'
  <2>1. pc'[c] # "push" => items'[c] = <<>>
    BY <1>1, <1>2, OwnerTypes, TypeInv DEF TypeInv, TypeOK, ThreadTypeOK, Thread
  <2>2. QED BY <1>4, <1>5, <2>1, OwnerFacts DEF ItemsHeld, ItemsOnce
<1>12. ItemsOwn'
  BY <1>4, <1>5, <1>6, OwnerFacts DEF ItemsOwn
<1>13. ItemsNew'
  <2>1. ASSUME NEW d \in Client, NEW w \in Works(items'[d])
        PROVE  w < nextWork' /\ fate'[w] = "none"
    <3>1. CASE d = c
      BY <3>1, <1>2, <1>4, <1>6
    <3>2. CASE d # c
      <4>1. w \in Works(items[d]) /\ w \in Nat
        BY <3>2, <1>5, OwnerTypes
      <4>2. QED BY <4>1, <1>2, <1>4, OwnerFacts, OwnerTypes DEF ItemsNew
    <3>3. QED BY <3>1, <3>2
  <2>2. QED BY <2>1 DEF ItemsNew
<1>14. CodecAccepted'
  <2>1. ASSUME NEW w \in codec
        PROVE  w < nextWork' /\ \A d \in Client : w \notin Works(items'[d])
    <3>1. w < nextWork' /\ w \notin new
      BY <1>4, <1>6, OwnerFacts, OwnerTypes DEF CodecAccepted
    <3>2. QED BY <3>1, <1>4, <1>5, OwnerFacts DEF CodecAccepted
  <2>2. QED BY <2>1, <1>2 DEF CodecAccepted
<1>15. FutureNew'
  BY <1>2, <1>4, OwnerFacts, OwnerTypes DEF FutureNew
<1>16. QED
  BY <1>10, <1>11, <1>12, <1>13, <1>14, <1>15 DEF OwnerInv, ItemsOK

\* the client's works go to the queue
LEMMA OwnerPush ==
    ASSUME TypeInv, OwnerInv, NEW c \in Client, Push(c)
    PROVE  OwnerInv'
<1>1. /\ mQueue' = mQueue \o items[c]
      /\ items' = [items EXCEPT ![c] = <<>>]
      /\ UNCHANGED <<mPendingWork, work, fate, codec, nextWork>>
      /\ \E p \in ClientPC : pc' = [pc EXCEPT ![c] = p]
  BY DEF Push, Enqueue, Goto, localVars, ClientPC
<1>2. Once(items[c])
  BY OwnerFacts DEF ItemsOnce
<1>3. \A w \in Works(items[c]) :
         /\ w \in Work /\ w \notin Held /\ w < nextWork /\ fate[w] = "none"
         /\ \A d \in Client : d # c => w \notin Works(items[d])
  BY OwnerFacts, OwnerTypes DEF ItemsNew, ItemsOwn
<1>4. Works(mQueue) \cap Works(items[c]) = {}
  BY <1>3, OwnerFacts
<1>5. Works(mQueue') = Works(mQueue) \cup Works(items[c]) /\ Once(mQueue')
  <2>1. mQueue \in Seq(Work \cup {Null}) /\ items[c] \in Seq(Work \cup {Null})
        /\ Once(mQueue)
    BY OwnerFacts, OwnerTypes
  <2>2. Works(mQueue') = Works(mQueue) \cup Works(items[c])
    BY <1>1, <2>1, WorksConcat
  <2>3. QED BY <1>1, <1>2, <1>4, <2>1, <2>2, OnceConcat
<1>6. /\ items'[c] = <<>> /\ Works(items'[c]) = {}
      /\ \A d \in Client : d # c => items'[d] = items[d]
  BY <1>1, OwnerTypes, WorksEmpty
<1>7. Held' = Held \cup Works(items[c])
  BY <1>1, <1>5 DEF Held, Queued
<1>8. OneOwner'
  <2>1. Works(mQueue') \cap mPendingWork' = {}
        /\ work' \notin Works(mQueue') \cup mPendingWork'
    BY <1>1, <1>3, <1>5, OwnerFacts, OwnerTypes
  <2>2. ASSUME NEW w \in Work
        PROVE  w \in Held' <=> /\ w < nextWork' /\ fate'[w] = "none"
                               /\ \A d \in Client : w \notin Works(items'[d])
    <3>1. CASE w \in Works(items[c])
      BY <3>1, <1>1, <1>3, <1>6, <1>7
    <3>2. CASE w \notin Works(items[c])
      <4>1. (\A d \in Client : w \notin Works(items'[d]))
             <=> (\A d \in Client : w \notin Works(items[d]))
        BY <3>2, <1>6
      <4>2. QED BY <3>2, <4>1, <1>1, <1>7, OwnerFacts
    <3>3. QED BY <3>1, <3>2
  <2>3. QED BY <1>5, <2>1, <2>2 DEF OneOwner, Queued
<1>9. ItemsHeld' /\ ItemsOnce'
  <2>1. \A d \in Client : d # c => pc'[d] = pc[d]
    BY <1>1
  <2>2. Once(<<>>)
    BY DEF Once
  <2>3. QED BY <1>6, <2>1, <2>2, OwnerFacts DEF ItemsHeld, ItemsOnce
<1>10. ItemsOwn' /\ ItemsNew' /\ CodecAccepted' /\ FutureNew'
  BY <1>1, <1>6, OwnerFacts DEF ItemsOwn, ItemsNew, CodecAccepted, FutureNew
<1>11. QED
  BY <1>8, <1>9, <1>10 DEF OwnerInv, ItemsOK

\* a drain entry is no work
LEMMA OwnerMarkDrain ==
    ASSUME TypeInv, OwnerInv, NEW c \in Client, MarkDrain(c)
    PROVE  OwnerInv'
<1> DEFINE entry == <<Null>>
<1>1. /\ mQueue' = mQueue \o entry
      /\ UNCHANGED <<mPendingWork, work, fate, codec, nextWork, items>>
      /\ \E p \in ClientPC : pc' = [pc EXCEPT ![c] = p]
      /\ pc[c] # "push"
  BY DEF MarkDrain, Enqueue, Goto, localVars, ClientPC
<1>2. Works(entry) = {} /\ Once(entry) /\ entry \in Seq(Work \cup {Null})
  BY DEF Works, Once
<1> HIDE DEF entry
<1>3. Works(mQueue') = Works(mQueue) /\ Once(mQueue')
  <2>1. mQueue \in Seq(Work \cup {Null}) /\ Once(mQueue)
    BY OwnerFacts, OwnerTypes
  <2>2. Works(mQueue') = Works(mQueue) \cup Works(entry)
    <3>1. mQueue \in Seq(Work \cup {Null}) /\ entry \in Seq(Work \cup {Null})
      BY <1>2, <2>1
    <3>2. Works(mQueue \o entry) = Works(mQueue) \cup Works(entry)
      BY ONLY <3>1, WorksConcat
    <3>3. QED BY <1>1, <3>2
  <2>3. Works(mQueue) \cap Works(entry) = {}
    BY <1>2
  <2>4. QED BY <1>1, <1>2, <2>1, <2>2, <2>3, OnceConcat
<1>4. Held' = Held
  BY <1>1, <1>3 DEF Held, Queued
<1>5. OneOwner'
  BY <1>1, <1>3, <1>4, OwnerFacts DEF OneOwner, Queued
<1>6. ItemsHeld'
  BY <1>1, OwnerFacts DEF ItemsHeld
<1>7. ItemsOnce' /\ ItemsOwn' /\ ItemsNew' /\ CodecAccepted' /\ FutureNew'
  BY <1>1, OwnerFacts
     DEF ItemsOnce, ItemsOwn, ItemsNew, CodecAccepted, FutureNew
<1>8. QED
  BY <1>5, <1>6, <1>7 DEF OwnerInv, ItemsOK

\* flush_sm, stop and reset: the works of queue and pending map end
LEMMA OwnerTakeAll ==
    ASSUME TypeInv, OwnerInv, NEW c \in Client, NEW f \in Fates \ {"none"},
           TakeAll(f), UNCHANGED <<work, codec, nextWork, items>>,
           NEW p \in ClientPC \ {"push"}, pc[c] # "push",
           pc' = [pc EXCEPT ![c] = p]
    PROVE  OwnerInv'
<1>1. /\ mQueue' = <<>> /\ mPendingWork' = {}
      /\ \A w \in Work : fate'[w] = IF w \in Works(mQueue) \cup mPendingWork
                                    THEN f ELSE fate[w]
  BY DEF TakeAll, Queued
<1>2. Works(mQueue') = {} /\ Once(mQueue')
  BY <1>1, WorksEmpty DEF Once
<1>3. Held' = {work} \ {Null} /\ Held' \subseteq Held
  BY <1>1, <1>2, OwnerFacts DEF Held, Queued
<1>4. \A w \in Work : w \in Works(mQueue) \cup mPendingWork <=> w \in Held \ Held'
  BY <1>3, OwnerFacts, OwnerTypes
<1>5. OneOwner'
  <2>1. \A w \in Work :
           w \in Held' <=> /\ w < nextWork' /\ fate'[w] = "none"
                           /\ \A d \in Client : w \notin Works(items'[d])
    BY <1>1, <1>3, <1>4, OwnerFacts
  <2>2. QED BY <1>1, <1>2, <2>1 DEF OneOwner, Queued
<1>6. ItemsHeld'
  BY OwnerFacts DEF ItemsHeld
<1>7. \A w \in Works(mQueue) \cup mPendingWork :
         w < nextWork /\ \A d \in Client : w \notin Works(items[d])
  BY <1>4, OwnerFacts
<1>8. ItemsOnce' /\ ItemsOwn' /\ CodecAccepted'
  BY OwnerFacts DEF ItemsOnce, ItemsOwn, CodecAccepted
<1>9. ItemsNew' /\ FutureNew'
  <2>1. ASSUME NEW d \in Client, NEW w \in Works(items[d])
        PROVE  w < nextWork /\ fate'[w] = "none"
    <3>1. w \in Work /\ w < nextWork /\ fate[w] = "none"
      BY OwnerFacts, OwnerTypes DEF ItemsNew
    <3>2. w \notin Works(mQueue) \cup mPendingWork
      BY <1>7
    <3>3. QED BY <1>1, <3>1, <3>2
  <2>2. ASSUME NEW w \in Work, w >= nextWork PROVE fate'[w] = "none"
    <3>1. w \notin Works(mQueue) \cup mPendingWork
      BY <1>7, <2>2, OwnerTypes
    <3>2. QED BY <1>1, <2>2, <3>1, OwnerFacts DEF FutureNew
  <2>3. QED BY <2>1, <2>2 DEF ItemsNew, FutureNew
<1>10. QED
  BY <1>5, <1>6, <1>8, <1>9 DEF OwnerInv, ItemsOK

\* the works of S, all held, end and nothing else changes hands
LEMMA OwnerEnd ==
    ASSUME TypeInv, OwnerInv, NEW S \in SUBSET Held, UNCHANGED <<mQueue, nextWork, items>>,
           \A w \in S : fate'[w] # "none",
           \A w \in Work \ S : fate'[w] = fate[w],
           Held' = Held \ S, codec' \subseteq codec,
           Works(mQueue) \cap mPendingWork' = {},
           work' \notin Works(mQueue) \cup mPendingWork',
           \A c \in Client : pc'[c] = pc[c]
    PROVE  OwnerInv'
<1>1. OneOwner'
  BY OwnerFacts DEF OneOwner, Queued
<1>2. \A w \in S : w \in Work /\ w < nextWork /\ \A c \in Client : w \notin Works(items[c])
  BY OwnerFacts
<1>3. ItemsHeld' /\ ItemsOnce' /\ ItemsOwn' /\ CodecAccepted'
  BY OwnerFacts DEF ItemsHeld, ItemsOnce, ItemsOwn, CodecAccepted
<1>4. ItemsNew' /\ FutureNew'
  BY <1>2, OwnerFacts, OwnerTypes DEF ItemsNew, FutureNew
<1>5. QED
  BY <1>1, <1>3, <1>4 DEF OwnerInv, ItemsOK

\* finish() takes a work out of the pending map
LEMMA OwnerFinishPending ==
    ASSUME TypeInv, OwnerInv, NEW t \in Thread, FinishPending(t)
    PROVE  OwnerInv'
<1>1. PICK h \in codec, w \in mPendingWork :
          /\ codec' = codec \ {h}
          /\ mPendingWork' = mPendingWork \ {w}
          /\ fate' = [fate EXCEPT ![w] = "done"]
  BY DEF FinishPending, ErasePending
<1>2. UNCHANGED <<mQueue, work, items, nextWork, pc>>
  BY DEF FinishPending, notCodecVars, localVars, clientVars
<1>3. w \in Work /\ w \in Held /\ w \notin Works(mQueue) /\ w # work
  BY <1>1, OwnerFacts
<1>4. Held' = Held \ {w}
  BY <1>1, <1>2, <1>3, OwnerFacts DEF Held, Queued
<1>5. /\ \A v \in {w} : fate'[v] # "none"
      /\ \A v \in Work \ {w} : fate'[v] = fate[v]
  BY <1>1, <1>3, OwnerTypes
<1>6. /\ {w} \in SUBSET Held /\ codec' \subseteq codec
      /\ Works(mQueue) \cap mPendingWork' = {}
      /\ work' \notin Works(mQueue) \cup mPendingWork'
  BY <1>1, <1>2, <1>3, OwnerFacts
<1>7. QED
  BY <1>2, <1>4, <1>5, <1>6, OwnerEnd

\* a work goes from the queue into processQueue's hands
LEMMA OwnerPopFront ==
    ASSUME TypeInv, OwnerInv, PopFront
    PROVE  OwnerInv'
<1>1. mQueue # <<>> /\ mQueue' = Tail(mQueue) /\ work' = Head(mQueue)
      /\ work = Null /\ UNCHANGED <<mPendingWork, fate, items, nextWork, codec>>
      /\ pc' = [pc EXCEPT ![Looper] = "flush"]
  BY DEF PopFront, Receive, Goto, TypeInv, PhaseOK, clientVars, ledgerVars
<1>2. Once(mQueue') /\ Works(mQueue') = Works(mQueue) \ {Head(mQueue)}
  BY <1>1, OwnerFacts, OwnerTypes, OnceTail
<1>3. Head(mQueue) \in Works(mQueue) \cup {Null}
  BY <1>1, OwnerTypes, TailEntries DEF Works
<1>4. Held' = Held
  BY <1>1, <1>2, <1>3, OwnerFacts, OwnerTypes DEF Held, Queued
<1>5. work' \notin Works(mQueue') \cup mPendingWork'
  BY <1>1, <1>2, <1>3, OwnerFacts, OwnerTypes
<1>6. OneOwner'
  BY <1>1, <1>2, <1>4, <1>5, OwnerFacts DEF OneOwner, Queued
<1>7. \A c \in Client : pc'[c] = pc[c]
  BY <1>1, ComponentAssumption DEF ComponentAssumption
<1>8. ItemsOK'
  BY <1>1, <1>7, OwnerFacts
     DEF ItemsOK, ItemsHeld, ItemsOnce, ItemsOwn, ItemsNew, CodecAccepted, FutureNew
<1>9. QED
  BY <1>6, <1>8 DEF OwnerInv

\* the looper's steps leave the clients where they are
LEMMA LooperGoto ==
    ASSUME NEW p, Goto(Looper, p)
    PROVE  \A c \in Client : pc'[c] = pc[c]
BY ComponentAssumption DEF ComponentAssumption, Goto

\* without a pool the work in hand ends
LEMMA OwnerFetchPool ==
    ASSUME TypeInv, OwnerInv, FetchPool
    PROVE  OwnerInv'
<1>1. UNCHANGED <<mQueue, mPendingWork, items, nextWork, codec>>
  BY DEF FetchPool, queueVars, clientVars
<1>2. \A c \in Client : pc'[c] = pc[c]
  BY LooperGoto DEF FetchPool
<1>3. CASE UNCHANGED <<work, fate>>
  <2>1. Held' = Held
    BY <1>1, <1>3 DEF Held, Queued
  <2>2. QED BY <1>1, <1>2, <1>3, <2>1, OwnerFacts, OwnerEnd
<1>4. CASE /\ fate' = [w \in Work |-> IF w = work THEN "lost" ELSE fate[w]]
           /\ work' = Null
  <2>1. Held' = Held \ ({work} \ {Null})
    BY <1>1, <1>4, OwnerFacts, OwnerTypes DEF Held, Queued
  <2>2. /\ \A w \in {work} \ {Null} : fate'[w] # "none"
        /\ \A w \in Work \ ({work} \ {Null}) : fate'[w] = fate[w]
        /\ ({work} \ {Null}) \in SUBSET Held
        /\ Works(mQueue) \cap mPendingWork' = {}
        /\ work' \notin Works(mQueue) \cup mPendingWork'
    BY <1>1, <1>4, OwnerFacts, OwnerTypes
  <2>3. QED BY <1>1, <1>2, <2>1, <2>2, OwnerEnd
<1>5. QED BY <1>3, <1>4 DEF FetchPool

\* the work in hand ends
LEMMA OwnerReturnWork ==
    ASSUME TypeInv, OwnerInv, ReturnWork
    PROVE  OwnerInv'
<1>1. UNCHANGED <<mQueue, mPendingWork, items, nextWork, codec>> /\ work' = Null
      /\ work # Null
  BY DEF ReturnWork, LastSection, At, clientVars, TypeInv, PhaseOK
<1>2. \A c \in Client : pc'[c] = pc[c]
  BY LooperGoto DEF ReturnWork, LastSection
<1>3. /\ \A w \in {work} : fate'[w] # "none"
      /\ \A w \in Work \ {work} : fate'[w] = fate[w]
  BY <1>1, OwnerTypes DEF ReturnWork
<1>4. Held' = Held \ {work} /\ work \in Held
  BY <1>1, OwnerFacts, OwnerTypes DEF Held, Queued
<1>5. /\ {work} \in SUBSET Held /\ codec' \subseteq codec
      /\ Works(mQueue) \cap mPendingWork' = {}
      /\ work' \notin Works(mQueue) \cup mPendingWork'
  BY <1>1, <1>4, OwnerFacts, OwnerTypes
<1>6. QED
  BY <1>1, <1>2, <1>3, <1>4, <1>5, OwnerEnd

\* the work in hand takes its place in the pending map
LEMMA OwnerKeepPending ==
    ASSUME TypeInv, OwnerInv, KeepPending
    PROVE  OwnerInv'
<1> DEFINE unexpected == {w \in mPendingWork : FrameIndex[w] = FrameIndex[work]}
<1>1. UNCHANGED <<mQueue, items, nextWork, codec>> /\ work' = Null
      /\ work # Null
  BY DEF KeepPending, LastSection, At, clientVars, TypeInv, PhaseOK
<1>2. /\ mPendingWork' = (mPendingWork \ unexpected) \cup {work}
      /\ fate' = [w \in Work |-> IF w \in unexpected THEN "corrupted" ELSE fate[w]]
      /\ unexpected \subseteq mPendingWork
  BY DEF KeepPending
<1>3. \A c \in Client : pc'[c] = pc[c]
  BY LooperGoto DEF KeepPending, LastSection
<1> HIDE DEF unexpected
<1>4. Held' = Held \ unexpected /\ unexpected \subseteq Held
  BY <1>1, <1>2, OwnerFacts, OwnerTypes DEF Held, Queued
<1>5. Works(mQueue) \cap mPendingWork' = {}
      /\ work' \notin Works(mQueue) \cup mPendingWork'
  BY <1>1, <1>2, OwnerFacts, OwnerTypes
<1>6. (\A w \in unexpected : fate'[w] # "none")
      /\ \A w \in Work \ unexpected : fate'[w] = fate[w]
  BY <1>2, OwnerTypes
<1>7. QED
  BY <1>1, <1>3, <1>4, <1>5, <1>6, OwnerEnd

\* every step keeps OwnerInv
LEMMA OwnerInvStep ==
    ASSUME TypeInv, TypeInv', OwnerInv, [Next]_vars
    PROVE  OwnerInv'
<1>1. ASSUME NEW c \in Client, QueueCall(c) PROVE OwnerInv'
  BY <1>1, OwnerQueueCall
<1>2. ASSUME NEW c \in Client, Push(c) PROVE OwnerInv'
  BY <1>2, OwnerPush
<1>3. ASSUME NEW c \in Client, MarkDrain(c) PROVE OwnerInv'
  BY <1>3, OwnerMarkDrain
<1>4. ASSUME NEW c \in Client, FlushQueue(c) PROVE OwnerInv'
  <2>1. /\ TakeAll("flushed") /\ UNCHANGED <<work, codec, nextWork, items>>
        /\ pc[c] # "push"
    BY <1>4 DEF FlushQueue, localVars, clientVars
  <2>2. "flushed" \in Fates \ {"none"}
    BY DEF Fates
  <2>3. PICK p \in ClientPC \ {"push"} : pc' = [pc EXCEPT ![c] = p]
    BY <1>4 DEF FlushQueue, Goto, ClientPC
  <2>4. QED BY <2>1, <2>2, <2>3, OwnerTakeAll
<1>5. ASSUME NEW c \in Client, StopClear(c) PROVE OwnerInv'
  <2>1. /\ TakeAll("dropped") /\ UNCHANGED <<work, codec, nextWork, items>>
        /\ pc[c] # "push"
    BY <1>5 DEF StopClear, localVars, clientVars
  <2>2. "dropped" \in Fates \ {"none"}
    BY DEF Fates
  <2>3. PICK p \in ClientPC \ {"push"} : pc' = [pc EXCEPT ![c] = p]
    BY <1>5 DEF StopClear, Goto, ClientPC
  <2>4. QED BY <2>1, <2>2, <2>3, OwnerTakeAll
<1>6. ASSUME NEW t \in Thread, FinishPending(t) PROVE OwnerInv'
  BY <1>6, OwnerFinishPending
<1>7. CASE PopFront
  BY <1>7, OwnerPopFront
<1>8. CASE FetchPool
  BY <1>8, OwnerFetchPool
<1>9. CASE ReturnWork
  BY <1>9, OwnerReturnWork
<1>10. CASE KeepPending
  BY <1>10, OwnerKeepPending
<1> USE ComponentAssumption
        DEF ComponentAssumption, Thread, Null, Fresh, TypeInv, PhaseOK,
            TypeOK, ExecTypeOK, QueueTypeOK, HandlerTypeOK, ThreadTypeOK,
            LocalTypeOK, ClientTypeOK, LedgerTypeOK, execVars, queueVars,
            handlerVars, localVars, clientVars, ledgerVars, notCodecVars
<1>11. ASSUME NEW c \in Client, SetListener(c) PROVE OwnerInv'
  BY <1>11 DEF SetListener, Call, Goto, OwnerInv, OneOwner, ItemsOK,
     ItemsHeld, ItemsOnce, ItemsOwn, ItemsNew, CodecAccepted, FutureNew, Held,
     Queued
<1>12. ASSUME NEW c \in Client, ClearListener(c) PROVE OwnerInv'
  BY <1>12 DEF ClearListener, MayClear, Call, Goto, OwnerInv, OneOwner,
     ItemsOK, ItemsHeld, ItemsOnce, ItemsOwn, ItemsNew, CodecAccepted,
     FutureNew, Held, Queued
<1>13. ASSUME NEW c \in Client, FlushCall(c) PROVE OwnerInv'
  BY <1>13 DEF FlushCall, IfRunning, Call, Goto, OwnerInv, OneOwner, ItemsOK,
     ItemsHeld, ItemsOnce, ItemsOwn, ItemsNew, CodecAccepted, FutureNew, Held,
     Queued
<1>14. ASSUME NEW c \in Client, DrainCall(c) PROVE OwnerInv'
  BY <1>14 DEF DrainCall, IfRunning, Call, Goto, OwnerInv, OneOwner, ItemsOK,
     ItemsHeld, ItemsOnce, ItemsOwn, ItemsNew, CodecAccepted, FutureNew, Held,
     Queued
<1>15. ASSUME NEW c \in Client, StartCall(c) PROVE OwnerInv'
  BY <1>15 DEF StartCall, NeedsInit, Call, Goto, OwnerInv, OneOwner, ItemsOK,
     ItemsHeld, ItemsOnce, ItemsOwn, ItemsNew, CodecAccepted, FutureNew, Held,
     Queued
<1>16. ASSUME NEW c \in Client, StopCall(c) PROVE OwnerInv'
  BY <1>16 DEF StopCall, Call, Goto, OwnerInv, OneOwner, ItemsOK, ItemsHeld,
     ItemsOnce, ItemsOwn, ItemsNew, CodecAccepted, FutureNew, Held, Queued
<1>17. ASSUME NEW c \in Client, ResetCall(c) PROVE OwnerInv'
  BY <1>17 DEF ResetCall, Call, Goto, OwnerInv, OneOwner, ItemsOK, ItemsHeld,
     ItemsOnce, ItemsOwn, ItemsNew, CodecAccepted, FutureNew, Held, Queued
<1>18. ASSUME NEW c \in Client, ReleaseCall(c) PROVE OwnerInv'
  BY <1>18 DEF ReleaseCall, Call, Goto, OwnerInv, OneOwner, ItemsOK,
     ItemsHeld, ItemsOnce, ItemsOwn, ItemsNew, CodecAccepted, FutureNew, Held,
     Queued
<1>19. ASSUME NEW c \in Client, Send(c) PROVE OwnerInv'
  BY <1>19 DEF Send, Message, Goto, OwnerInv, OneOwner, ItemsOK, ItemsHeld,
     ItemsOnce, ItemsOwn, ItemsNew, CodecAccepted, FutureNew, Held, Queued
<1>20. ASSUME NEW c \in Client, Answered(c) PROVE OwnerInv'
  BY <1>20 DEF Answered, Goto, OwnerInv, OneOwner, ItemsOK, ItemsHeld,
     ItemsOnce, ItemsOwn, ItemsNew, CodecAccepted, FutureNew, Held, Queued
<1>21. ASSUME NEW c \in Client, StartCommit(c) PROVE OwnerInv'
  BY <1>21 DEF StartCommit, Goto, OwnerInv, OneOwner, ItemsOK, ItemsHeld,
     ItemsOnce, ItemsOwn, ItemsNew, CodecAccepted, FutureNew, Held, Queued
<1>22. ASSUME NEW c \in Client, StopPool(c) PROVE OwnerInv'
  BY <1>22 DEF StopPool, Goto, OwnerInv, OneOwner, ItemsOK, ItemsHeld,
     ItemsOnce, ItemsOwn, ItemsNew, CodecAccepted, FutureNew, Held, Queued
<1>23. ASSUME NEW c \in Client, StopDrained(c) PROVE OwnerInv'
  BY <1>23 DEF StopDrained, Goto, OwnerInv, OneOwner, ItemsOK, ItemsHeld,
     ItemsOnce, ItemsOwn, ItemsNew, CodecAccepted, FutureNew, Held, Queued
<1>24. ASSUME NEW t \in Thread, FinishOther(t) PROVE OwnerInv'
  BY <1>24 DEF FinishOther, OwnerInv, OneOwner, ItemsOK, ItemsHeld, ItemsOnce,
     ItemsOwn, ItemsNew, CodecAccepted, FutureNew, Held, Queued
<1>25. ASSUME NEW t \in Thread, Deliver(t) PROVE OwnerInv'
  BY <1>25 DEF Deliver, OwnerInv, OneOwner, ItemsOK, ItemsHeld, ItemsOnce,
     ItemsOwn, ItemsNew, CodecAccepted, FutureNew, Held, Queued
<1>26. CASE HandleUnset
  BY <1>26 DEF HandleUnset, Receive, Reply, OwnerInv, OneOwner, ItemsOK,
     ItemsHeld, ItemsOnce, ItemsOwn, ItemsNew, CodecAccepted, FutureNew, Held,
     Queued
<1>27. CASE HandleInit
  BY <1>27 DEF HandleInit, Receive, Reply, OwnerInv, OneOwner, ItemsOK,
     ItemsHeld, ItemsOnce, ItemsOwn, ItemsNew, CodecAccepted, FutureNew, Held,
     Queued
<1>28. CASE HandleStart
  BY <1>28 DEF HandleStart, Receive, OwnerInv, OneOwner, ItemsOK, ItemsHeld,
     ItemsOnce, ItemsOwn, ItemsNew, CodecAccepted, FutureNew, Held, Queued
<1>29. CASE HandleStop
  BY <1>29 DEF HandleStop, Receive, Reply, StopCodec, OwnerInv, OneOwner,
     ItemsOK, ItemsHeld, ItemsOnce, ItemsOwn, ItemsNew, CodecAccepted,
     FutureNew, Held, Queued
<1>30. CASE ProcessIgnored
  BY <1>30 DEF ProcessIgnored, Receive, OwnerInv, OneOwner, ItemsOK,
     ItemsHeld, ItemsOnce, ItemsOwn, ItemsNew, CodecAccepted, FutureNew, Held,
     Queued
<1>31. CASE OnFlush
  BY <1>31 DEF OnFlush, At, FlushPopped, Goto, OwnerInv, OneOwner, ItemsOK,
     ItemsHeld, ItemsOnce, ItemsOwn, ItemsNew, CodecAccepted, FutureNew, Held,
     Queued
<1>32. CASE Feed
  BY <1>32 DEF Feed, At, Goto, OwnerInv, OneOwner, ItemsOK, ItemsHeld,
     ItemsOnce, ItemsOwn, ItemsNew, CodecAccepted, FutureNew, Held, Queued
<1>33. CASE CodecReturns
  BY <1>33 DEF CodecReturns, At, Goto, OwnerInv, OneOwner, ItemsOK, ItemsHeld,
     ItemsOnce, ItemsOwn, ItemsNew, CodecAccepted, FutureNew, Held, Queued
<1>34. CASE EndProcess
  BY <1>34 DEF EndProcess, At, Message, Goto, OwnerInv, OneOwner, ItemsOK,
     ItemsHeld, ItemsOnce, ItemsOwn, ItemsNew, CodecAccepted, FutureNew, Held,
     Queued
<1>35. CASE UNCHANGED vars
  BY <1>35 DEF vars, OwnerInv, OneOwner, ItemsOK, ItemsHeld, ItemsOnce,
     ItemsOwn, ItemsNew, CodecAccepted, FutureNew, Held, Queued
<1>36. QED
  BY <1>1, <1>2, <1>3, <1>4, <1>5, <1>6, <1>7, <1>8, <1>9, <1>10, <1>11,
     <1>12, <1>13, <1>14, <1>15, <1>16, <1>17, <1>18, <1>19, <1>20, <1>21,
     <1>22, <1>23, <1>24, <1>25, <1>26, <1>27, <1>28, <1>29, <1>30, <1>31,
     <1>32, <1>33, <1>34, <1>35 DEF Next, LooperStep, ThreadStep, ClientCall,
     ClientStep, Done, vars

=============================================================================
