----------------------- MODULE C2RKComponentStoreProofs -----------------------
(* That the component store keeps its types, that the allocator store and the  *)
(* linear allocator ask the preferred store, that pools are found under their  *)
(* ids, that a component's module outlives it and that the list is complete,   *)
(* for any number of threads, names, stores and calls. Each part of StoreInv   *)
(* rests on the ones before it and is shown to be kept by every action.        *)
EXTENDS C2RKComponentStore, TLAPS, FiniteSetTheorems

--------------------------------------------------------------------------------
(* Places *)

SetPlaces == {"SetStore", "FindLinear", "UseStore"}
FetchPlaces == {"Fetch", "NewLinear"}
LoadPlaces == {"LoadModule", "InitModule", "Loaded"}
PoolCalls == {"get", "create"}
ListCalls == {"list", "component"}

\* Where a call of each kind can be.
PreferPlaces == {"SetPreferred", "FindStore"} \cup SetPlaces
StorePlaces == {"AllocatorStore", "NewStore", "KeepStore"} \cup SetPlaces
KeepPlaces == {"AllocatorStore", "NewStore", "KeepAllocator"} \cup SetPlaces \cup FetchPlaces
PoolPlaces ==
  {"BlockPool", "AllocatorStore", "NewStore", "MakePool"} \cup SetPlaces \cup FetchPlaces
ListPlaces == {"Visit", "Visited"} \cup LoadPlaces

\* A thread's request is whole, and the place is one its call reaches.
Request(t) ==
  /\ arg[t].call \in {"none", "prefer", "store", "fetch"} \cup PoolCalls \cup ListCalls
  /\ arg[t].call = "none" => arg[t] = NoArg
  /\ arg[t].call = "prefer" => arg[t] \in [call : {"prefer"}, store : Stores]
  /\ arg[t].call = "fetch" => arg[t] \in [call : {"fetch"}, kind : Kinds]
  /\ arg[t].call \in PoolCalls =>
       /\ arg[t] = [call |-> arg[t].call, kind |-> arg[t].kind,
                    id |-> arg[t].id, comp |-> arg[t].comp]
       /\ arg[t].kind \in Kinds
  /\ arg[t].call \in ListCalls =>
       arg[t] \in [call : ListCalls, name : Names \cup {None}, left : SUBSET Names]

Reached(t) ==
  /\ pc[t] = "idle" <=> arg[t].call = "none"
  /\ arg[t].call = "prefer" => pc[t] \in PreferPlaces
  /\ arg[t].call = "store" => pc[t] \in StorePlaces
  /\ arg[t].call = "fetch" => pc[t] \in KeepPlaces
  /\ arg[t].call = "get" => pc[t] \in PoolPlaces \cup {"FindPool"}
  /\ arg[t].call = "create" => pc[t] \in PoolPlaces
  /\ arg[t].call \in ListCalls => pc[t] \in ListPlaces

\* What is kept for each thread.
DomainsInv ==
  /\ DOMAIN pc = Threads /\ DOMAIN arg = Threads /\ DOMAIN want = Threads
  /\ DOMAIN hold = Threads /\ DOMAIN keep = Threads /\ DOMAIN returned = Threads

PlacesInv ==
  /\ DomainsInv
  /\ \A t \in Threads : Request(t) /\ Reached(t)

USE DEF allocVars, poolVars, loadVars, Goto, Take, Free, Hold, Fetched

\* A step of a thread moves that thread only.
LEMMA OthersStay ==
  ASSUME NEW t \in Threads, Call(t) \/ Drop(t) \/ Step(t), DomainsInv
  PROVE  \A u \in Threads : u # t =>
           /\ pc'[u] = pc[u] /\ arg'[u] = arg[u] /\ want'[u] = want[u]
           /\ hold'[u] = hold[u] /\ keep'[u] = keep[u] /\ returned'[u] = returned[u]
  <1> USE DEF DomainsInv
  <1>1. CASE Call(t)
    BY <1>1 DEF Call
  <1>2. CASE Drop(t)
    BY <1>2 DEF Drop
  <1>3. CASE SetPreferred(t)
    BY <1>3 DEF SetPreferred
  <1>4. CASE FindStore(t)
    BY <1>4 DEF FindStore, Return
  <1>5. CASE AllocatorStore(t)
    BY <1>5 DEF AllocatorStore
  <1>6. CASE NewStore(t)
    BY <1>6 DEF NewStore
  <1>7. CASE SetStore(t)
    BY <1>7 DEF SetStore
  <1>8. CASE FindLinear(t)
    BY <1>8 DEF FindLinear, StoreSet, Return
  <1>9. CASE UseStore(t)
    BY <1>9 DEF UseStore, StoreSet, Return
  <1>10. CASE KeepStore(t)
    BY <1>10 DEF KeepStore, Return
  <1>11. CASE FetchQueue(t)
    BY <1>11 DEF FetchQueue
  <1>12. CASE FetchLinear(t)
    BY <1>12 DEF FetchLinear
  <1>13. CASE NewLinear(t)
    BY <1>13 DEF NewLinear
  <1>14. CASE KeepAllocator(t)
    BY <1>14 DEF KeepAllocator, Return
  <1>15. CASE BlockPool(t)
    BY <1>15 DEF BlockPool
  <1>16. CASE FindPool(t)
    BY <1>16 DEF FindPool, Return
  <1>17. CASE MakePool(t)
    BY <1>17 DEF MakePool, Return
  <1>18. CASE Visit(t)
    BY <1>18 DEF Visit
  <1>19. CASE Visited(t)
    BY <1>19 DEF Visited, Return
  <1>20. CASE LoadModule(t)
    BY <1>20 DEF LoadModule
  <1>21. CASE InitModule(t)
    BY <1>21 DEF InitModule
  <1>22. CASE VisitModule(t)
    BY <1>22 DEF VisitModule
  <1>23. CASE MakeComponent(t)
    BY <1>23 DEF MakeComponent, Return
  <1> QED
    BY <1>1, <1>2, <1>3, <1>4, <1>5, <1>6, <1>7, <1>8, <1>9, <1>10, <1>11, <1>12, <1>13,
       <1>14, <1>15, <1>16, <1>17, <1>18, <1>19, <1>20, <1>21, <1>22, <1>23 DEF Step

\* What is kept for each thread stays so.
LEMMA DomainsStay ==
  ASSUME NEW t \in Threads, Call(t) \/ Drop(t) \/ Step(t), DomainsInv
  PROVE  DomainsInv'
  <1> USE DEF DomainsInv
  <1>1. CASE Call(t)
    BY <1>1 DEF Call
  <1>2. CASE Drop(t)
    BY <1>2 DEF Drop
  <1>3. CASE SetPreferred(t)
    BY <1>3 DEF SetPreferred
  <1>4. CASE FindStore(t)
    BY <1>4 DEF FindStore, Return
  <1>5. CASE AllocatorStore(t)
    BY <1>5 DEF AllocatorStore
  <1>6. CASE NewStore(t)
    BY <1>6 DEF NewStore
  <1>7. CASE SetStore(t)
    BY <1>7 DEF SetStore
  <1>8. CASE FindLinear(t)
    BY <1>8 DEF FindLinear, StoreSet, Return
  <1>9. CASE UseStore(t)
    BY <1>9 DEF UseStore, StoreSet, Return
  <1>10. CASE KeepStore(t)
    BY <1>10 DEF KeepStore, Return
  <1>11. CASE FetchQueue(t)
    BY <1>11 DEF FetchQueue
  <1>12. CASE FetchLinear(t)
    BY <1>12 DEF FetchLinear
  <1>13. CASE NewLinear(t)
    BY <1>13 DEF NewLinear
  <1>14. CASE KeepAllocator(t)
    BY <1>14 DEF KeepAllocator, Return
  <1>15. CASE BlockPool(t)
    BY <1>15 DEF BlockPool
  <1>16. CASE FindPool(t)
    BY <1>16 DEF FindPool, Return
  <1>17. CASE MakePool(t)
    BY <1>17 DEF MakePool, Return
  <1>18. CASE Visit(t)
    BY <1>18 DEF Visit
  <1>19. CASE Visited(t)
    BY <1>19 DEF Visited, Return
  <1>20. CASE LoadModule(t)
    BY <1>20 DEF LoadModule
  <1>21. CASE InitModule(t)
    BY <1>21 DEF InitModule
  <1>22. CASE VisitModule(t)
    BY <1>22 DEF VisitModule
  <1>23. CASE MakeComponent(t)
    BY <1>23 DEF MakeComponent, Return
  <1> QED
    BY <1>1, <1>2, <1>3, <1>4, <1>5, <1>6, <1>7, <1>8, <1>9, <1>10, <1>11, <1>12, <1>13,
       <1>14, <1>15, <1>16, <1>17, <1>18, <1>19, <1>20, <1>21, <1>22, <1>23 DEF Step

\* A call that returns leaves its thread idle and without a request.
LEMMA PlaceOfReturn ==
  ASSUME NEW t \in Threads, Return(t), DomainsInv
  PROVE  Request(t)' /\ Reached(t)'
  <1>1. pc'[t] = "idle" /\ arg'[t] = NoArg
    BY DEF Return, DomainsInv
  <1> QED
    BY <1>1 DEF Request, Reached, NoArg, PoolCalls, ListCalls

\* So is the end of setComponentStore.
LEMMA PlaceOfStoreSet ==
  ASSUME NEW t \in Threads, StoreSet(t), pc[t] \in {"FindLinear", "UseStore"}, PlacesInv
  PROVE  Request(t)' /\ Reached(t)'
  <1>1. CASE arg[t].call = "prefer"
    BY <1>1, PlaceOfReturn DEF StoreSet, PlacesInv
  <1>2. CASE arg[t].call # "prefer"
    <2>1. arg'[t] = arg[t] /\ pc'[t] = WithStore(t)
      BY <1>2 DEF StoreSet, PlacesInv, DomainsInv
    <2>2. Request(t) /\ Reached(t)
      BY DEF PlacesInv
    <2> QED
      BY <1>2, <2>1, <2>2 DEF Request, Reached, WithStore, PreferPlaces, StorePlaces, KeepPlaces,
        PoolPlaces, ListPlaces, SetPlaces, FetchPlaces, LoadPlaces, PoolCalls, ListCalls
  <1> QED
    BY <1>1, <1>2

\* A thread's request stays whole, and it reaches only the places of its call.
LEMMA PlaceOfThread ==
  ASSUME NEW t \in Threads, Call(t) \/ Drop(t) \/ Step(t), PlacesInv
  PROVE  Request(t)' /\ Reached(t)'
  <1>a. DomainsInv /\ Request(t) /\ Reached(t)
    BY DEF PlacesInv
  <1> USE <1>a DEF DomainsInv, Request, Reached, PreferPlaces, StorePlaces, KeepPlaces, PoolPlaces,
              ListPlaces, SetPlaces, FetchPlaces, LoadPlaces, PoolCalls, ListCalls
  <1>1. CASE Call(t)
    <2>1. PICK r \in Requests(t) : arg' = [arg EXCEPT ![t] = r] /\ pc' = [pc EXCEPT ![t] = Entry(r)]
      BY <1>1 DEF Call
    <2>2. arg'[t] = r /\ pc'[t] = Entry(r)
      BY <2>1
    <2>3. CASE r.call \in {"prefer", "store", "fetch"}
      BY <2>2, <2>3 DEF Requests, Entry
    <2>4. CASE r.call \in {"get", "create"}
      <3>1. PICK k, i, c :
             k \in Kinds /\ r = [call |-> r.call, kind |-> k, id |-> i, comp |-> c]
        BY <2>1, <2>4 DEF Requests, Kinds
      <3>2. r = [call |-> r.call, kind |-> r.kind, id |-> r.id, comp |-> r.comp] /\ r.kind \in Kinds
        BY <3>1
      <3>3. Entry(r) = "BlockPool"
        BY <2>4 DEF Entry
      <3> QED
        BY <2>2, <2>4, <3>2, <3>3
    <2>5. CASE r.call \in {"list", "component"}
      BY <2>2, <2>5 DEF Requests, Entry
    <2> QED
      BY <2>1, <2>3, <2>4, <2>5 DEF Requests
  <1>2. CASE Drop(t)
    BY <1>2 DEF Drop
  <1>3. CASE SetPreferred(t)
    BY <1>3 DEF SetPreferred
  <1>4. CASE FindStore(t)
    <2>1. CASE Return(t)
      BY <2>1, PlaceOfReturn
    <2>2. CASE ~Return(t)
      BY <1>4, <2>2 DEF FindStore
    <2> QED
      BY <2>1, <2>2
  <1>5. CASE AllocatorStore(t)
    BY <1>5 DEF AllocatorStore, WithStore
  <1>6. CASE NewStore(t)
    BY <1>6 DEF NewStore
  <1>7. CASE SetStore(t)
    BY <1>7 DEF SetStore
  <1>8. CASE FindLinear(t)
    <2>1. CASE StoreSet(t)
      BY <1>8, <2>1, PlaceOfStoreSet DEF FindLinear
    <2>2. CASE ~StoreSet(t)
      BY <1>8, <2>2 DEF FindLinear
    <2> QED
      BY <2>1, <2>2
  <1>9. CASE UseStore(t)
    BY <1>9, PlaceOfStoreSet DEF UseStore
  <1>10. CASE KeepStore(t)
    BY <1>10 DEF KeepStore, Return, NoArg
  <1>11. CASE FetchQueue(t)
    BY <1>11 DEF FetchQueue
  <1>12. CASE FetchLinear(t)
    BY <1>12 DEF FetchLinear
  <1>13. CASE NewLinear(t)
    BY <1>13 DEF NewLinear
  <1>14. CASE KeepAllocator(t)
    BY <1>14 DEF KeepAllocator, Return, NoArg
  <1>15. CASE BlockPool(t)
    BY <1>15 DEF BlockPool
  <1>16. CASE FindPool(t)
    BY <1>16 DEF FindPool, Return, NoArg
  <1>17. CASE MakePool(t)
    BY <1>17 DEF MakePool, Return, NoArg
  <1>18. CASE Visit(t)
    BY <1>18 DEF Visit
  <1>19. CASE Visited(t)
    BY <1>19 DEF Visited, Return, NoArg
  <1>20. CASE LoadModule(t)
    BY <1>20 DEF LoadModule
  <1>21. CASE InitModule(t)
    BY <1>21 DEF InitModule
  <1>22. CASE VisitModule(t)
    BY <1>22 DEF VisitModule
  <1>23. CASE MakeComponent(t)
    BY <1>23 DEF MakeComponent, Return, NoArg
  <1> QED
    BY <1>1, <1>2, <1>3, <1>4, <1>5, <1>6, <1>7, <1>8, <1>9, <1>10, <1>11, <1>12, <1>13,
       <1>14, <1>15, <1>16, <1>17, <1>18, <1>19, <1>20, <1>21, <1>22, <1>23 DEF Step

\* Every step keeps the places.
LEMMA PlacesStay ==
  PlacesInv /\ [Next]_vars => PlacesInv'
  <1> SUFFICES ASSUME PlacesInv, [Next]_vars PROVE PlacesInv'
    OBVIOUS
  <1>1. ASSUME NEW t \in Threads, Call(t) \/ Drop(t) \/ Step(t) PROVE PlacesInv'
    <2>1. DomainsInv'
      BY <1>1, DomainsStay DEF PlacesInv
    <2>2. Request(t)' /\ Reached(t)'
      BY <1>1, PlaceOfThread
    <2>3. ASSUME NEW u \in Threads, u # t PROVE Request(u)' /\ Reached(u)'
      <3>1. pc'[u] = pc[u] /\ arg'[u] = arg[u]
        BY <1>1, <2>3, OthersStay DEF PlacesInv
      <3> QED
        BY <3>1 DEF PlacesInv, Request, Reached
    <2> QED
      BY <2>1, <2>2, <2>3 DEF PlacesInv
  <1>2. CASE UNCHANGED <<pc, arg, want, hold, keep, returned>>
    BY <1>2 DEF PlacesInv, DomainsInv, Request, Reached
  <1>3. ASSUME NEW m \in factories, DestroyFactory(m) PROVE PlacesInv'
    BY <1>2, <1>3 DEF DestroyFactory
  <1> QED
    BY <1>1, <1>2, <1>3 DEF Next, vars

--------------------------------------------------------------------------------
(* The mutexes *)

\* Where a thread has each mutex.
Locks(t) ==
  /\ lock["set preferred"] = t <=>
       pc[t] = "FindStore" \/ (pc[t] \in SetPlaces /\ arg[t].call = "prefer")
  /\ lock["allocator store"] = t <=>
       pc[t] = "NewStore" \/ (pc[t] \in SetPlaces /\ arg[t].call # "prefer")
  /\ lock["set store"] = t <=> pc[t] \in {"FindLinear", "UseStore"}
  /\ lock["linear"] = t <=> pc[t] = "NewLinear"
  /\ lock["pools"] = t <=> pc[t] # "BlockPool" /\ arg[t].call \in PoolCalls
  /\ lock["visit"] = t => pc[t] \in LoadPlaces

LockInv ==
  /\ lock \in [Mutexes -> Threads \cup {None}]
  /\ \A t \in Threads : Locks(t)

\* What an unlocked mutex holds is no thread.
LEMMA NoneIsNoThread == None \notin Threads
  BY StoreAssumption

\* A step takes and frees the mutexes of its own thread only.
LEMMA LocksOfOthers ==
  ASSUME NEW t \in Threads, Call(t) \/ Drop(t) \/ Step(t), PlacesInv, LockInv
  PROVE  /\ lock' \in [Mutexes -> Threads \cup {None}]
         /\ \A u \in Threads, m \in Mutexes : u # t => (lock'[m] = u <=> lock[m] = u)
  <1>a. /\ lock \in [Mutexes -> Threads \cup {None}] /\ Locks(t) /\ None \notin Threads
        /\ {"set preferred", "allocator store", "set store", "linear", "pools", "visit"} = Mutexes
    BY NoneIsNoThread DEF LockInv, Mutexes
  <1> USE <1>a DEF Locks, SetPlaces, LoadPlaces, PoolCalls
  <1>1. CASE Call(t)
    BY <1>1 DEF Call
  <1>2. CASE Drop(t)
    BY <1>2 DEF Drop
  <1>3. CASE SetPreferred(t)
    BY <1>3 DEF SetPreferred
  <1>4. CASE FindStore(t)
    BY <1>4 DEF FindStore, Return
  <1>5. CASE AllocatorStore(t)
    BY <1>5 DEF AllocatorStore
  <1>6. CASE NewStore(t)
    BY <1>6 DEF NewStore
  <1>7. CASE SetStore(t)
    BY <1>7 DEF SetStore
  <1>8. CASE FindLinear(t)
    BY <1>8 DEF FindLinear, StoreSet, Return
  <1>9. CASE UseStore(t)
    BY <1>9 DEF UseStore, StoreSet, Return
  <1>10. CASE KeepStore(t)
    BY <1>10 DEF KeepStore, Return
  <1>11. CASE FetchQueue(t)
    BY <1>11 DEF FetchQueue
  <1>12. CASE FetchLinear(t)
    BY <1>12 DEF FetchLinear
  <1>13. CASE NewLinear(t)
    BY <1>13 DEF NewLinear
  <1>14. CASE KeepAllocator(t)
    BY <1>14 DEF KeepAllocator, Return
  <1>15. CASE BlockPool(t)
    BY <1>15 DEF BlockPool
  <1>16. CASE FindPool(t)
    BY <1>16 DEF FindPool, Return
  <1>17. CASE MakePool(t)
    BY <1>17 DEF MakePool, Return
  <1>18. CASE Visit(t)
    BY <1>18 DEF Visit
  <1>19. CASE Visited(t)
    BY <1>19 DEF Visited, Return
  <1>20. CASE LoadModule(t)
    BY <1>20 DEF LoadModule
  <1>21. CASE InitModule(t)
    BY <1>21 DEF InitModule
  <1>22. CASE VisitModule(t)
    BY <1>22 DEF VisitModule
  <1>23. CASE MakeComponent(t)
    BY <1>23 DEF MakeComponent, Return
  <1> QED
    BY <1>1, <1>2, <1>3, <1>4, <1>5, <1>6, <1>7, <1>8, <1>9, <1>10, <1>11, <1>12, <1>13,
       <1>14, <1>15, <1>16, <1>17, <1>18, <1>19, <1>20, <1>21, <1>22, <1>23 DEF Step

\* A thread's step keeps its own mutexes to their places.
LEMMA LocksOfReturn ==
  ASSUME NEW t \in Threads, Return(t), PlacesInv, LockInv
  PROVE  Locks(t)'
  <1>1. pc'[t] = "idle" /\ arg'[t].call = "none"
    BY DEF Return, PlacesInv, DomainsInv, NoArg
  <1>2. \A m \in Mutexes : lock'[m] # t
    BY NoneIsNoThread DEF Return, LockInv
  <1>3. /\ lock'["set preferred"] # t /\ lock'["allocator store"] # t /\ lock'["set store"] # t
        /\ lock'["linear"] # t /\ lock'["pools"] # t /\ lock'["visit"] # t
    BY <1>2 DEF Mutexes
  <1> QED
    BY <1>1, <1>3 DEF Locks, PoolCalls, SetPlaces, LoadPlaces

\* The request of a call for a pool: creating one gives it its id.
LEMMA BlockPoolRequest ==
  ASSUME NEW t \in Threads, BlockPool(t), PlacesInv
  PROVE  /\ arg[t].call \in PoolCalls /\ arg'[t].call = arg[t].call
         /\ arg'[t].kind = arg[t].kind /\ arg'[t].comp = arg[t].comp
         /\ arg'[t].id = IF arg[t].call = "create" THEN seqId ELSE arg[t].id
  <1>1. pc[t] = "BlockPool" /\ Request(t) /\ Reached(t) /\ DOMAIN arg = Threads
    BY DEF BlockPool, PlacesInv, DomainsInv
  <1>2. arg[t].call \in PoolCalls
    BY <1>1 DEF Request, Reached, PreferPlaces, StorePlaces, KeepPlaces, ListPlaces, SetPlaces,
      FetchPlaces, LoadPlaces, PoolCalls, ListCalls
  <1>3. PICK a, k, i, c : arg[t] = [call |-> a, kind |-> k, id |-> i, comp |-> c]
    BY <1>1, <1>2, Zenon DEF Request
  <1>4. CASE arg[t].call = "create"
    <2>1. arg' = [arg EXCEPT ![t].id = seqId]
      BY <1>4 DEF BlockPool
    <2>2. arg'[t] = [arg[t] EXCEPT !.id = seqId]
      BY <1>1, <2>1
    <2>3. arg'[t] = [call |-> a, kind |-> k, id |-> seqId, comp |-> c]
      BY <1>3, <2>2
    <2> QED
      BY <1>2, <1>3, <1>4, <2>3
  <1>5. CASE arg[t].call # "create"
    BY <1>2, <1>5 DEF BlockPool
  <1> QED
    BY <1>4, <1>5

\* The end of setComponentStore frees the two mutexes it was called under.
LEMMA LocksOfStoreSet ==
  ASSUME NEW t \in Threads, StoreSet(t), pc[t] \in {"FindLinear", "UseStore"}, PlacesInv, LockInv
  PROVE  Locks(t)'
  <1>1. CASE arg[t].call = "prefer"
    BY <1>1, LocksOfReturn DEF StoreSet
  <1>2. CASE arg[t].call # "prefer"
    <2>1. /\ lock' = [lock EXCEPT !["set store"] = None, !["allocator store"] = None]
          /\ arg' = arg /\ pc' = [pc EXCEPT ![t] = WithStore(t)] /\ DomainsInv /\ Reached(t)
          /\ pc[t] \notin {"BlockPool"}
      BY <1>2 DEF StoreSet, PlacesInv
    <2>2. pc'[t] = WithStore(t) /\ WithStore(t) \in {"KeepStore", "FindPool", "Fetch"}
      BY <2>1 DEF DomainsInv, WithStore
    <2>3. /\ DOMAIN lock = Mutexes
          /\ lock'["set preferred"] = lock["set preferred"] /\ lock'["allocator store"] = None
          /\ lock'["set store"] = None /\ lock'["linear"] = lock["linear"]
          /\ lock'["pools"] = lock["pools"] /\ lock'["visit"] = lock["visit"]
      BY <2>1 DEF LockInv, Mutexes
    <2>4. Locks(t)
      BY DEF LockInv
    <2> QED
      BY <1>2, <2>1, <2>2, <2>3, <2>4, NoneIsNoThread DEF Locks, SetPlaces, LoadPlaces
  <1> QED
    BY <1>1, <1>2

\* A thread's step leaves it with the mutexes of the place it reaches.
LEMMA LocksOfThread ==
  ASSUME NEW t \in Threads, Call(t) \/ Drop(t) \/ Step(t), PlacesInv, LockInv
  PROVE  Locks(t)'
  <1>a. /\ lock \in [Mutexes -> Threads \cup {None}] /\ Locks(t) /\ None \notin Threads
        /\ {"set preferred", "allocator store", "set store", "linear", "pools", "visit"} = Mutexes
        /\ DomainsInv /\ Reached(t)
    BY NoneIsNoThread DEF LockInv, Mutexes, PlacesInv
  <1> USE <1>a DEF Locks, SetPlaces, LoadPlaces, PoolCalls, DomainsInv, Reached, PreferPlaces,
     StorePlaces,
              KeepPlaces, PoolPlaces, ListPlaces, FetchPlaces, ListCalls
  <1>1. CASE Call(t)
    <2>1. PICK r \in Requests(t) : arg' = [arg EXCEPT ![t] = r] /\ pc' = [pc EXCEPT ![t] = Entry(r)]
      BY <1>1 DEF Call
    <2>2. arg'[t] = r /\ pc'[t] = Entry(r) /\ pc[t] = "idle" /\ lock' = lock
      BY <1>1, <2>1 DEF Call
    <2>3. /\ Entry(r) \in {"SetPreferred", "AllocatorStore", "BlockPool", "Visit"}
          /\ r.call \in {"get", "create"} => Entry(r) = "BlockPool"
      BY DEF Entry
    <2> QED
      BY <2>2, <2>3
  <1>2. CASE Drop(t)
    BY <1>2 DEF Drop
  <1>3. CASE SetPreferred(t)
    BY <1>3 DEF SetPreferred
  <1>4. CASE FindStore(t)
    <2>1. CASE Return(t)
      BY <2>1, LocksOfReturn
    <2>2. CASE ~Return(t)
      <3>1. pc'[t] = "SetStore" /\ arg'[t].call = "prefer" /\ lock' = lock
        BY <1>4, <2>2 DEF FindStore, PlacesInv, Request
      <3> QED
        BY <1>4, <3>1 DEF FindStore
    <2> QED
      BY <2>1, <2>2
  <1>5. CASE AllocatorStore(t)
    BY <1>5 DEF AllocatorStore, WithStore
  <1>6. CASE NewStore(t)
    BY <1>6 DEF NewStore
  <1>7. CASE SetStore(t)
    BY <1>7 DEF SetStore
  <1>8. CASE FindLinear(t)
    <2>1. CASE AllocLives("linear")
      BY <1>8, <2>1 DEF FindLinear
    <2>2. CASE ~AllocLives("linear")
      BY <1>8, <2>2, LocksOfStoreSet DEF FindLinear
    <2> QED
      BY <2>1, <2>2
  <1>9. CASE UseStore(t)
    BY <1>9, LocksOfStoreSet DEF UseStore
  <1>10. CASE KeepStore(t)
    BY <1>10, LocksOfReturn DEF KeepStore
  <1>11. CASE FetchQueue(t)
    BY <1>11 DEF FetchQueue
  <1>12. CASE FetchLinear(t)
    BY <1>12 DEF FetchLinear
  <1>13. CASE NewLinear(t)
    BY <1>13 DEF NewLinear
  <1>14. CASE KeepAllocator(t)
    BY <1>14, LocksOfReturn DEF KeepAllocator
  <1>15. CASE BlockPool(t)
    <2>1. arg[t].call \in PoolCalls /\ arg'[t].call = arg[t].call
      BY <1>15, BlockPoolRequest
    <2>2. lock' = [lock EXCEPT !["pools"] = t] /\ pc'[t] = "AllocatorStore"
      BY <1>15 DEF BlockPool
    <2> QED
      BY <1>15, <2>1, <2>2 DEF BlockPool
  <1>16. CASE FindPool(t)
    <2>1. CASE Return(t)
      BY <2>1, LocksOfReturn
    <2>2. CASE ~Return(t)
      BY <1>16, <2>2 DEF FindPool
    <2> QED
      BY <2>1, <2>2
  <1>17. CASE MakePool(t)
    BY <1>17, LocksOfReturn DEF MakePool
  <1>18. CASE Visit(t)
    BY <1>18 DEF Visit
  <1>19. CASE Visited(t)
    <2>1. CASE Return(t)
      BY <2>1, LocksOfReturn
    <2>2. CASE ~Return(t)
      BY <1>19, <2>2 DEF Visited
    <2> QED
      BY <2>1, <2>2
  <1>20. CASE LoadModule(t)
    BY <1>20 DEF LoadModule
  <1>21. CASE InitModule(t)
    BY <1>21 DEF InitModule
  <1>22. CASE VisitModule(t)
    <2>1. arg[t] \in [call : ListCalls, name : Names \cup {None}, left : SUBSET Names]
      BY <1>22 DEF VisitModule, PlacesInv, Request
    <2>2. arg'[t].call = arg[t].call /\ arg'[t].call \in ListCalls
      BY <1>22, <2>1 DEF VisitModule
    <2>3. lock'["visit"] = t => pc'[t] = "LoadModule"
      BY <1>22 DEF VisitModule
    <2>4. pc'[t] \in {"LoadModule", "Visited"}
      BY <1>22 DEF VisitModule
    <2>5. \A m \in Mutexes \ {"visit"} : lock'[m] = lock[m]
      BY <1>22 DEF VisitModule
    <2> QED
      BY <1>22, <2>2, <2>3, <2>4, <2>5 DEF VisitModule
  <1>23. CASE MakeComponent(t)
    BY <1>23, LocksOfReturn DEF MakeComponent
  <1> QED
    BY <1>1, <1>2, <1>3, <1>4, <1>5, <1>6, <1>7, <1>8, <1>9, <1>10, <1>11, <1>12, <1>13,
       <1>14, <1>15, <1>16, <1>17, <1>18, <1>19, <1>20, <1>21, <1>22, <1>23 DEF Step

\* Every step keeps the mutexes.
LEMMA LocksStay ==
  PlacesInv /\ LockInv /\ [Next]_vars => LockInv'
  <1> SUFFICES ASSUME PlacesInv, LockInv, [Next]_vars PROVE LockInv'
    OBVIOUS
  <1>1. ASSUME NEW t \in Threads, Call(t) \/ Drop(t) \/ Step(t) PROVE LockInv'
    <2>1. /\ lock' \in [Mutexes -> Threads \cup {None}]
          /\ \A u \in Threads, m \in Mutexes : u # t => (lock'[m] = u <=> lock[m] = u)
      BY <1>1, LocksOfOthers
    <2>2. Locks(t)'
      BY <1>1, LocksOfThread
    <2>3. ASSUME NEW u \in Threads, u # t PROVE Locks(u)'
      <3>1. pc'[u] = pc[u] /\ arg'[u] = arg[u]
        BY <1>1, <2>3, OthersStay DEF PlacesInv
      <3>2. Locks(u)
        BY DEF LockInv
      <3> QED
        BY <2>1, <2>3, <3>1, <3>2 DEF Locks, Mutexes
    <2> QED
      BY <2>1, <2>2, <2>3 DEF LockInv
  <1>2. CASE UNCHANGED <<pc, arg, lock>>
    BY <1>2 DEF LockInv, Locks
  <1>3. ASSUME NEW m \in factories, DestroyFactory(m) PROVE LockInv'
    BY <1>2, <1>3 DEF DestroyFactory
  <1> QED
    BY <1>1, <1>2, <1>3 DEF Next, vars

--------------------------------------------------------------------------------
(* The names a thread loads *)

\* The steps of the allocator store, the allocators and the pools, and those of
\* the component list.
StoreStep(t) ==
  \/ SetPreferred(t) \/ FindStore(t) \/ AllocatorStore(t) \/ NewStore(t) \/ SetStore(t)
  \/ FindLinear(t) \/ UseStore(t) \/ KeepStore(t)
  \/ FetchQueue(t) \/ FetchLinear(t) \/ NewLinear(t) \/ KeepAllocator(t)
  \/ BlockPool(t) \/ FindPool(t) \/ MakePool(t)

ListStep(t) ==
  Visit(t) \/ Visited(t) \/ LoadModule(t) \/ InitModule(t) \/ VisitModule(t) \/ MakeComponent(t)

\* What a client may ask for.
LEMMA RequestKinds ==
  ASSUME NEW t, NEW r \in Requests(t)
  PROVE  /\ r.call \in {"prefer", "store", "fetch", "get", "create", "list", "component"}
         /\ r.call \in {"list", "component"} => r.left = Names
         /\ r.call \in {"get", "create"} => r.comp \in keep[t].comps
         /\ r.call = "create" => r.id = 0
         /\ r.call = "get" => r.id \in PLATFORM_START .. (seqId - 1)
  <1>1. CASE r \in {[call |-> "prefer", store |-> s] : s \in Stores} \cup {[call |-> "store"]}
                  \cup {[call |-> "fetch", kind |-> k] : k \in Kinds}
    BY <1>1
  <1>2. CASE r \in {[call |-> "get", kind |-> "queue", id |-> i, comp |-> c] :
                     i \in PLATFORM_START .. (seqId - 1), c \in keep[t].comps}
    BY <1>2
  <1>3. CASE r \in {[call |-> "create", kind |-> k, id |-> 0, comp |-> c] :
                     k \in Kinds, c \in keep[t].comps}
    BY <1>3
  <1>4. CASE r \in {[call |-> "list", name |-> None, left |-> Names]}
    BY <1>4
  <1>5. CASE r \in {[call |-> "component", name |-> n, left |-> Names] : n \in Names \cup {None}}
    BY <1>5
  <1> QED
    BY <1>1, <1>2, <1>3, <1>4, <1>5 DEF Requests

\* What a thread's step is.
LEMMA StepsAre ==
  ASSUME NEW t, Step(t) PROVE StoreStep(t) \/ ListStep(t)
  BY DEF Step, StoreStep, ListStep

\* A thread with a store's call is nowhere near the list.
LEMMA StoreSide ==
  ASSUME NEW t \in Threads, Call(t) \/ Drop(t) \/ StoreStep(t), PlacesInv, LockInv
  PROVE  /\ UNCHANGED loadVars /\ lock'["visit"] = lock["visit"] /\ lock["visit"] # t
         /\ pc'[t] \notin LoadPlaces \cup {"Visited"} /\ pc[t] \notin LoadPlaces \cup {"Visited"}
         /\ pc'[t] = "Visit" => arg'[t].left = Names
  <1>a. /\ Locks(t) /\ lock \in [Mutexes -> Threads \cup {None}]
        /\ {"set preferred", "allocator store", "set store", "linear", "pools", "visit"} = Mutexes
        /\ Reached(t) /\ DomainsInv
    BY DEF LockInv, PlacesInv, Mutexes
  <1>b. pc[t] \notin LoadPlaces => lock["visit"] # t
    BY <1>a DEF Locks
  <1> USE <1>a, <1>b DEF LoadPlaces, DomainsInv
  <1>1. CASE Call(t)
    <2>1. PICK r \in Requests(t) : arg' = [arg EXCEPT ![t] = r] /\ pc' = [pc EXCEPT ![t] = Entry(r)]
      BY <1>1 DEF Call
    <2>2. /\ pc[t] = "idle" /\ arg'[t] = r /\ pc'[t] = Entry(r) /\ lock' = lock
          /\ UNCHANGED loadVars
      BY <1>1, <2>1 DEF Call
    <2>3. Entry(r) \in {"SetPreferred", "AllocatorStore", "BlockPool", "Visit"}
      BY DEF Entry
    <2>4. /\ r.call \in {"prefer", "store", "fetch", "get", "create", "list", "component"}
          /\ r.call \in {"list", "component"} => r.left = Names
      BY <2>1, RequestKinds
    <2>5. r.call \notin {"list", "component"} => Entry(r) # "Visit"
      BY <2>4 DEF Entry
    <2> QED
      BY <2>2, <2>3, <2>4, <2>5
  <1>2. CASE Drop(t)
    BY <1>2 DEF Drop
  <1>3. CASE SetPreferred(t)
    BY <1>3 DEF SetPreferred
  <1>4. CASE FindStore(t)
    BY <1>4 DEF FindStore, Return
  <1>5. CASE AllocatorStore(t)
    BY <1>5 DEF AllocatorStore, WithStore
  <1>6. CASE NewStore(t)
    BY <1>6 DEF NewStore
  <1>7. CASE SetStore(t)
    BY <1>7 DEF SetStore
  <1>8. CASE FindLinear(t)
    BY <1>8 DEF FindLinear, StoreSet, Return, WithStore
  <1>9. CASE UseStore(t)
    BY <1>9 DEF UseStore, StoreSet, Return, WithStore
  <1>10. CASE KeepStore(t)
    BY <1>10 DEF KeepStore, Return
  <1>11. CASE FetchQueue(t)
    BY <1>11 DEF FetchQueue
  <1>12. CASE FetchLinear(t)
    BY <1>12 DEF FetchLinear
  <1>13. CASE NewLinear(t)
    BY <1>13 DEF NewLinear
  <1>14. CASE KeepAllocator(t)
    BY <1>14 DEF KeepAllocator, Return
  <1>15. CASE BlockPool(t)
    BY <1>15 DEF BlockPool
  <1>16. CASE FindPool(t)
    BY <1>16 DEF FindPool, Return
  <1>17. CASE MakePool(t)
    BY <1>17 DEF MakePool, Return
  <1> QED
    BY <1>1, <1>2, <1>3, <1>4, <1>5, <1>6, <1>7, <1>8, <1>9, <1>10, <1>11, <1>12, <1>13,
       <1>14, <1>15, <1>16, <1>17 DEF StoreStep

\* A visit has names left; another thread loads the name it looks for.
NameKnown(t) ==
  /\ pc[t] = "Visit" => arg[t].left = Names
  /\ pc[t] \in LoadPlaces =>
       IF lock["visit"] = t THEN arg[t].left # {} ELSE arg[t].name \in Names

NamesInv == \A t \in Threads : NameKnown(t)

\* What a thread loads is a name, and one of those its visit has left.
LEMMA LoadsName ==
  ASSUME NEW t \in Threads, PlacesInv, LockInv, NamesInv, pc[t] \in LoadPlaces
  PROVE  /\ Loads(t) \in Names
         /\ lock["visit"] = t => Loads(t) \in arg[t].left
         /\ lock["visit"] # t => Loads(t) = arg[t].name
         /\ arg[t] \in [call : ListCalls, name : Names \cup {None}, left : SUBSET Names]
  <1>1. NameKnown(t) /\ Request(t) /\ Reached(t)
    BY DEF NamesInv, PlacesInv
  <1>2. arg[t].call \in ListCalls
    BY <1>1 DEF Request, Reached, PreferPlaces, StorePlaces, KeepPlaces, PoolPlaces, SetPlaces,
      FetchPlaces, LoadPlaces, PoolCalls
  <1>3. arg[t] \in [call : ListCalls, name : Names \cup {None}, left : SUBSET Names]
    BY <1>1, <1>2 DEF Request
  <1>4. CASE lock["visit"] = t
    <2>1. arg[t].left # {} /\ arg[t].left \subseteq Names
      BY <1>1, <1>3, <1>4 DEF NameKnown
    <2> QED
      BY <1>3, <1>4, <2>1 DEF Loads
  <1>5. CASE lock["visit"] # t
    BY <1>1, <1>3, <1>5 DEF NameKnown, Loads
  <1> QED
    BY <1>4, <1>5

\* A thread's step keeps the name it works on known.
LEMMA NamesOfThread ==
  ASSUME NEW t \in Threads, Call(t) \/ Drop(t) \/ Step(t), PlacesInv, LockInv, NamesInv
  PROVE  NameKnown(t)'
  <1>a. /\ NameKnown(t) /\ Locks(t) /\ lock \in [Mutexes -> Threads \cup {None}]
        /\ "visit" \in Mutexes /\ Names # {}
        /\ Reached(t) /\ Request(t) /\ DomainsInv
    BY StoreAssumption DEF NamesInv, LockInv, PlacesInv, Mutexes
  <1>b. CASE Call(t) \/ Drop(t) \/ StoreStep(t)
    BY <1>b, StoreSide DEF NameKnown, LoadPlaces
  <1> USE <1>a DEF NameKnown, LoadPlaces, DomainsInv
  <1>1. CASE Visit(t)
    BY <1>1 DEF Visit
  <1>2. CASE Visited(t)
    <2>1. pc[t] = "Visited" /\ arg[t].call \in ListCalls
      BY <1>2 DEF Visited, Request, Reached, PreferPlaces, StorePlaces, KeepPlaces,
         PoolPlaces, SetPlaces,
        FetchPlaces, PoolCalls
    <2>2. arg[t].name \in Names \cup {None}
      BY <2>1 DEF Request
    <2>3. CASE Return(t)
      BY <2>3 DEF Return
    <2>4. CASE ~Return(t)
      <3>1. arg[t].name # None /\ pc'[t] = "LoadModule" /\ arg' = arg /\ lock' = lock
        BY <1>2, <2>4 DEF Visited
      <3>2. lock["visit"] # t
        BY <2>1 DEF Locks
      <3> QED
        BY <2>2, <3>1, <3>2
    <2> QED
      BY <2>3, <2>4
  <1>3. CASE LoadModule(t)
    BY <1>3 DEF LoadModule
  <1>4. CASE InitModule(t)
    BY <1>4 DEF InitModule
  <1>5. CASE VisitModule(t)
    BY <1>5 DEF VisitModule
  <1>6. CASE MakeComponent(t)
    BY <1>6 DEF MakeComponent, Return
  <1> QED
    BY <1>b, <1>1, <1>2, <1>3, <1>4, <1>5, <1>6, StepsAre DEF ListStep

\* Every step keeps the names.
LEMMA NamesStay ==
  PlacesInv /\ LockInv /\ NamesInv /\ [Next]_vars => NamesInv'
  <1> SUFFICES ASSUME PlacesInv, LockInv, NamesInv, [Next]_vars PROVE NamesInv'
    OBVIOUS
  <1>1. ASSUME NEW t \in Threads, Call(t) \/ Drop(t) \/ Step(t) PROVE NamesInv'
    <2>1. NameKnown(t)'
      BY <1>1, NamesOfThread
    <2>2. ASSUME NEW u \in Threads, u # t PROVE NameKnown(u)'
      <3>1. pc'[u] = pc[u] /\ arg'[u] = arg[u]
        BY <1>1, <2>2, OthersStay DEF PlacesInv
      <3>2. lock'["visit"] = u <=> lock["visit"] = u
        BY <1>1, <2>2, LocksOfOthers DEF Mutexes
      <3> QED
        BY <3>1, <3>2 DEF NamesInv, NameKnown
    <2> QED
      BY <2>1, <2>2 DEF NamesInv
  <1>2. CASE UNCHANGED <<pc, arg, lock>>
    BY <1>2 DEF NamesInv, NameKnown
  <1>3. ASSUME NEW m \in factories, DestroyFactory(m) PROVE NamesInv'
    BY <1>2, <1>3 DEF DestroyFactory
  <1> QED
    BY <1>1, <1>2, <1>3 DEF Next, vars

\* What another thread loads stays.
LEMMA LoadsOfOthers ==
  ASSUME NEW t \in Threads, Call(t) \/ Drop(t) \/ Step(t), PlacesInv, LockInv,
         NEW u \in Threads, u # t
  PROVE  Loads(u)' = Loads(u)
  <1>1. arg'[u] = arg[u]
    BY OthersStay DEF PlacesInv
  <1>2. lock'["visit"] = u <=> lock["visit"] = u
    BY LocksOfOthers DEF Mutexes
  <1>3. CASE lock["visit"] = u
    BY <1>1, <1>2, <1>3 DEF Loads
  <1>4. CASE lock["visit"] # u
    BY <1>1, <1>2, <1>4 DEF Loads
  <1> QED
    BY <1>3, <1>4

--------------------------------------------------------------------------------
(* Values *)

\* A client's components and pools are its own, and so is the component of a call.
OwnComponents(t) == {c \in Components : c.by = t}
OwnPools(t) == {p \in PoolRecords : p.owner.by = t}

Holds == [store : BOOLEAN, allocs : SUBSET Kinds, module : Modules]
Keeps(t) ==
  [store : BOOLEAN, allocs : SUBSET Kinds,
   pools : SUBSET OwnPools(t), comps : SUBSET OwnComponents(t)]
CallTyped(t) ==
  /\ want[t] \in Stores \cup {Platform, None}
  /\ arg[t].call \in PoolCalls => arg[t].id \in Nat /\ arg[t].comp \in OwnComponents(t)

Globals ==
  /\ {preferred, componentStore, mapper} \subseteq Stores \cup {Platform, None}
  /\ calls \in 0 .. MaxCalls /\ seqId \in Nat /\ made \in Nat /\ mBlockPools \subseteq PoolRecords
  /\ modules \in Nat /\ components \in Nat
  /\ visited \in BOOLEAN /\ list \in Seq(Names) /\ loading \in [Names -> Threads \cup {None}]
  /\ mModule \in [Names -> Modules] /\ factories \subseteq Modules \ {NoModule}

ValuesInv ==
  /\ Globals
  /\ \A t \in Threads : hold[t] \in Holds /\ keep[t] \in Keeps(t) /\ CallTyped(t)

\* A module of a name is a module.
LEMMA ModuleIsModule ==
  ASSUME NEW n \in Names, NEW k \in Nat
  PROVE  [name |-> n, n |-> k] \in Modules \ {NoModule}
  BY StoreAssumption DEF Modules, NoModule

\* The request at a place of the allocators, of the pools and of a preference.
LEMMA RequestAt ==
  ASSUME NEW t \in Threads, PlacesInv
  PROVE  /\ pc[t] \in {"Fetch", "NewLinear", "KeepAllocator", "MakePool"} => arg[t].kind \in Kinds
         /\ pc[t] \in {"FindPool", "MakePool", "BlockPool"} => arg[t].call \in PoolCalls
         /\ pc[t] \in {"SetPreferred", "FindStore"} => arg[t].call = "prefer" /\ arg[t].store \in Stores
  <1>1. Request(t) /\ Reached(t)
    BY DEF PlacesInv
  <1>2. pc[t] \in {"Fetch", "NewLinear", "KeepAllocator", "MakePool"} =>
          arg[t].call \in {"fetch"} \cup PoolCalls
    BY <1>1 DEF Request, Reached, PreferPlaces, StorePlaces, ListPlaces, SetPlaces,
       LoadPlaces, PoolCalls,
      ListCalls
  <1>3. pc[t] \in {"FindPool", "MakePool", "BlockPool"} => arg[t].call \in PoolCalls
    BY <1>1 DEF Request, Reached, PreferPlaces, StorePlaces, KeepPlaces, ListPlaces,
       SetPlaces, FetchPlaces,
      LoadPlaces, PoolCalls, ListCalls
  <1>4. pc[t] \in {"SetPreferred", "FindStore"} => arg[t].call = "prefer"
    BY <1>1 DEF Request, Reached, StorePlaces, KeepPlaces, PoolPlaces, ListPlaces, SetPlaces,
       FetchPlaces,
      LoadPlaces, PoolCalls, ListCalls
  <1>5. arg[t].call \in {"fetch"} \cup PoolCalls => arg[t].kind \in Kinds
    BY <1>1 DEF Request
  <1>6. arg[t].call = "prefer" => arg[t].store \in Stores
    BY <1>1 DEF Request
  <1> QED
    BY <1>2, <1>3, <1>4, <1>5, <1>6

\* A step keeps the types of what threads share.
LEMMA GlobalsStay ==
  ASSUME NEW t \in Threads, Call(t) \/ Drop(t) \/ Step(t), PlacesInv, LockInv, NamesInv, ValuesInv
  PROVE  Globals'
  <1>a. Globals /\ hold[t] \in Holds /\ CallTyped(t) /\ MaxCalls \in Nat
    BY StoreAssumption DEF ValuesInv
  <1>b. want[t] \in Stores \cup {Platform, None} /\ hold[t].module \in Modules
    BY <1>a DEF CallTyped, Holds
  <1> USE <1>a, <1>b DEF Globals
  <1>1. CASE Call(t)
    BY <1>1 DEF Call
  <1>2. CASE Drop(t)
    BY <1>2 DEF Drop
  <1>3. CASE SetPreferred(t)
    BY <1>3, RequestAt DEF SetPreferred
  <1>4. CASE FindStore(t)
    BY <1>4 DEF FindStore
  <1>5. CASE AllocatorStore(t)
    BY <1>5 DEF AllocatorStore
  <1>6. CASE NewStore(t)
    BY <1>6 DEF NewStore
  <1>7. CASE SetStore(t)
    BY <1>7 DEF SetStore
  <1>8. CASE FindLinear(t)
    BY <1>8 DEF FindLinear
  <1>9. CASE UseStore(t)
    BY <1>9 DEF UseStore
  <1>10. CASE KeepStore(t)
    BY <1>10 DEF KeepStore
  <1>11. CASE FetchQueue(t)
    BY <1>11 DEF FetchQueue
  <1>12. CASE FetchLinear(t)
    BY <1>12 DEF FetchLinear
  <1>13. CASE NewLinear(t)
    BY <1>13 DEF NewLinear
  <1>14. CASE KeepAllocator(t)
    BY <1>14 DEF KeepAllocator
  <1>15. CASE BlockPool(t)
    BY <1>15 DEF BlockPool
  <1>16. CASE FindPool(t)
    BY <1>16 DEF FindPool
  <1>17. CASE MakePool(t)
    <2>1. arg[t].id \in Nat /\ arg[t].comp \in Components /\ arg[t].kind \in Kinds
      BY <1>17, RequestAt DEF MakePool, CallTyped, OwnComponents
    <2>2. [id |-> arg[t].id, kind |-> arg[t].kind, owner |-> arg[t].comp, n |-> made] \in PoolRecords
      BY <2>1 DEF PoolRecords
    <2> QED
      BY <1>17, <2>2 DEF MakePool
  <1>18. CASE Visit(t)
    BY <1>18 DEF Visit
  <1>19. CASE Visited(t)
    BY <1>19 DEF Visited
  <1>20. CASE LoadModule(t)
    <2>1. [name |-> Loads(t), n |-> modules + 1] \in Modules \ {NoModule}
      BY <1>20, LoadsName, ModuleIsModule DEF LoadModule, LoadPlaces
    <2>2. loading' \in [Names -> Threads \cup {None}]
      BY <1>20 DEF LoadModule
    <2>3. modules' \in Nat /\ factories' \subseteq Modules \ {NoModule}
      BY <1>20, <2>1 DEF LoadModule
    <2> QED
      BY <1>20, <2>2, <2>3 DEF LoadModule
  <1>21. CASE InitModule(t)
    <2>1. loading' \in [Names -> Threads \cup {None}]
      BY <1>21 DEF InitModule
    <2>2. mModule' \in [Names -> Modules]
      BY <1>21 DEF InitModule
    <2> QED
      BY <1>21, <2>1, <2>2 DEF InitModule
  <1>22. CASE VisitModule(t)
    <2>1. Loads(t) \in Names
      BY <1>22, LoadsName DEF VisitModule, LoadPlaces
    <2>2. list' \in Seq(Names)
      BY <1>22, <2>1 DEF VisitModule
    <2>3. visited' \in BOOLEAN
      BY <1>22 DEF VisitModule
    <2> QED
      BY <1>22, <2>2, <2>3 DEF VisitModule
  <1>23. CASE MakeComponent(t)
    BY <1>23 DEF MakeComponent
  <1> QED
    BY <1>1, <1>2, <1>3, <1>4, <1>5, <1>6, <1>7, <1>8, <1>9, <1>10, <1>11, <1>12, <1>13,
       <1>14, <1>15, <1>16, <1>17, <1>18, <1>19, <1>20, <1>21, <1>22, <1>23 DEF Step

\* A step keeps the type of what its thread's stack refers to.
LEMMA HoldsTyped ==
  ASSUME NEW t \in Threads, Call(t) \/ Drop(t) \/ Step(t), PlacesInv, LockInv, NamesInv, ValuesInv
  PROVE  hold'[t] \in Holds
  <1>a. CASE hold' = hold
    BY <1>a DEF ValuesInv
  <1>b. CASE Return(t)
    <2>1. hold'[t] = NoHold
      BY <1>b DEF Return, PlacesInv, DomainsInv
    <2> QED
      BY <2>1 DEF Holds, NoHold, Modules
  <1>c. CASE hold' = [hold EXCEPT ![t].store = TRUE] \/ hold' = [hold EXCEPT ![t].allocs = {}]
    BY <1>c DEF ValuesInv, Holds, PlacesInv, DomainsInv
  <1>d. ASSUME NEW k \in Kinds, hold' = [hold EXCEPT ![t].allocs = @ \cup {k}] PROVE hold'[t] \in Holds
    BY <1>d DEF ValuesInv, Holds, PlacesInv, DomainsInv
  <1>e. ASSUME NEW m \in Modules, hold' = [hold EXCEPT ![t].module = m] PROVE hold'[t] \in Holds
    BY <1>e DEF ValuesInv, Holds, PlacesInv, DomainsInv
  <1>1. CASE Call(t)
    BY <1>1, <1>a DEF Call
  <1>2. CASE Drop(t)
    BY <1>2, <1>a DEF Drop
  <1>3. CASE SetPreferred(t)
    BY <1>3, <1>a DEF SetPreferred
  <1>4. CASE FindStore(t)
    BY <1>4, <1>b, <1>c DEF FindStore
  <1>5. CASE AllocatorStore(t)
    BY <1>5, <1>c DEF AllocatorStore
  <1>6. CASE NewStore(t)
    BY <1>6, <1>a DEF NewStore
  <1>7. CASE SetStore(t)
    BY <1>7, <1>a DEF SetStore
  <1>8. CASE FindLinear(t)
    BY <1>8, <1>b, <1>c, <1>d DEF FindLinear, StoreSet, Kinds
  <1>9. CASE UseStore(t)
    BY <1>9, <1>b, <1>c DEF UseStore, StoreSet
  <1>10. CASE KeepStore(t)
    BY <1>10, <1>a, <1>b DEF KeepStore
  <1>11. CASE FetchQueue(t)
    BY <1>11, <1>d DEF FetchQueue, Kinds
  <1>12. CASE FetchLinear(t)
    BY <1>12, <1>d DEF FetchLinear, Kinds
  <1>13. CASE NewLinear(t)
    BY <1>13, <1>a DEF NewLinear
  <1>14. CASE KeepAllocator(t)
    BY <1>14, <1>a, <1>b DEF KeepAllocator
  <1>15. CASE BlockPool(t)
    BY <1>15, <1>a DEF BlockPool
  <1>16. CASE FindPool(t)
    BY <1>16, <1>a, <1>b DEF FindPool
  <1>17. CASE MakePool(t)
    BY <1>17, <1>a, <1>b DEF MakePool
  <1>18. CASE Visit(t)
    BY <1>18, <1>a DEF Visit
  <1>19. CASE Visited(t)
    BY <1>19, <1>a, <1>b DEF Visited
  <1>20. CASE LoadModule(t)
    <2>1. [name |-> Loads(t), n |-> modules + 1] \in Modules
      BY <1>20, LoadsName, ModuleIsModule DEF LoadModule, LoadPlaces, ValuesInv, Globals
    <2>2. mModule[Loads(t)] \in Modules
      BY <1>20, LoadsName DEF LoadModule, LoadPlaces, ValuesInv, Globals
    <2> QED
      BY <1>20, <1>e, <2>1, <2>2 DEF LoadModule
  <1>21. CASE InitModule(t)
    BY <1>21, <1>a DEF InitModule
  <1>22. CASE VisitModule(t)
    BY <1>22, <1>e DEF VisitModule, Modules
  <1>23. CASE MakeComponent(t)
    BY <1>23, <1>a, <1>b DEF MakeComponent
  <1> QED
    BY <1>1, <1>2, <1>3, <1>4, <1>5, <1>6, <1>7, <1>8, <1>9, <1>10, <1>11, <1>12, <1>13,
       <1>14, <1>15, <1>16, <1>17, <1>18, <1>19, <1>20, <1>21, <1>22, <1>23 DEF Step

\* A step keeps the type of what its thread's client refers to.
LEMMA KeepsTyped ==
  ASSUME NEW t \in Threads, Call(t) \/ Drop(t) \/ Step(t), PlacesInv, LockInv, NamesInv, ValuesInv
  PROVE  keep'[t] \in Keeps(t)
  <1>a. CASE keep' = keep
    BY <1>a DEF ValuesInv
  <1>b. keep[t] \in Keeps(t) /\ DOMAIN keep = Threads
    BY DEF ValuesInv, PlacesInv, DomainsInv
  <1>1. CASE Call(t)
    BY <1>1, <1>a DEF Call
  <1>2. CASE Drop(t)
    <2>1. CASE keep' = [keep EXCEPT ![t].store = FALSE]
      BY <2>1, <1>b DEF Keeps
    <2>2. ASSUME NEW x, keep' = [keep EXCEPT ![t].allocs = @ \ {x}] PROVE keep'[t] \in Keeps(t)
      BY <2>2, <1>b DEF Keeps
    <2>3. ASSUME NEW x, keep' = [keep EXCEPT ![t].pools = @ \ {x}] PROVE keep'[t] \in Keeps(t)
      BY <2>3, <1>b DEF Keeps
    <2>4. ASSUME NEW x, keep' = [keep EXCEPT ![t].comps = @ \ {x}] PROVE keep'[t] \in Keeps(t)
      BY <2>4, <1>b DEF Keeps
    <2> QED
      BY <1>2, <2>1, <2>2, <2>3, <2>4 DEF Drop
  <1>3. CASE SetPreferred(t)
    BY <1>3, <1>a DEF SetPreferred
  <1>4. CASE FindStore(t)
    BY <1>4, <1>a DEF FindStore
  <1>5. CASE AllocatorStore(t)
    BY <1>5, <1>a DEF AllocatorStore
  <1>6. CASE NewStore(t)
    BY <1>6, <1>a DEF NewStore
  <1>7. CASE SetStore(t)
    BY <1>7, <1>a DEF SetStore
  <1>8. CASE FindLinear(t)
    BY <1>8, <1>a DEF FindLinear
  <1>9. CASE UseStore(t)
    BY <1>9, <1>a DEF UseStore
  <1>10. CASE KeepStore(t)
    BY <1>10, <1>b DEF KeepStore, Keeps
  <1>11. CASE FetchQueue(t)
    BY <1>11, <1>a DEF FetchQueue
  <1>12. CASE FetchLinear(t)
    BY <1>12, <1>a DEF FetchLinear
  <1>13. CASE NewLinear(t)
    BY <1>13, <1>a DEF NewLinear
  <1>14. CASE KeepAllocator(t)
    <2>1. arg[t].kind \in Kinds
      BY <1>14, RequestAt DEF KeepAllocator
    <2> QED
      BY <1>14, <1>b, <2>1 DEF KeepAllocator, Keeps
  <1>15. CASE BlockPool(t)
    BY <1>15, <1>a DEF BlockPool
  <1>16. CASE FindPool(t)
    <2>1. Cached(t) \subseteq OwnPools(t)
      BY <1>16, RequestAt DEF FindPool, Cached, OwnPools, ValuesInv, Globals, CallTyped,
         OwnComponents
    <2> QED
      BY <1>16, <1>a, <1>b, <2>1 DEF FindPool, Keeps
  <1>17. CASE MakePool(t)
    <2>1. /\ arg[t].id \in Nat /\ arg[t].comp \in OwnComponents(t) /\ arg[t].kind \in Kinds
          /\ made \in Nat
      BY <1>17, RequestAt DEF MakePool, ValuesInv, Globals, CallTyped
    <2>2. [id |-> arg[t].id, kind |-> arg[t].kind, owner |-> arg[t].comp, n |-> made] \in OwnPools(t)
      BY <2>1 DEF PoolRecords, OwnPools, OwnComponents
    <2> QED
      BY <1>17, <1>b, <2>2 DEF MakePool, Keeps
  <1>18. CASE Visit(t)
    BY <1>18, <1>a DEF Visit
  <1>19. CASE Visited(t)
    BY <1>19, <1>a DEF Visited
  <1>20. CASE LoadModule(t)
    BY <1>20, <1>a DEF LoadModule
  <1>21. CASE InitModule(t)
    BY <1>21, <1>a DEF InitModule
  <1>22. CASE VisitModule(t)
    BY <1>22, <1>a DEF VisitModule
  <1>23. CASE MakeComponent(t)
    <2>1. hold[t].module \in Modules /\ components \in Nat
      BY DEF ValuesInv, Globals, Holds
    <2>2. [module |-> hold[t].module, by |-> t, n |-> components] \in OwnComponents(t)
      BY <2>1 DEF Components, OwnComponents
    <2> QED
      BY <1>23, <1>a, <1>b, <2>2 DEF MakeComponent, Keeps
  <1> QED
    BY <1>1, <1>2, <1>3, <1>4, <1>5, <1>6, <1>7, <1>8, <1>9, <1>10, <1>11, <1>12, <1>13,
       <1>14, <1>15, <1>16, <1>17, <1>18, <1>19, <1>20, <1>21, <1>22, <1>23 DEF Step

\* A step keeps the types of what its thread's call uses.
LEMMA CallsTyped ==
  ASSUME NEW t \in Threads, Call(t) \/ Drop(t) \/ Step(t), PlacesInv, LockInv, NamesInv, ValuesInv
  PROVE  CallTyped(t)'
  <1>a. /\ CallTyped(t) /\ DomainsInv /\ seqId \in Nat
        /\ {preferred, componentStore, mapper} \subseteq Stores \cup {Platform, None}
    BY DEF ValuesInv, PlacesInv, Globals
  <1>b. CASE arg' = arg /\ want' = want
    BY <1>a, <1>b DEF CallTyped
  <1>c. CASE Return(t)
    <2>1. want'[t] = None /\ arg'[t].call = "none"
      BY <1>a, <1>c DEF Return, DomainsInv, NoArg
    <2> QED
      BY <2>1 DEF CallTyped, PoolCalls
  <1>d. ASSUME arg' = arg, NEW s \in Stores \cup {Platform, None}, want' = [want EXCEPT ![t] = s]
        PROVE  CallTyped(t)'
    BY <1>a, <1>d DEF CallTyped, DomainsInv
  <1>1. CASE Call(t)
    <2>1. PICK r \in Requests(t) : arg' = [arg EXCEPT ![t] = r] /\ pc' = [pc EXCEPT ![t] = Entry(r)]
      BY <1>1 DEF Call
    <2>2. arg'[t] = r /\ want' = want
      BY <1>1, <1>a, <2>1 DEF Call, DomainsInv
    <2>3. keep[t].comps \subseteq OwnComponents(t)
      BY DEF ValuesInv, Keeps
    <2>4. r.call \in PoolCalls => r.id \in Nat /\ r.comp \in OwnComponents(t)
      BY <1>a, <2>1, <2>3, RequestKinds DEF PoolCalls, PLATFORM_START
    <2> QED
      BY <1>a, <2>2, <2>4 DEF CallTyped
  <1>2. CASE Drop(t)
    BY <1>2, <1>b DEF Drop
  <1>3. CASE SetPreferred(t)
    BY <1>3, <1>d, RequestAt DEF SetPreferred
  <1>4. CASE FindStore(t)
    BY <1>4, <1>b, <1>c DEF FindStore
  <1>5. CASE AllocatorStore(t)
    BY <1>5, <1>b DEF AllocatorStore
  <1>6. CASE NewStore(t)
    BY <1>6, <1>a, <1>d DEF NewStore, GetPreferredCodec2ComponentStore
  <1>7. CASE SetStore(t)
    BY <1>7, <1>b DEF SetStore
  <1>8. CASE FindLinear(t)
    BY <1>8, <1>b, <1>c DEF FindLinear, StoreSet
  <1>9. CASE UseStore(t)
    BY <1>9, <1>b, <1>c DEF UseStore, StoreSet
  <1>10. CASE KeepStore(t)
    BY <1>10, <1>c DEF KeepStore
  <1>11. CASE FetchQueue(t)
    BY <1>11, <1>b DEF FetchQueue
  <1>12. CASE FetchLinear(t)
    BY <1>12, <1>a, <1>b, <1>d DEF FetchLinear
  <1>13. CASE NewLinear(t)
    BY <1>13, <1>b DEF NewLinear
  <1>14. CASE KeepAllocator(t)
    BY <1>14, <1>c DEF KeepAllocator
  <1>15. CASE BlockPool(t)
    <2>1. /\ arg'[t].call = arg[t].call /\ arg'[t].comp = arg[t].comp
          /\ arg'[t].id = IF arg[t].call = "create" THEN seqId ELSE arg[t].id
      BY <1>15, BlockPoolRequest
    <2>2. want' = want
      BY <1>15 DEF BlockPool
    <2> QED
      BY <1>a, <2>1, <2>2 DEF CallTyped
  <1>16. CASE FindPool(t)
    BY <1>16, <1>b, <1>c DEF FindPool
  <1>17. CASE MakePool(t)
    BY <1>17, <1>c DEF MakePool
  <1>18. CASE Visit(t)
    BY <1>18, <1>b DEF Visit
  <1>19. CASE Visited(t)
    BY <1>19, <1>b, <1>c DEF Visited
  <1>20. CASE LoadModule(t)
    BY <1>20, <1>b DEF LoadModule
  <1>21. CASE InitModule(t)
    BY <1>21, <1>b DEF InitModule
  <1>22. CASE VisitModule(t)
    <2>1. arg[t] \in [call : ListCalls, name : Names \cup {None}, left : SUBSET Names]
      BY <1>22, LoadsName DEF VisitModule, LoadPlaces
    <2>2. arg'[t].call = arg[t].call /\ want' = want
      BY <1>22, <1>a, <2>1 DEF VisitModule, DomainsInv
    <2> QED
      BY <1>a, <2>1, <2>2 DEF CallTyped, PoolCalls, ListCalls
  <1>23. CASE MakeComponent(t)
    BY <1>23, <1>c DEF MakeComponent
  <1> QED
    BY <1>1, <1>2, <1>3, <1>4, <1>5, <1>6, <1>7, <1>8, <1>9, <1>10, <1>11, <1>12, <1>13,
       <1>14, <1>15, <1>16, <1>17, <1>18, <1>19, <1>20, <1>21, <1>22, <1>23 DEF Step

\* Every step keeps the values.
LEMMA ValuesStay ==
  PlacesInv /\ LockInv /\ NamesInv /\ ValuesInv /\ [Next]_vars => ValuesInv'
  <1> SUFFICES ASSUME PlacesInv, LockInv, NamesInv, ValuesInv, [Next]_vars PROVE ValuesInv'
    OBVIOUS
  <1>1. ASSUME NEW t \in Threads, Call(t) \/ Drop(t) \/ Step(t) PROVE ValuesInv'
    <2>1. Globals'
      BY <1>1, GlobalsStay
    <2>2. hold'[t] \in Holds /\ keep'[t] \in Keeps(t) /\ CallTyped(t)'
      BY <1>1, HoldsTyped, KeepsTyped, CallsTyped
    <2>3. ASSUME NEW u \in Threads, u # t
          PROVE  hold'[u] \in Holds /\ keep'[u] \in Keeps(u) /\ CallTyped(u)'
      <3>1. arg'[u] = arg[u] /\ want'[u] = want[u] /\ hold'[u] = hold[u] /\ keep'[u] = keep[u]
        BY <1>1, <2>3, OthersStay DEF PlacesInv
      <3> QED
        BY <3>1 DEF ValuesInv, CallTyped
    <2> QED
      BY <2>1, <2>2, <2>3 DEF ValuesInv
  <1>2. CASE UNCHANGED vars
    BY <1>2 DEF ValuesInv, Globals, CallTyped, vars
  <1>3. ASSUME NEW m \in factories, DestroyFactory(m) PROVE ValuesInv'
    BY <1>3 DEF DestroyFactory, ValuesInv, Globals, CallTyped
  <1> QED
    BY <1>1, <1>2, <1>3 DEF Next

--------------------------------------------------------------------------------
(* The block pools *)

\* A pool that is still to be made: a created one has the last id, which no pool
\* has; one that is asked for and not found is the platform's.
PoolToMake(t) ==
  lock["pools"] = t =>
    /\ arg[t].call = "create" =>
         /\ arg[t].id = seqId - 1 /\ arg[t].id > PLATFORM_START
         /\ \A p \in mBlockPools : p.id # arg[t].id
    /\ arg[t].call = "get" /\ pc[t] \in FetchPlaces \cup {"MakePool"} => arg[t].id = PLATFORM_START

PoolsInv ==
  /\ seqId > PLATFORM_START
  /\ \A p, q \in mBlockPools : p.id = q.id => p = q
  /\ \A t \in Threads : \A p \in keep[t].pools : p.id # PLATFORM_START => p \in mBlockPools
  /\ \A p \in mBlockPools : p.id < seqId
  /\ \A t \in Threads : PoolToMake(t)

\* Dropping makes what a client has no larger.
LEMMA DropsOnly ==
  ASSUME NEW t \in Threads, Drop(t), keep[t] \in Keeps(t), DOMAIN keep = Threads
  PROVE  /\ keep'[t].store => keep[t].store
         /\ keep'[t].allocs \subseteq keep[t].allocs
         /\ keep'[t].pools \subseteq keep[t].pools
         /\ keep'[t].comps \subseteq keep[t].comps
  <1>1. PICK s, a, p, c : keep[t] = [store |-> s, allocs |-> a, pools |-> p, comps |-> c]
    BY DEF Keeps
  <1>2. CASE keep[t].store /\ keep' = [keep EXCEPT ![t].store = FALSE]
    BY <1>1, <1>2
  <1>3. ASSUME NEW x, keep' = [keep EXCEPT ![t].allocs = @ \ {x}]
        PROVE  keep'[t] = [store |-> s, allocs |-> a \ {x}, pools |-> p, comps |-> c]
    BY <1>1, <1>3
  <1>4. ASSUME NEW x, keep' = [keep EXCEPT ![t].pools = @ \ {x}]
        PROVE  keep'[t] = [store |-> s, allocs |-> a, pools |-> p \ {x}, comps |-> c]
    BY <1>1, <1>4
  <1>5. ASSUME NEW x, keep' = [keep EXCEPT ![t].comps = @ \ {x}]
        PROVE  keep'[t] = [store |-> s, allocs |-> a, pools |-> p, comps |-> c \ {x}]
    BY <1>1, <1>5
  <1>6. CASE \E x \in keep[t].allocs : keep' = [keep EXCEPT ![t].allocs = @ \ {x}]
    BY <1>1, <1>3, <1>6
  <1>7. CASE \E x \in keep[t].pools : keep' = [keep EXCEPT ![t].pools = @ \ {x}]
    BY <1>1, <1>4, <1>7
  <1>8. CASE \E x \in keep[t].comps : keep' = [keep EXCEPT ![t].comps = @ \ {x}]
    BY <1>1, <1>5, <1>8
  <1> QED
    BY <1>2, <1>6, <1>7, <1>8 DEF Drop

\* The other steps leave the cache alone, and no client gets a pool.
LEMMA CacheStays ==
  ASSUME NEW t \in Threads, Call(t) \/ Drop(t) \/ Step(t), PlacesInv, LockInv, NamesInv, ValuesInv,
         ~BlockPool(t), ~FindPool(t), ~MakePool(t)
  PROVE  /\ UNCHANGED <<seqId, mBlockPools>> /\ keep'[t].pools \subseteq keep[t].pools
         /\ lock'["pools"] = t =>
              /\ lock["pools"] = t /\ arg'[t] = arg[t]
              /\ arg[t].call = "get" /\ pc'[t] \in FetchPlaces \cup {"MakePool"} => pc[t] \in FetchPlaces
  <1>a. /\ keep[t] \in Keeps(t) /\ DomainsInv /\ Locks(t)
        /\ lock \in [Mutexes -> Threads \cup {None}]
        /\ "pools" \in Mutexes /\ None \notin Threads
    BY NoneIsNoThread DEF ValuesInv, PlacesInv, LockInv, Mutexes
  <1>b. pc[t] \in ListPlaces \cup {"idle", "SetPreferred", "FindStore"} => lock["pools"] # t
    <2>1. Request(t) /\ Reached(t)
      BY DEF PlacesInv
    <2>2. pc[t] \in ListPlaces \cup {"idle", "SetPreferred", "FindStore"} => arg[t].call \notin PoolCalls
      BY <2>1 DEF Reached, PoolPlaces, ListPlaces, SetPlaces, FetchPlaces, LoadPlaces,
         PoolCalls, ListCalls
    <2> QED
      BY <1>a, <2>2 DEF Locks
  <1>c. Return(t) => lock'["pools"] # t
    BY <1>a DEF Return
  <1> USE <1>a, <1>b DEF DomainsInv, FetchPlaces, ListPlaces, LoadPlaces
  <1>1. CASE Call(t)
    BY <1>1 DEF Call
  <1>2. CASE Drop(t)
    <2>1. UNCHANGED <<seqId, mBlockPools, arg, pc, lock>>
      BY <1>2 DEF Drop
    <2>2. keep'[t].pools \subseteq keep[t].pools
      BY <1>2, DropsOnly
    <2> QED
      BY <1>2, <2>1, <2>2 DEF Drop
  <1>3. CASE SetPreferred(t)
    BY <1>3 DEF SetPreferred
  <1>4. CASE FindStore(t)
    BY <1>4, <1>c DEF FindStore, Return
  <1>5. CASE AllocatorStore(t)
    BY <1>5 DEF AllocatorStore, WithStore
  <1>6. CASE NewStore(t)
    BY <1>6 DEF NewStore
  <1>7. CASE SetStore(t)
    BY <1>7 DEF SetStore
  <1>8. CASE FindLinear(t)
    BY <1>8, <1>c DEF FindLinear, StoreSet, WithStore, Return
  <1>9. CASE UseStore(t)
    BY <1>9, <1>c DEF UseStore, StoreSet, WithStore, Return
  <1>10. CASE KeepStore(t)
    <2>1. keep'[t].pools = keep[t].pools
      BY <1>10 DEF KeepStore, Keeps
    <2> QED
      BY <1>10, <1>c, <2>1 DEF KeepStore, Return
  <1>11. CASE FetchQueue(t)
    BY <1>11 DEF FetchQueue
  <1>12. CASE FetchLinear(t)
    BY <1>12 DEF FetchLinear
  <1>13. CASE NewLinear(t)
    BY <1>13 DEF NewLinear
  <1>14. CASE KeepAllocator(t)
    <2>1. keep'[t].pools = keep[t].pools
      BY <1>14 DEF KeepAllocator, Keeps
    <2> QED
      BY <1>14, <1>c, <2>1 DEF KeepAllocator, Return
  <1>15. CASE Visit(t)
    BY <1>15 DEF Visit
  <1>16. CASE Visited(t)
    BY <1>16, <1>c DEF Visited, Return
  <1>17. CASE LoadModule(t)
    BY <1>17 DEF LoadModule
  <1>18. CASE InitModule(t)
    BY <1>18 DEF InitModule
  <1>19. CASE VisitModule(t)
    BY <1>19 DEF VisitModule
  <1>20. CASE MakeComponent(t)
    <2>1. keep'[t].pools = keep[t].pools
      BY <1>20 DEF MakeComponent, Keeps
    <2> QED
      BY <1>20, <1>c, <2>1 DEF MakeComponent, Return
  <1> QED
    BY <1>1, <1>2, <1>3, <1>4, <1>5, <1>6, <1>7, <1>8, <1>9, <1>10, <1>11, <1>12, <1>13,
       <1>14, <1>15, <1>16, <1>17, <1>18, <1>19, <1>20 DEF Step

\* Getting a pool: a living one stays in the cache, and no id is used twice.
LEMMA PoolsOfThread ==
  ASSUME NEW t \in Threads, Call(t) \/ Drop(t) \/ Step(t),
         PlacesInv, LockInv, NamesInv, ValuesInv, PoolsInv
  PROVE  PoolsInv'
  <1>a. /\ DomainsInv /\ Locks(t) /\ lock \in [Mutexes -> Threads \cup {None}] /\ "pools" \in Mutexes
        /\ seqId \in Nat /\ made \in Nat /\ mBlockPools \subseteq PoolRecords /\ None \notin Threads
    BY NoneIsNoThread DEF PlacesInv, LockInv, ValuesInv, Globals, Mutexes
  <1>b. \A u \in Threads : u # t =>
          /\ arg'[u] = arg[u] /\ pc'[u] = pc[u] /\ keep'[u] = keep[u]
          /\ lock'["pools"] = u <=> lock["pools"] = u
    BY <1>a, OthersStay, LocksOfOthers
  <1>c. keep[t] \in Keeps(t)
    BY DEF ValuesInv
  <1>1. CASE BlockPool(t)
    <2>1. /\ lock["pools"] = None /\ lock'["pools"] = t /\ mBlockPools' = mBlockPools
          /\ keep' = keep
          /\ seqId' = IF arg[t].call = "create" THEN seqId + 1 ELSE seqId
          /\ pc'[t] = "AllocatorStore"
      BY <1>1, <1>a DEF BlockPool, DomainsInv
    <2>2. arg'[t].call = arg[t].call /\ (arg[t].call = "create" => arg'[t].id = seqId)
      BY <1>1, BlockPoolRequest
    <2>3. seqId' \in Nat /\ seqId' >= seqId /\ (arg[t].call = "create" => seqId' - 1 = seqId)
      BY <1>a, <2>1
    <2>4. \A p \in mBlockPools : p.id \in Nat
      BY <1>a DEF PoolRecords
    <2>5. PoolToMake(t)'
      BY <1>a, <2>1, <2>2, <2>3, <2>4 DEF PoolToMake, PoolsInv, PLATFORM_START, FetchPlaces
    <2>6. \A u \in Threads : u # t => PoolToMake(u)'
      BY <2>1 DEF PoolToMake
    <2>7. seqId' > PLATFORM_START /\ \A p \in mBlockPools : p.id < seqId'
      BY <1>a, <2>3, <2>4 DEF PoolsInv, PLATFORM_START
    <2> QED
      BY <2>1, <2>5, <2>6, <2>7 DEF PoolsInv
  <1>2. CASE FindPool(t)
    <2>1. /\ pc[t] = "FindPool" /\ seqId' = seqId
          /\ mBlockPools' = {p \in mBlockPools : p.id = arg[t].id => p \in Pools}
      BY <1>2 DEF FindPool
    <2>2. keep'[t].pools \subseteq keep[t].pools \cup Cached(t)
      <3>1. CASE Return(t)
        BY <1>2, <1>a, <1>c, <3>1 DEF FindPool, DomainsInv, Keeps
      <3>2. CASE ~Return(t)
        BY <1>2, <3>2 DEF FindPool
      <3> QED
        BY <3>1, <3>2
    <2>3. \A u \in Threads : \A p \in keep[u].pools : p.id # PLATFORM_START => p \in mBlockPools'
      BY <2>1 DEF Pools, PoolsInv
    <2>4. \A p \in Cached(t) : p \in mBlockPools'
      BY <2>1 DEF Cached
    <2>5. \A u \in Threads : \A p \in keep'[u].pools : p.id # PLATFORM_START => p \in mBlockPools'
      BY <1>b, <2>2, <2>3, <2>4
    <2>6. lock["pools"] = t
      BY <1>a, <1>2, RequestAt DEF FindPool, Locks
    <2>7. \A u \in Threads : u # t => PoolToMake(u)'
      BY <1>b, <2>6 DEF PoolToMake
    <2>8. PoolToMake(t)'
      <3>1. CASE Return(t)
        BY <1>a, <3>1 DEF PoolToMake, Return
      <3>2. CASE ~Return(t)
        <4>1. arg[t].id = PLATFORM_START /\ arg' = arg
          BY <1>2, <3>2 DEF FindPool
        <4>2. arg[t].call # "create"
          BY <2>1 DEF PlacesInv, Reached, PoolPlaces, SetPlaces, FetchPlaces
        <4> QED
          BY <4>1, <4>2 DEF PoolToMake
      <3> QED
        BY <3>1, <3>2
    <2> QED
      BY <2>1, <2>5, <2>7, <2>8 DEF PoolsInv
  <1>3. CASE MakePool(t)
    <2> DEFINE new == [id |-> arg[t].id, kind |-> arg[t].kind, owner |-> arg[t].comp, n |-> made]
    <2>1. /\ pc[t] = "MakePool" /\ seqId' = seqId /\ Return(t)
          /\ mBlockPools' = {p \in mBlockPools : p.id # new.id} \cup {new}
          /\ keep' = [keep EXCEPT ![t].pools = @ \cup {new}]
      BY <1>3 DEF MakePool
    <2>2. lock["pools"] = t /\ arg[t].call \in PoolCalls
      BY <1>a, <2>1, RequestAt DEF Locks
    <2>3. new.id = arg[t].id
      OBVIOUS
    <2> HIDE DEF new
    <2>4. keep'[t].pools = keep[t].pools \cup {new}
      BY <1>a, <1>c, <2>1 DEF DomainsInv, Keeps
    <2>5. \/ arg[t].id = PLATFORM_START
          \/ arg[t].id = seqId - 1 /\ \A p \in mBlockPools : p.id # arg[t].id
      BY <2>1, <2>2 DEF PoolsInv, PoolToMake, PoolCalls
    <2>6. \A u \in Threads : \A p \in keep'[u].pools : p.id # PLATFORM_START => p \in mBlockPools'
      BY <1>b, <2>1, <2>3, <2>4, <2>5 DEF PoolsInv
    <2>7. new.id < seqId
      BY <1>a, <2>3, <2>5 DEF PoolsInv, PLATFORM_START
    <2>8. \A u \in Threads : PoolToMake(u)'
      BY <1>a, <1>b, <2>1, <2>2 DEF PoolToMake, Return
    <2>9. \A p, q \in mBlockPools' : p.id = q.id => p = q
      BY <2>1 DEF PoolsInv
    <2> QED
      BY <2>1, <2>6, <2>7, <2>8, <2>9 DEF PoolsInv
  <1>4. CASE ~BlockPool(t) /\ ~FindPool(t) /\ ~MakePool(t)
    <2>1. /\ UNCHANGED <<seqId, mBlockPools>> /\ keep'[t].pools \subseteq keep[t].pools
          /\ lock'["pools"] = t =>
               /\ lock["pools"] = t /\ arg'[t] = arg[t]
               /\ arg[t].call = "get" /\ pc'[t] \in FetchPlaces \cup {"MakePool"} => pc[t] \in FetchPlaces
      BY <1>4, CacheStays
    <2>2. PoolToMake(t)'
      BY <2>1 DEF PoolToMake, PoolsInv
    <2>3. \A u \in Threads : u # t => PoolToMake(u)'
      BY <1>b, <2>1 DEF PoolToMake, PoolsInv
    <2>4. \A u \in Threads : \A p \in keep'[u].pools : p \in keep[u].pools
      BY <1>b, <2>1
    <2> QED
      BY <2>1, <2>2, <2>3, <2>4 DEF PoolsInv
  <1> QED
    BY <1>1, <1>2, <1>3, <1>4

\* The promise of the cache follows.
LEMMA PoolsFound ==
  ValuesInv /\ PoolsInv => PoolsAreFound
  <1> SUFFICES ASSUME ValuesInv, PoolsInv, NEW t \in Threads, NEW p \in keep[t].pools
               PROVE  /\ p.owner.by = t
                      /\ p.id # PLATFORM_START => {q \in mBlockPools : q.id = p.id} = {p}
    BY DEF PoolsAreFound
  <1>1. p \in OwnPools(t)
    BY DEF ValuesInv, Keeps
  <1>2. p.owner.by = t
    BY <1>1 DEF OwnPools
  <1>3. p.id # PLATFORM_START => p \in mBlockPools /\ \A q \in mBlockPools : q.id = p.id => q = p
    BY DEF PoolsInv
  <1> QED
    BY <1>2, <1>3

--------------------------------------------------------------------------------
(* The component modules *)

\* A module that is in use is the one its loader would give again.
Published(m) == m \in factories /\ m.name \in Names /\ m = mModule[m.name]

\* The modules that threads and components keep alive.
Living ==
  {hold[t].module : t \in Threads} \cup UNION {{c.module : c \in keep[t].comps} : t \in Threads}

\* They are the ones that live.
LEMMA LivesBy ==
  \A m : ModuleLives(m) <=> m \in Living
  BY DEF ModuleLives, Captured, Comps, Living

\* The module in a thread's hands: while it is made, its loader has none that lives.
ModuleOf(t) ==
  /\ hold[t].module.n <= modules
  /\ pc[t] \notin {"InitModule", "Loaded"} => hold[t].module = NoModule
  /\ pc[t] \in {"InitModule", "Loaded"} => hold[t].module.name = Loads(t)
  /\ pc[t] = "Loaded" /\ Loads(t) \notin NoFactory => Published(hold[t].module)
  /\ pc[t] = "InitModule" =>
       /\ loading[Loads(t)] = t
       /\ Loads(t) \notin NoFactory => hold[t].module \in factories
       /\ mModule[Loads(t)] \in Living => mModule[Loads(t)] = NoModule

ModulesInv ==
  /\ \A t \in Threads : ModuleOf(t)
  /\ \A t \in Threads, n \in Names : loading[n] = t => pc[t] = "InitModule" /\ Loads(t) = n
  /\ \A n \in Names :
       /\ mModule[n].n <= modules
       /\ mModule[n] # NoModule => mModule[n].name = n /\ n \notin NoFactory
  /\ \A t \in Threads : \A c \in keep[t].comps : Published(c.module)

\* A step that makes no module and no component and lets go of the one its thread
\* has.
Quiet(t) ==
  /\ UNCHANGED <<mModule, factories, modules, loading>>
  /\ hold'[t].module = NoModule /\ keep'[t].comps \subseteq keep[t].comps
  /\ pc[t] # "InitModule" /\ pc'[t] \notin {"InitModule", "Loaded"}

\* The store's side touches neither components nor modules.
LEMMA SideKeeps ==
  ASSUME NEW t \in Threads, Call(t) \/ Drop(t) \/ StoreStep(t), DOMAIN hold = Threads,
         DOMAIN keep = Threads, hold[t] \in Holds, keep[t] \in Keeps(t), hold[t].module = NoModule
  PROVE  hold'[t].module = NoModule /\ keep'[t].comps \subseteq keep[t].comps
  <1>a. Return(t) => hold'[t].module = NoModule
    BY DEF Return, NoHold
  <1> USE <1>a DEF Holds, Keeps
  <1>1. CASE Call(t)
    BY <1>1 DEF Call
  <1>2. CASE Drop(t)
    BY <1>2, DropsOnly DEF Drop
  <1>3. CASE SetPreferred(t)
    BY <1>3 DEF SetPreferred
  <1>4. CASE FindStore(t)
    BY <1>4 DEF FindStore
  <1>5. CASE AllocatorStore(t)
    BY <1>5 DEF AllocatorStore
  <1>6. CASE NewStore(t)
    BY <1>6 DEF NewStore
  <1>7. CASE SetStore(t)
    BY <1>7 DEF SetStore
  <1>8. CASE FindLinear(t)
    BY <1>8 DEF FindLinear, StoreSet
  <1>9. CASE UseStore(t)
    BY <1>9 DEF UseStore, StoreSet
  <1>10. CASE KeepStore(t)
    BY <1>10 DEF KeepStore
  <1>11. CASE FetchQueue(t)
    BY <1>11 DEF FetchQueue
  <1>12. CASE FetchLinear(t)
    BY <1>12 DEF FetchLinear
  <1>13. CASE NewLinear(t)
    BY <1>13 DEF NewLinear
  <1>14. CASE KeepAllocator(t)
    BY <1>14 DEF KeepAllocator
  <1>15. CASE BlockPool(t)
    BY <1>15 DEF BlockPool
  <1>16. CASE FindPool(t)
    BY <1>16 DEF FindPool
  <1>17. CASE MakePool(t)
    BY <1>17 DEF MakePool
  <1> QED
    BY <1>1, <1>2, <1>3, <1>4, <1>5, <1>6, <1>7, <1>8, <1>9, <1>10, <1>11, <1>12, <1>13,
       <1>14, <1>15, <1>16, <1>17 DEF StoreStep

\* Most steps are of this kind.
LEMMA MostAreQuiet ==
  ASSUME NEW t \in Threads, Call(t) \/ Drop(t) \/ Step(t),
         PlacesInv, LockInv, NamesInv, ValuesInv, ModuleOf(t),
         ~LoadModule(t), ~InitModule(t), ~MakeComponent(t)
  PROVE  Quiet(t)
  <1>a. /\ hold[t] \in Holds /\ keep[t] \in Keeps(t) /\ DomainsInv
    BY DEF ValuesInv, PlacesInv
  <1>b. pc[t] \notin {"InitModule", "Loaded"} => hold[t].module = NoModule
    BY DEF ModuleOf
  <1>c. Return(t) => hold'[t].module = NoModule /\ pc'[t] = "idle"
    BY <1>a DEF Return, DomainsInv, NoHold
  <1>d. CASE Call(t) \/ Drop(t) \/ StoreStep(t)
    <2>1. UNCHANGED loadVars /\ pc[t] \notin LoadPlaces /\ pc'[t] \notin LoadPlaces
      BY <1>d, StoreSide
    <2>2. hold[t].module = NoModule
      BY <1>b, <2>1 DEF LoadPlaces
    <2>3. hold'[t].module = NoModule /\ keep'[t].comps \subseteq keep[t].comps
      BY <1>a, <1>d, <2>2, SideKeeps DEF DomainsInv
    <2> QED
      BY <2>1, <2>3 DEF Quiet, LoadPlaces
  <1>e. CASE Visit(t)
    BY <1>a, <1>b, <1>e DEF Visit, Quiet, DomainsInv
  <1>f. CASE Visited(t)
    <2>1. pc[t] = "Visited" /\ UNCHANGED <<mModule, factories, modules, loading, keep>>
      BY <1>f DEF Visited
    <2>2. CASE Return(t)
      BY <1>a, <1>c, <2>1, <2>2 DEF Quiet
    <2>3. CASE ~Return(t)
      BY <1>a, <1>b, <1>f, <2>1, <2>3 DEF Visited, Quiet, DomainsInv
    <2> QED
      BY <2>2, <2>3
  <1>g. CASE VisitModule(t)
    BY <1>a, <1>g DEF VisitModule, Quiet, DomainsInv, Holds
  <1> QED
    BY <1>d, <1>e, <1>f, <1>g, StepsAre DEF ListStep

\* No quiet step brings a module back to life.
LEMMA QuietLives ==
  ASSUME NEW t \in Threads, Quiet(t),
         \A u \in Threads : u # t => hold'[u] = hold[u] /\ keep'[u] = keep[u]
  PROVE  Living' \subseteq Living \cup {NoModule}
  <1>1. \A u \in Threads : hold'[u].module \in {hold[u].module, NoModule}
    BY DEF Quiet
  <1>2. \A u \in Threads : keep'[u].comps \subseteq keep[u].comps
    BY DEF Quiet
  <1> QED
    BY <1>1, <1>2 DEF Living

\* Quiet steps keep the modules' invariant.
LEMMA ModulesOfQuiet ==
  ASSUME NEW t \in Threads, Call(t) \/ Drop(t) \/ Step(t),
         PlacesInv, LockInv, NamesInv, ValuesInv, ModulesInv, Quiet(t)
  PROVE  ModulesInv'
  <1>a. \A u \in Threads : u # t =>
          /\ pc'[u] = pc[u] /\ hold'[u] = hold[u] /\ keep'[u] = keep[u] /\ Loads(u)' = Loads(u)
    BY OthersStay, LoadsOfOthers DEF PlacesInv
  <1>b. /\ UNCHANGED <<mModule, factories, modules, loading>> /\ modules \in Nat
        /\ hold'[t].module = NoModule /\ keep'[t].comps \subseteq keep[t].comps
        /\ pc[t] # "InitModule" /\ pc'[t] \notin {"InitModule", "Loaded"}
    BY DEF Quiet, ValuesInv, Globals
  <1>c. Living' \subseteq Living \cup {NoModule}
    BY <1>a, QuietLives
  <1>2. ModuleOf(t)'
    BY <1>b DEF ModuleOf, NoModule
  <1>3. ASSUME NEW u \in Threads, u # t PROVE ModuleOf(u)'
    <2>1. ModuleOf(u) /\ pc'[u] = pc[u] /\ hold'[u] = hold[u] /\ Loads(u)' = Loads(u)
      BY <1>a, <1>3 DEF ModulesInv
    <2> QED
      BY <1>b, <1>c, <2>1 DEF ModuleOf, Published
  <1>4. \A u \in Threads, n \in Names : loading'[n] = u => pc'[u] = "InitModule" /\ Loads(u)' = n
    BY <1>a, <1>b DEF ModulesInv
  <1>5. \A u \in Threads : keep'[u].comps \subseteq keep[u].comps
    BY <1>a, <1>b
  <1>6. (\A u \in Threads : \A c \in keep[u].comps : Published(c.module))'
    BY <1>5, <1>b DEF ModulesInv, Published
  <1>7. \A n \in Names :
       /\ mModule'[n].n <= modules'
       /\ mModule'[n] # NoModule => mModule'[n].name = n /\ n \notin NoFactory
    BY <1>b DEF ModulesInv
  <1> QED
    BY <1>2, <1>3, <1>4, <1>6, <1>7 DEF ModulesInv

\* A loader gives the module that lives, which is published, or makes one that no
\* loader and no thread has had.
LEMMA ModulesOfLoad ==
  ASSUME NEW t \in Threads, LoadModule(t), PlacesInv, LockInv, NamesInv, ValuesInv, ModulesInv
  PROVE  ModulesInv'
  <1> DEFINE n == Loads(t)
             new == [name |-> n, n |-> modules + 1]
  <1>a. \A u \in Threads : u # t =>
          /\ pc'[u] = pc[u] /\ hold'[u] = hold[u] /\ Loads(u)' = Loads(u)
    BY OthersStay, LoadsOfOthers DEF PlacesInv, Step
  <1>b. /\ DomainsInv /\ hold[t] \in Holds /\ modules \in Nat /\ mModule \in [Names -> Modules]
        /\ loading \in [Names -> Threads \cup {None}] /\ None \notin Threads /\ ModuleOf(t)
    BY NoneIsNoThread DEF PlacesInv, ValuesInv, Globals, ModulesInv
  <1>c. /\ n \in Names /\ pc[t] = "LoadModule" /\ loading[n] = None
        /\ pc'[t] \in {"InitModule", "Loaded"}
        /\ keep' = keep /\ mModule' = mModule /\ arg' = arg /\ lock' = lock
    BY <1>b, LoadsName DEF LoadModule, LoadPlaces, DomainsInv
  <1>d. Loads(t)' = n
    BY <1>c DEF Loads
  <1>e. \A u \in Threads : ModuleOf(u)
    BY DEF ModulesInv
  <1>1. CASE mModule[n] # NoModule /\ ModuleLives(mModule[n])
    <2>1. /\ hold' = [hold EXCEPT ![t].module = mModule[n]] /\ pc'[t] = "Loaded"
          /\ UNCHANGED <<factories, modules, loading>>
      BY <1>1, <1>b DEF LoadModule, DomainsInv
    <2>2. hold'[t].module = mModule[n]
      BY <1>b, <2>1 DEF DomainsInv, Holds
    <2>3. mModule[n] \in Living
      BY <1>1, LivesBy
    <2>4. mModule[n].name = n /\ n \notin NoFactory /\ mModule[n].n <= modules
      BY <1>1, <1>c DEF ModulesInv
    <2>5. Published(mModule[n])
      <3>1. CASE \E u \in Threads : \E c \in keep[u].comps : c.module = mModule[n]
        BY <3>1 DEF ModulesInv
      <3>2. CASE \E u \in Threads : hold[u].module = mModule[n]
        <4>1. PICK u \in Threads : hold[u].module = mModule[n]
          BY <3>2
        <4>2. pc[u] \in {"InitModule", "Loaded"} /\ Loads(u) = n
          BY <1>1, <1>e, <2>4, <4>1 DEF ModuleOf
        <4>3. pc[u] # "InitModule"
          BY <1>b, <1>c, <1>e, <4>2 DEF ModuleOf
        <4> QED
          BY <1>e, <2>4, <4>1, <4>2, <4>3 DEF ModuleOf
      <3> QED
        BY <2>3, <3>1, <3>2 DEF Living
    <2>6. Living' \subseteq Living
      <3>1. \A u \in Threads : hold'[u].module = hold[u].module \/ hold'[u].module = mModule[n]
        BY <1>a, <2>2
      <3> QED
        BY <1>c, <2>3, <3>1 DEF Living
    <2>7. ModuleOf(t)'
      BY <1>c, <1>d, <2>1, <2>2, <2>4, <2>5 DEF ModuleOf, Published
    <2>8. ASSUME NEW u \in Threads, u # t PROVE ModuleOf(u)'
      BY <1>a, <1>c, <1>e, <2>1, <2>6, <2>8 DEF ModuleOf, Published
    <2>9. \A u \in Threads, k \in Names : loading'[k] = u => pc'[u] = "InitModule" /\ Loads(u)' = k
      BY <1>a, <1>c, <2>1 DEF ModulesInv
    <2>10. \A k \in Names :
         /\ mModule'[k].n <= modules'
         /\ mModule'[k] # NoModule => mModule'[k].name = k /\ k \notin NoFactory
      BY <1>c, <2>1 DEF ModulesInv
    <2>11. (\A u \in Threads : \A c \in keep[u].comps : Published(c.module))'
      BY <1>c, <2>1 DEF ModulesInv, Published
    <2> QED
      BY <2>7, <2>8, <2>9, <2>10, <2>11 DEF ModulesInv
  <1>2. CASE ~(mModule[n] # NoModule /\ ModuleLives(mModule[n]))
    <2>1. /\ hold' = [hold EXCEPT ![t].module = new] /\ pc'[t] = "InitModule"
          /\ modules' = modules + 1
          /\ factories' = IF n \in NoFactory THEN factories ELSE factories \cup {new}
          /\ loading' = [loading EXCEPT ![n] = t]
      BY <1>2, <1>b DEF LoadModule, DomainsInv
    <2>2. hold'[t].module = new
      BY <1>b, <2>1 DEF DomainsInv, Holds
    <2>3. new.name = n /\ new.n = modules + 1
      OBVIOUS
    <2>4. \A k \in Names : mModule[k] \in Modules /\ mModule[k].n <= modules /\ mModule[k].n \in Nat
      BY <1>b DEF ModulesInv, Modules, NoModule
    <2>5. \A k \in Names : mModule[k] # new
      BY <1>b, <2>3, <2>4
    <2>6. mModule[n] = NoModule \/ mModule[n] \notin Living
      BY <1>2, LivesBy
    <2> HIDE DEF new, n
    <2>7. Living' \subseteq Living \cup {new}
      <3>1. \A u \in Threads : hold'[u].module = hold[u].module \/ hold'[u].module = new
        BY <1>a, <2>2
      <3> QED
        BY <1>c, <3>1 DEF Living
    <2>8. ModuleOf(t)'
      <3>1. hold'[t].module.n <= modules'
        BY <1>b, <2>1, <2>2, <2>3
      <3>2. loading'[n] = t /\ (n \notin NoFactory => new \in factories')
        BY <1>b, <1>c, <2>1
      <3>3. mModule'[n] \in Living' => mModule'[n] = NoModule
        BY <1>c, <2>5, <2>6, <2>7
      <3> QED
        BY <1>c, <1>d, <2>1, <2>2, <2>3, <3>1, <3>2, <3>3 DEF ModuleOf
    <2>9. ASSUME NEW u \in Threads, u # t PROVE ModuleOf(u)'
      <3>1. ModuleOf(u) /\ pc'[u] = pc[u] /\ hold'[u] = hold[u] /\ Loads(u)' = Loads(u)
        BY <1>a, <1>e, <2>9
      <3>2. hold[u].module.n \in Nat
        BY DEF ValuesInv, Holds, Modules, NoModule
      <3>3. hold'[u].module.n <= modules'
        <4>1. hold[u].module.n <= modules /\ modules \in Nat /\ modules' = modules + 1
          BY <1>b, <2>1, <3>1 DEF ModuleOf
        <4>2. hold[u].module.n <= modules + 1
          BY <3>2, <4>1
        <4> QED
          BY <3>1, <4>1, <4>2
      <3>4. pc[u] = "InitModule" => Loads(u) \in Names /\ loading[Loads(u)] = u /\ Loads(u) # n
        <4>1. ASSUME pc[u] = "InitModule" PROVE Loads(u) \in Names
          BY <4>1, LoadsName DEF LoadPlaces
        <4> QED
          BY <1>b, <1>c, <3>1, <4>1 DEF ModuleOf
      <3>5. pc[u] = "InitModule" =>
              /\ loading'[Loads(u)] = u
              /\ mModule'[Loads(u)] \in Living' => mModule'[Loads(u)] = NoModule
        BY <1>b, <1>c, <2>1, <2>5, <2>7, <3>1, <3>4 DEF ModuleOf
      <3>6. factories \subseteq factories'
        BY <2>1
      <3> QED
        BY <1>c, <3>1, <3>3, <3>5, <3>6 DEF ModuleOf, Published
    <2>10. \A u \in Threads, k \in Names : loading'[k] = u => pc'[u] = "InitModule" /\ Loads(u)' = k
      BY <1>a, <1>b, <1>c, <1>d, <2>1 DEF ModulesInv
    <2>11. \A k \in Names :
         /\ mModule'[k].n <= modules'
         /\ mModule'[k] # NoModule => mModule'[k].name = k /\ k \notin NoFactory
      BY <1>b, <1>c, <2>1, <2>4 DEF ModulesInv
    <2>12. (\A u \in Threads : \A c \in keep[u].comps : Published(c.module))'
      BY <1>c, <2>1 DEF ModulesInv, Published
    <2> QED
      BY <2>8, <2>9, <2>10, <2>11, <2>12 DEF ModulesInv
  <1> QED
    BY <1>1, <1>2

\* A module that is published takes the place of one that nobody has.
LEMMA ModulesOfInit ==
  ASSUME NEW t \in Threads, InitModule(t), PlacesInv, LockInv, NamesInv, ValuesInv, ModulesInv
  PROVE  ModulesInv'
  <1> DEFINE n == Loads(t)
  <1>a. \A u \in Threads : u # t => pc'[u] = pc[u] /\ Loads(u)' = Loads(u)
    BY OthersStay, LoadsOfOthers DEF PlacesInv, Step
  <1>b. /\ DomainsInv /\ mModule \in [Names -> Modules]
        /\ loading \in [Names -> Threads \cup {None}] /\ None \notin Threads /\ ModuleOf(t)
    BY NoneIsNoThread DEF PlacesInv, ValuesInv, Globals, ModulesInv
  <1>c. /\ n \in Names /\ pc[t] = "InitModule" /\ pc'[t] = "Loaded"
        /\ loading' = [loading EXCEPT ![n] = None]
        /\ mModule' = IF n \in NoFactory THEN mModule ELSE [mModule EXCEPT ![n] = hold[t].module]
        /\ UNCHANGED <<keep, hold, arg, lock, factories, modules>>
    BY <1>b, LoadsName DEF InitModule, LoadPlaces, DomainsInv
  <1>d. Loads(t)' = n
    BY <1>c DEF Loads
  <1>e. \A u \in Threads : ModuleOf(u)
    BY DEF ModulesInv
  <1>f. /\ hold[t].module.name = n /\ hold[t].module.n <= modules
        /\ n \notin NoFactory => hold[t].module \in factories
        /\ mModule[n] \in Living => mModule[n] = NoModule
    BY <1>b, <1>c DEF ModuleOf
  <1> HIDE DEF n
  <1>1. Living' = Living
    BY <1>c DEF Living
  <1>2. ASSUME NEW m, m \in Living, Published(m) PROVE Published(m)'
    <2>1. n = m.name => m = NoModule
      BY <1>2, <1>f DEF Published
    <2>2. m # NoModule
      BY <1>2, StoreAssumption DEF Published, NoModule
    <2> QED
      BY <1>2, <1>b, <1>c, <2>1, <2>2 DEF Published
  <1>3. ModuleOf(t)'
    <2>1. n \notin NoFactory => mModule'[n] = hold[t].module
      BY <1>b, <1>c
    <2> QED
      BY <1>c, <1>d, <1>f, <2>1 DEF ModuleOf, Published
  <1>4. ASSUME NEW u \in Threads, u # t PROVE ModuleOf(u)'
    <2>1. ModuleOf(u) /\ pc'[u] = pc[u] /\ hold'[u] = hold[u] /\ Loads(u)' = Loads(u)
      BY <1>a, <1>c, <1>e, <1>4
    <2>2. hold[u].module \in Living
      BY DEF Living
    <2>3. ASSUME pc[u] = "InitModule"
          PROVE  loading'[Loads(u)] = u /\ mModule'[Loads(u)] = mModule[Loads(u)]
      <3>1. Loads(u) \in Names
        BY <2>3, LoadsName DEF LoadPlaces
      <3>2. loading[Loads(u)] = u /\ loading[n] = t
        BY <1>b, <1>c, <2>1, <2>3 DEF ModuleOf, n
      <3> QED
        BY <1>b, <1>c, <1>4, <3>1, <3>2
    <2>4. pc[u] = "Loaded" /\ Loads(u) \notin NoFactory => Published(hold[u].module)'
      BY <1>2, <2>1, <2>2 DEF ModuleOf
    <2> QED
      BY <1>1, <1>c, <2>1, <2>3, <2>4 DEF ModuleOf
  <1>5. \A u \in Threads, k \in Names : loading'[k] = u => pc'[u] = "InitModule" /\ Loads(u)' = k
    <2>1. ASSUME NEW u \in Threads, NEW k \in Names, loading'[k] = u
          PROVE  pc'[u] = "InitModule" /\ Loads(u)' = k
      <3>1. k # n /\ loading[k] = u
        BY <1>b, <1>c, <2>1
      <3>2. pc[u] = "InitModule" /\ Loads(u) = k
        BY <3>1 DEF ModulesInv
      <3>3. u # t
        BY <3>1, <3>2 DEF n
      <3> QED
        BY <1>a, <3>2, <3>3
    <2> QED
      BY <2>1
  <1>6. \A k \in Names :
       /\ mModule'[k].n <= modules'
       /\ mModule'[k] # NoModule => mModule'[k].name = k /\ k \notin NoFactory
    BY <1>b, <1>c, <1>f DEF ModulesInv
  <1>7. (\A u \in Threads : \A c \in keep[u].comps : Published(c.module))'
    <2>1. ASSUME NEW u \in Threads, NEW c \in keep[u].comps PROVE Published(c.module)'
      <3>1. c.module \in Living /\ Published(c.module)
        BY DEF Living, ModulesInv
      <3>2. PICK m : m = c.module
        OBVIOUS
      <3>3. Published(m)'
        BY <1>2, <3>1, <3>2
      <3> QED
        BY <3>2, <3>3 DEF Published
    <2> QED
      BY <1>c, <2>1
  <1> QED
    BY <1>3, <1>4, <1>5, <1>6, <1>7 DEF ModulesInv

\* A component refers to the module it was loaded from.
LEMMA ModulesOfMake ==
  ASSUME NEW t \in Threads, MakeComponent(t), PlacesInv, LockInv, NamesInv, ValuesInv, ModulesInv
  PROVE  ModulesInv'
  <1> DEFINE new == [module |-> hold[t].module, by |-> t, n |-> components]
  <1>a. \A u \in Threads : u # t =>
          pc'[u] = pc[u] /\ hold'[u] = hold[u] /\ keep'[u] = keep[u] /\ Loads(u)' = Loads(u)
    BY OthersStay, LoadsOfOthers DEF PlacesInv, Step
  <1>b. DomainsInv /\ keep[t] \in Keeps(t) /\ ModuleOf(t) /\ modules \in Nat
    BY DEF PlacesInv, ValuesInv, Globals, ModulesInv
  <1>c. /\ pc[t] = "Loaded" /\ pc'[t] = "idle" /\ hold'[t] = NoHold
        /\ UNCHANGED <<mModule, factories, modules, loading>>
        /\ IF arg[t].name \in NoFactory THEN keep' = keep
           ELSE keep' = [keep EXCEPT ![t].comps = @ \cup {new}]
    BY <1>b DEF MakeComponent, DomainsInv, Return
  <1>d. Loads(t) = arg[t].name
    BY <1>c, LoadsName DEF MakeComponent, LoadPlaces
  <1>e. keep'[t].comps \subseteq keep[t].comps \cup (IF arg[t].name \in NoFactory THEN {} ELSE {new})
    BY <1>b, <1>c DEF DomainsInv, Keeps
  <1>f. \A u \in Threads : ModuleOf(u)
    BY DEF ModulesInv
  <1>g. new.module = hold[t].module
    OBVIOUS
  <1> HIDE DEF new
  <1>1. Living' \subseteq Living \cup {NoModule}
    <2>1. \A u \in Threads : hold'[u].module \in {hold[u].module, NoModule}
      BY <1>a, <1>c DEF NoHold
    <2>2. \A u \in Threads : \A c \in keep'[u].comps : c \in keep[u].comps \/ c = new
      BY <1>a, <1>e
    <2> QED
      BY <1>g, <2>1, <2>2 DEF Living
  <1>2. ModuleOf(t)'
    BY <1>b, <1>c DEF ModuleOf, NoHold, NoModule
  <1>3. ASSUME NEW u \in Threads, u # t PROVE ModuleOf(u)'
    <2>1. ModuleOf(u) /\ pc'[u] = pc[u] /\ hold'[u] = hold[u] /\ Loads(u)' = Loads(u)
      BY <1>a, <1>3, <1>f
    <2> QED
      BY <1>c, <1>1, <2>1 DEF ModuleOf, Published
  <1>4. \A u \in Threads, k \in Names : loading'[k] = u => pc'[u] = "InitModule" /\ Loads(u)' = k
    BY <1>a, <1>c DEF ModulesInv
  <1>5. \A k \in Names :
       /\ mModule'[k].n <= modules'
       /\ mModule'[k] # NoModule => mModule'[k].name = k /\ k \notin NoFactory
    BY <1>c DEF ModulesInv
  <1>6. \A u \in Threads : \A c \in keep'[u].comps : Published(c.module)
    <2>1. arg[t].name \notin NoFactory => Published(new.module)
      BY <1>b, <1>c, <1>d, <1>g DEF ModuleOf
    <2> QED
      BY <1>a, <1>e, <2>1 DEF ModulesInv
  <1>7. (\A u \in Threads : \A c \in keep[u].comps : Published(c.module))'
    BY <1>c, <1>6 DEF Published
  <1> QED
    BY <1>2, <1>3, <1>4, <1>5, <1>7 DEF ModulesInv

\* A factory goes only when nobody has its module.
LEMMA ModulesOfDestroy ==
  ASSUME NEW m \in factories, DestroyFactory(m), ModulesInv
  PROVE  ModulesInv'
  <1>1. /\ factories' = factories \ {m} /\ m \notin Living
        /\ UNCHANGED <<pc, arg, hold, keep, lock, mModule, modules, loading>>
    BY LivesBy DEF DestroyFactory
  <1>2. Living' = Living /\ \A u \in Threads : Loads(u)' = Loads(u)
    BY <1>1 DEF Living, Loads
  <1>3. ASSUME NEW u \in Threads PROVE ModuleOf(u)'
    <2>1. ModuleOf(u) /\ hold[u].module # m
      BY <1>1 DEF ModulesInv, Living
    <2> QED
      BY <1>1, <1>2, <2>1 DEF ModuleOf, Published
  <1>4. (\A u \in Threads : \A c \in keep[u].comps : Published(c.module))'
    <2>1. \A u \in Threads : \A c \in keep[u].comps : Published(c.module) /\ c.module # m
      BY <1>1 DEF ModulesInv, Living
    <2> QED
      BY <1>1, <2>1 DEF Published
  <1>5. (\A u \in Threads, n \in Names : loading[n] = u => pc[u] = "InitModule" /\ Loads(u) = n)'
    BY <1>1, <1>2 DEF ModulesInv
  <1> QED
    BY <1>1, <1>3, <1>4, <1>5 DEF ModulesInv

\* What it means for the components that live.
LEMMA ModulesOutlive ==
  ModulesInv => FactoryOutlives
  BY DEF ModulesInv, FactoryOutlives, Comps, Published

--------------------------------------------------------------------------------
(* The list *)

\* A list has each of the names that can be loaded and queried, once.
Listed(s, S) ==
  /\ s \in Seq(Names) /\ IsFiniteSet(S \ (NoFactory \cup NoTraits))
  /\ Len(s) = Cardinality(S \ (NoFactory \cup NoTraits))
  /\ {s[i] : i \in DOMAIN s} = S \ (NoFactory \cup NoTraits)

ListOf(t) ==
  /\ lock["visit"] = t => Listed(list, Names \ arg[t].left)
  /\ pc[t] = "Visited" \/ (pc[t] \in LoadPlaces /\ lock["visit"] # t) => visited
  /\ returned[t] # <<None>> => Listed(returned[t], Names)

ListInv ==
  /\ visited => lock["visit"] = None /\ Listed(list, Names)
  /\ ~visited /\ lock["visit"] = None => list = <<>>
  /\ \A t \in Threads : ListOf(t)

\* Before the visit nothing is listed.
LEMMA ListedNone == Listed(<<>>, {})
  <1>1. <<>> \in Seq(Names) /\ Len(<<>>) = 0 /\ {<<>>[i] : i \in DOMAIN <<>>} = {}
    OBVIOUS
  <1>2. {} \ (NoFactory \cup NoTraits) = {}
    OBVIOUS
  <1> QED
    BY <1>1, <1>2, FS_EmptySet DEF Listed

\* What Append adds.
LEMMA AppendedRange ==
  ASSUME NEW s \in Seq(Names), NEW n \in Names
  PROVE  /\ Append(s, n) \in Seq(Names) /\ Len(Append(s, n)) = Len(s) + 1
         /\ {Append(s, n)[i] : i \in DOMAIN Append(s, n)} = {s[i] : i \in DOMAIN s} \cup {n}
  <1>1. /\ Append(s, n) \in Seq(Names) /\ Len(Append(s, n)) = Len(s) + 1
        /\ \A i \in 1 .. Len(s) : Append(s, n)[i] = s[i]
        /\ Append(s, n)[Len(s) + 1] = n /\ Len(s) \in Nat
    OBVIOUS
  <1>2. DOMAIN s = 1 .. Len(s) /\ DOMAIN Append(s, n) = 1 .. (Len(s) + 1)
    BY <1>1
  <1>3. 1 .. (Len(s) + 1) = (1 .. Len(s)) \cup {Len(s) + 1}
    BY <1>1
  <1> QED
    BY <1>1, <1>2, <1>3

\* A module that is visited is listed, unless it cannot be loaded or queried.
LEMMA ListedMore ==
  ASSUME NEW s, NEW S, NEW n \in Names, Listed(s, S), n \notin S
  PROVE  Listed(IF n \in NoFactory \cup NoTraits THEN s ELSE Append(s, n), S \cup {n})
  <1>1. CASE n \in NoFactory \cup NoTraits
    <2>1. (S \cup {n}) \ (NoFactory \cup NoTraits) = S \ (NoFactory \cup NoTraits)
      BY <1>1
    <2> QED
      BY <1>1, <2>1 DEF Listed
  <1>2. CASE n \notin NoFactory \cup NoTraits
    <2> DEFINE T == S \ (NoFactory \cup NoTraits)
    <2>1. (S \cup {n}) \ (NoFactory \cup NoTraits) = T \cup {n} /\ n \notin T
      BY <1>2
    <2>2. IsFiniteSet(T) /\ Len(s) = Cardinality(T) /\ s \in Seq(Names) /\ {s[i] : i \in DOMAIN s} = T
      BY DEF Listed
    <2> HIDE DEF T
    <2>3. IsFiniteSet(T \cup {n}) /\ Cardinality(T \cup {n}) = Cardinality(T) + 1
      BY <2>1, <2>2, FS_AddElement
    <2>4. /\ Append(s, n) \in Seq(Names) /\ Len(Append(s, n)) = Len(s) + 1
          /\ {Append(s, n)[i] : i \in DOMAIN Append(s, n)} = {s[i] : i \in DOMAIN s} \cup {n}
      BY <2>2, AppendedRange
    <2>5. Len(Append(s, n)) = Cardinality(T \cup {n})
      BY <2>2, <2>3, <2>4
    <2>6. Listed(Append(s, n), S \cup {n})
      BY <2>1, <2>2, <2>3, <2>4, <2>5 DEF Listed
    <2> QED
      BY <1>2, <2>6
  <1> QED
    BY <1>1, <1>2

\* A step keeps the list.
LEMMA ListOfThread ==
  ASSUME NEW t \in Threads, Call(t) \/ Drop(t) \/ Step(t),
         PlacesInv, LockInv, NamesInv, ValuesInv, ListInv
  PROVE  ListInv'
  <1>a. \A u \in Threads : u # t =>
          /\ pc'[u] = pc[u] /\ arg'[u] = arg[u] /\ returned'[u] = returned[u]
          /\ lock'["visit"] = u <=> lock["visit"] = u
    BY OthersStay, LocksOfOthers DEF PlacesInv, Mutexes
  <1>b. /\ DomainsInv /\ lock \in [Mutexes -> Threads \cup {None}] /\ "visit" \in Mutexes
        /\ None \notin Threads /\ Locks(t) /\ ListOf(t) /\ NameKnown(t)
    BY NoneIsNoThread DEF PlacesInv, LockInv, Mutexes, ListInv, NamesInv
  <1>c. \A u \in Threads : ListOf(u)
    BY DEF ListInv
  <1>1. CASE Call(t) \/ Drop(t) \/ StoreStep(t)
    <2>1. /\ UNCHANGED <<visited, list, returned>> /\ lock'["visit"] = lock["visit"]
          /\ lock["visit"] # t
          /\ pc'[t] \notin LoadPlaces \cup {"Visited"}
      BY <1>1, StoreSide
    <2>2. \A u \in Threads : ListOf(u)'
      BY <1>a, <1>c, <2>1 DEF ListOf
    <2> QED
      BY <2>1, <2>2 DEF ListInv
  <1>2. CASE Visit(t)
    <2>1. pc[t] = "Visit" /\ lock["visit"] = None /\ UNCHANGED <<visited, list, returned, arg>>
      BY <1>2 DEF Visit
    <2>2. CASE visited
      <3>1. pc'[t] = "Visited" /\ lock' = lock
        BY <1>2, <1>b, <2>2 DEF Visit, DomainsInv
      <3> QED
        BY <1>a, <1>b, <1>c, <2>1, <2>2, <3>1 DEF ListOf, ListInv
    <2>3. CASE ~visited
      <3>1. pc'[t] = "LoadModule" /\ lock'["visit"] = t
        BY <1>2, <1>b, <2>3 DEF Visit, DomainsInv
      <3>2. list = <<>> /\ arg[t].left = Names
        BY <1>b, <2>1, <2>3 DEF ListInv, NameKnown
      <3>3. Listed(list, Names \ arg[t].left)
        <4>1. Names \ arg[t].left = {}
          BY <3>2
        <4> QED
          BY <3>2, <4>1, ListedNone
      <3>4. ListOf(t)'
        BY <1>b, <2>1, <3>1, <3>3 DEF ListOf
      <3>5. \A u \in Threads : u # t => ListOf(u)'
        BY <1>a, <1>c, <2>1 DEF ListOf
      <3> QED
        BY <1>b, <2>1, <2>3, <3>1, <3>4, <3>5 DEF ListInv
    <2> QED
      BY <2>2, <2>3
  <1>3. CASE Visited(t)
    <2>1. pc[t] = "Visited" /\ UNCHANGED <<visited, list>> /\ visited
      BY <1>3, <1>b DEF Visited, ListOf
    <2>2. lock["visit"] = None /\ Listed(list, Names)
      BY <2>1 DEF ListInv
    <2>3. lock'["visit"] = None
      BY <1>3, <1>b, <2>2 DEF Visited, Return
    <2>4. returned'[t] # <<None>> => Listed(returned'[t], Names)
      BY <1>3, <1>b, <2>2 DEF Visited, ListOf, DomainsInv
    <2>5. ListOf(t)'
      BY <1>b, <2>1, <2>3, <2>4 DEF ListOf
    <2>6. \A u \in Threads : u # t => ListOf(u)'
      BY <1>a, <1>c, <2>1 DEF ListOf
    <2> QED
      BY <2>1, <2>2, <2>3, <2>5, <2>6 DEF ListInv
  <1>4. CASE LoadModule(t) \/ InitModule(t)
    <2>1. UNCHANGED <<visited, list, returned, lock, arg>>
      BY <1>4 DEF LoadModule, InitModule
    <2>2. pc[t] \in LoadPlaces
      BY <1>4 DEF LoadModule, InitModule, LoadPlaces
    <2>3. pc'[t] \in LoadPlaces
      BY <1>4, <1>b DEF LoadModule, InitModule, LoadPlaces, DomainsInv
    <2>4. ListOf(t)'
      BY <1>b, <2>1, <2>2, <2>3 DEF ListOf, LoadPlaces
    <2>5. \A u \in Threads : u # t => ListOf(u)'
      BY <1>a, <1>c, <2>1 DEF ListOf
    <2> QED
      BY <2>1, <2>4, <2>5 DEF ListInv
  <1>5. CASE VisitModule(t)
    <2> DEFINE n == Loads(t)
               last == arg[t].left = {n}
    <2>1. /\ pc[t] = "Loaded" /\ lock["visit"] = t
          /\ list' = IF n \in NoFactory \cup NoTraits THEN list ELSE Append(list, n)
          /\ arg' = [arg EXCEPT ![t].left = @ \ {n}]
          /\ (visited' <=> last) /\ returned' = returned
          /\ lock'["visit"] = IF last THEN None ELSE t
          /\ pc'[t] = IF last THEN "Visited" ELSE "LoadModule"
      BY <1>5, <1>b DEF VisitModule, DomainsInv
    <2>2. /\ n \in Names /\ n \in arg[t].left
          /\ arg[t] \in [call : ListCalls, name : Names \cup {None}, left : SUBSET Names]
      BY <2>1, LoadsName DEF LoadPlaces
    <2>3. arg'[t].left = arg[t].left \ {n} /\ arg[t].left \subseteq Names
      BY <1>b, <2>1, <2>2 DEF DomainsInv
    <2>4. Listed(list, Names \ arg[t].left)
      BY <1>b, <2>1 DEF ListOf
    <2>5. Listed(list', (Names \ arg[t].left) \cup {n})
      BY <2>1, <2>2, <2>4, ListedMore
    <2>6. (Names \ arg[t].left) \cup {n} = Names \ arg'[t].left
      BY <2>2, <2>3
    <2>7. last => Names \ arg'[t].left = Names
      BY <2>3
    <2>8. Listed(list', Names \ arg'[t].left) /\ (last => Listed(list', Names))
      BY <2>5, <2>6, <2>7
    <2> HIDE DEF last, n
    <2>9. ListOf(t)'
      BY <1>b, <2>1, <2>8 DEF ListOf, LoadPlaces
    <2>10. \A u \in Threads : u # t => ListOf(u)'
      <3>1. ASSUME NEW u \in Threads, u # t PROVE ListOf(u)'
        <4>1. lock["visit"] # u /\ ~visited
          BY <1>b, <2>1, <3>1 DEF ListInv
        <4>2. pc[u] \notin LoadPlaces \cup {"Visited"}
          BY <1>c, <4>1 DEF ListOf
        <4> QED
          BY <1>a, <1>c, <2>1, <3>1, <4>1, <4>2 DEF ListOf
      <3> QED
        BY <3>1
    <2> QED
      BY <1>b, <2>1, <2>8, <2>9, <2>10 DEF ListInv
  <1>6. CASE MakeComponent(t)
    <2>1. /\ UNCHANGED <<visited, list, returned>> /\ pc'[t] = "idle" /\ lock["visit"] # t
      BY <1>6, <1>b DEF MakeComponent, Return, DomainsInv
    <2>2. lock'["visit"] = lock["visit"]
      BY <1>6, <1>b, <2>1 DEF MakeComponent, Return
    <2>3. \A u \in Threads : ListOf(u)'
      BY <1>a, <1>c, <2>1, <2>2 DEF ListOf, LoadPlaces
    <2> QED
      BY <2>1, <2>2, <2>3 DEF ListInv
  <1> QED
    BY <1>1, <1>2, <1>3, <1>4, <1>5, <1>6, StepsAre DEF ListStep

\* What is returned is the whole list.
LEMMA ListIsComplete ==
  ListInv => ListComplete
  BY DEF ListInv, ListOf, ListComplete, Listed

--------------------------------------------------------------------------------
(* The store that is asked *)

UsePlaces ==
  {"NewStore", "KeepStore", "FindPool", "MakePool", "KeepAllocator"} \cup SetPlaces \cup FetchPlaces

\* What a call uses lives.
AliveOf(t) ==
  /\ pc[t] \in UsePlaces => hold[t].store
  /\ pc[t] \in {"KeepAllocator", "MakePool"} => arg[t].kind \in hold[t].allocs
  /\ pc[t] \in {"UseStore", "NewLinear"} => "linear" \in hold[t].allocs
  /\ pc[t] = "NewLinear" => arg[t].kind = "linear"

AliveInv == \A t \in Threads : AliveOf(t)

\* The end of setComponentStore leaves the allocator store alive.
LEMMA AliveOfStoreSet ==
  ASSUME NEW t \in Threads, StoreSet(t), ~Return(t), pc[t] \in {"FindLinear", "UseStore"},
         DomainsInv, hold[t] \in Holds, AliveOf(t)
  PROVE  AliveOf(t)' /\ hold'[t].store
  <1>1. hold' = [hold EXCEPT ![t].allocs = {}] /\ pc'[t] = WithStore(t)
    BY DEF StoreSet, DomainsInv
  <1>2. hold'[t].store = hold[t].store
    BY <1>1 DEF Holds, DomainsInv
  <1>3. hold[t].store
    BY DEF AliveOf, UsePlaces, SetPlaces
  <1>4. pc'[t] \in {"KeepStore", "FindPool", "Fetch"}
    BY <1>1 DEF WithStore
  <1>5. hold'[t].store
    BY <1>2, <1>3, Zenon
  <1> QED
    BY <1>4, <1>5 DEF AliveOf

\* A step keeps alive what its thread uses.
LEMMA AliveOfThread ==
  ASSUME NEW t \in Threads, Call(t) \/ Drop(t) \/ Step(t),
         PlacesInv, LockInv, NamesInv, ValuesInv, AliveInv
  PROVE  AliveOf(t)'
  <1>a. /\ DomainsInv /\ hold[t] \in Holds /\ AliveOf(t)
    BY DEF PlacesInv, ValuesInv, AliveInv
  <1>b. Return(t) => pc'[t] = "idle"
    BY <1>a DEF Return, DomainsInv
  <1> USE <1>a DEF AliveOf, UsePlaces, SetPlaces, FetchPlaces, DomainsInv
  <1>1. CASE Call(t)
    <2>1. PICK r \in Requests(t) : arg' = [arg EXCEPT ![t] = r] /\ pc' = [pc EXCEPT ![t] = Entry(r)]
      BY <1>1 DEF Call
    <2>2. pc'[t] \in {"SetPreferred", "AllocatorStore", "BlockPool", "Visit"}
      BY <2>1 DEF Entry
    <2> QED
      BY <2>2
  <1>2. CASE Drop(t)
    BY <1>2 DEF Drop
  <1>3. CASE SetPreferred(t)
    BY <1>3 DEF SetPreferred
  <1>4. CASE FindStore(t)
    <2>1. CASE Return(t)
      BY <2>1, <1>b
    <2>2. CASE ~Return(t)
      <3>1. hold' = [hold EXCEPT ![t].store = TRUE] /\ pc'[t] = "SetStore"
        BY <1>4, <2>2 DEF FindStore
      <3> QED
        BY <3>1 DEF Holds
    <2> QED
      BY <2>1, <2>2
  <1>5. CASE AllocatorStore(t)
    BY <1>5 DEF AllocatorStore, WithStore, Holds
  <1>6. CASE NewStore(t)
    BY <1>6 DEF NewStore
  <1>7. CASE SetStore(t)
    BY <1>7 DEF SetStore
  <1>8. CASE FindLinear(t)
    <2>1. CASE Return(t)
      BY <2>1, <1>b
    <2>2. CASE ~Return(t) /\ StoreSet(t)
      BY <1>8, <2>2, AliveOfStoreSet DEF FindLinear
    <2>3. CASE ~StoreSet(t)
      BY <1>8, <2>3 DEF FindLinear, Holds
    <2> QED
      BY <2>1, <2>2, <2>3
  <1>9. CASE UseStore(t)
    <2>1. CASE Return(t)
      BY <2>1, <1>b
    <2>2. CASE ~Return(t)
      BY <1>9, <2>2, AliveOfStoreSet DEF UseStore
    <2> QED
      BY <2>1, <2>2
  <1>10. CASE KeepStore(t)
    BY <1>10, <1>b DEF KeepStore
  <1>11. CASE FetchQueue(t)
    BY <1>11 DEF FetchQueue, Holds
  <1>12. CASE FetchLinear(t)
    BY <1>12 DEF FetchLinear, Holds
  <1>13. CASE NewLinear(t)
    BY <1>13 DEF NewLinear
  <1>14. CASE KeepAllocator(t)
    BY <1>14, <1>b DEF KeepAllocator
  <1>15. CASE BlockPool(t)
    BY <1>15 DEF BlockPool
  <1>16. CASE FindPool(t)
    BY <1>16, <1>b DEF FindPool, Holds
  <1>17. CASE MakePool(t)
    BY <1>17, <1>b DEF MakePool
  <1>18. CASE Visit(t)
    BY <1>18 DEF Visit
  <1>19. CASE Visited(t)
    BY <1>19, <1>b DEF Visited, Holds
  <1>20. CASE LoadModule(t)
    BY <1>20 DEF LoadModule
  <1>21. CASE InitModule(t)
    BY <1>21 DEF InitModule
  <1>22. CASE VisitModule(t)
    BY <1>22 DEF VisitModule
  <1>23. CASE MakeComponent(t)
    BY <1>23, <1>b DEF MakeComponent
  <1> QED
    BY <1>1, <1>2, <1>3, <1>4, <1>5, <1>6, <1>7, <1>8, <1>9, <1>10, <1>11, <1>12, <1>13,
       <1>14, <1>15, <1>16, <1>17, <1>18, <1>19, <1>20, <1>21, <1>22, <1>23 DEF Step

\* What a thread has after setComponentStore.
LEMMA StoreSetHolds ==
  ASSUME NEW t \in Threads, StoreSet(t), DOMAIN hold = Threads, hold[t] \in Holds
  PROVE  hold'[t].allocs = {} /\ (hold'[t].store => hold[t].store)
  <1>1. CASE Return(t)
    BY <1>1 DEF Return, NoHold
  <1>2. CASE ~Return(t)
    <2>1. hold' = [hold EXCEPT ![t].allocs = {}]
      BY <1>2 DEF StoreSet
    <2> QED
      BY <2>1 DEF Holds
  <1> QED
    BY <1>1, <1>2

\* Only AllocatorStore makes an allocator store.
LEMMA StoreOfThread ==
  ASSUME NEW t \in Threads, Call(t) \/ Drop(t) \/ Step(t), PlacesInv, ValuesInv, AliveInv,
         ~AllocatorStore(t), hold'[t].store \/ keep'[t].store
  PROVE  StoreLives
  <1>a. /\ DomainsInv /\ hold[t] \in Holds /\ keep[t] \in Keeps(t) /\ AliveOf(t)
    BY DEF PlacesInv, ValuesInv, AliveInv
  <1>c. Return(t) => ~hold'[t].store
    BY <1>a DEF Return, DomainsInv, NoHold
  <1>e. hold[t].store \/ keep[t].store => StoreLives
    BY DEF StoreLives
  <1> USE <1>a, <1>e DEF DomainsInv
  <1>1. CASE Call(t)
    BY <1>1 DEF Call
  <1>2. CASE Drop(t)
    BY <1>2, DropsOnly DEF Drop
  <1>3. CASE SetPreferred(t)
    BY <1>3 DEF SetPreferred
  <1>4. CASE FindStore(t)
    BY <1>4, <1>c DEF FindStore
  <1>5. CASE NewStore(t)
    BY <1>5 DEF NewStore
  <1>6. CASE SetStore(t)
    BY <1>6 DEF SetStore
  <1>7. CASE FindLinear(t)
    BY <1>7, StoreSetHolds DEF FindLinear, Holds
  <1>8. CASE UseStore(t)
    BY <1>8, StoreSetHolds DEF UseStore
  <1>9. CASE KeepStore(t)
    BY <1>9, <1>c DEF KeepStore, AliveOf, UsePlaces, Keeps
  <1>10. CASE FetchQueue(t)
    BY <1>10 DEF FetchQueue, Holds
  <1>11. CASE FetchLinear(t)
    BY <1>11 DEF FetchLinear, Holds
  <1>12. CASE NewLinear(t)
    BY <1>12 DEF NewLinear
  <1>13. CASE KeepAllocator(t)
    BY <1>13, <1>c DEF KeepAllocator, Keeps
  <1>14. CASE BlockPool(t)
    BY <1>14 DEF BlockPool
  <1>15. CASE FindPool(t)
    BY <1>15, <1>c DEF FindPool, Keeps
  <1>16. CASE MakePool(t)
    BY <1>16, <1>c DEF MakePool, Keeps
  <1>17. CASE Visit(t)
    BY <1>17 DEF Visit
  <1>18. CASE Visited(t)
    BY <1>18, <1>c DEF Visited
  <1>19. CASE LoadModule(t)
    BY <1>19 DEF LoadModule, Holds
  <1>20. CASE InitModule(t)
    BY <1>20 DEF InitModule
  <1>21. CASE VisitModule(t)
    BY <1>21 DEF VisitModule, Holds
  <1>22. CASE MakeComponent(t)
    BY <1>22, <1>c DEF MakeComponent, Keeps
  <1> QED
    BY <1>1, <1>2, <1>3, <1>4, <1>5, <1>6, <1>7, <1>8, <1>9, <1>10, <1>11, <1>12, <1>13,
       <1>14, <1>15, <1>16, <1>17, <1>18, <1>19, <1>20, <1>21, <1>22 DEF Step

\* None lives that did not before.
LEMMA StoreStays ==
  ASSUME NEW t \in Threads, Call(t) \/ Drop(t) \/ Step(t), PlacesInv, ValuesInv, AliveInv,
         ~AllocatorStore(t), StoreLives'
  PROVE  StoreLives
  <1>1. \A u \in Threads : u # t => hold'[u] = hold[u] /\ keep'[u] = keep[u]
    BY OthersStay DEF PlacesInv
  <1>2. hold'[t].store \/ keep'[t].store => StoreLives
    BY StoreOfThread
  <1> QED
    BY <1>1, <1>2 DEF StoreLives

\* Only FetchLinear makes a linear allocator: a client and a pool get one that the
\* call has.
LEMMA LinearOfThread ==
  ASSUME NEW t \in Threads, Call(t) \/ Drop(t) \/ Step(t), PlacesInv, ValuesInv, AliveInv,
         ~FetchLinear(t),
         \/ "linear" \in hold'[t].allocs \cup keep'[t].allocs
         \/ \E p \in keep'[t].pools : p.kind = "linear"
  PROVE  AllocLives("linear")
  <1>a. /\ DomainsInv /\ hold[t] \in Holds /\ keep[t] \in Keeps(t) /\ AliveOf(t)
    BY DEF PlacesInv, ValuesInv, AliveInv
  <1>c. Return(t) => hold'[t].allocs = {}
    BY <1>a DEF Return, DomainsInv, NoHold
  <1>e. ("linear" \in hold[t].allocs \cup keep[t].allocs
          \/ \E u \in Threads : \E p \in keep[u].pools : p.kind = "linear") => AllocLives("linear")
    BY DEF AllocLives, Pools
  <1>f. hold'[t].allocs \subseteq hold[t].allocs /\ keep'[t] = keep[t] => AllocLives("linear")
    BY <1>e
  <1>g. (/\ hold'[t].allocs = {} /\ keep'[t].allocs \subseteq keep[t].allocs
         /\ keep'[t].pools \subseteq keep[t].pools)
          => AllocLives("linear")
    BY <1>e
  <1>1. CASE Call(t)
    BY <1>1, <1>f DEF Call
  <1>2. CASE Drop(t)
    <2>1. /\ keep'[t].allocs \subseteq keep[t].allocs /\ keep'[t].pools \subseteq keep[t].pools
          /\ hold' = hold
      BY <1>2, <1>a, DropsOnly DEF Drop, DomainsInv
    <2> QED
      BY <1>e, <2>1
  <1>3. CASE SetPreferred(t)
    BY <1>3, <1>f DEF SetPreferred
  <1>4. CASE FindStore(t)
    <2>1. CASE Return(t)
      BY <1>4, <1>c, <1>f, <2>1 DEF FindStore
    <2>2. CASE ~Return(t)
      <3>1. hold' = [hold EXCEPT ![t].store = TRUE] /\ keep' = keep
        BY <1>4, <2>2 DEF FindStore
      <3>2. hold'[t].allocs = hold[t].allocs
        BY <1>a, <3>1 DEF DomainsInv, Holds
      <3> QED
        BY <1>f, <3>1, <3>2
    <2> QED
      BY <2>1, <2>2
  <1>5. CASE AllocatorStore(t)
    BY <1>5, <1>a, <1>f DEF AllocatorStore, Holds, DomainsInv
  <1>6. CASE NewStore(t)
    BY <1>6, <1>f DEF NewStore
  <1>7. CASE SetStore(t)
    BY <1>7, <1>f DEF SetStore
  <1>8. CASE FindLinear(t)
    <2>1. CASE AllocLives("linear")
      BY <2>1
    <2>2. CASE ~AllocLives("linear")
      BY <1>8, <1>a, <1>f, <2>2, StoreSetHolds DEF FindLinear, DomainsInv
    <2> QED
      BY <2>1, <2>2
  <1>9. CASE UseStore(t)
    BY <1>9, <1>a, <1>f, StoreSetHolds DEF UseStore, DomainsInv
  <1>10. CASE KeepStore(t)
    <2>1. keep'[t].allocs = keep[t].allocs /\ keep'[t].pools = keep[t].pools /\ Return(t)
      BY <1>10, <1>a DEF KeepStore, Keeps, DomainsInv
    <2> QED
      BY <1>c, <1>g, <2>1
  <1>11. CASE FetchQueue(t)
    BY <1>11, <1>a, <1>e DEF FetchQueue, Holds, DomainsInv
  <1>12. CASE NewLinear(t)
    BY <1>12, <1>f DEF NewLinear
  <1>13. CASE KeepAllocator(t)
    <2>1. /\ keep'[t].allocs = keep[t].allocs \cup {arg[t].kind} /\ keep'[t].pools = keep[t].pools
          /\ Return(t) /\ pc[t] = "KeepAllocator"
      BY <1>13, <1>a DEF KeepAllocator, Keeps, DomainsInv
    <2>2. arg[t].kind \in hold[t].allocs
      BY <1>a, <2>1 DEF AliveOf
    <2> QED
      BY <1>c, <1>e, <2>1, <2>2
  <1>14. CASE BlockPool(t)
    BY <1>14, <1>f DEF BlockPool
  <1>15. CASE FindPool(t)
    <2>1. CASE Return(t)
      <3>1. keep'[t].allocs = keep[t].allocs /\ keep'[t].pools \subseteq keep[t].pools \cup Pools
        BY <1>15, <1>a, <2>1 DEF FindPool, Keeps, DomainsInv, Cached
      <3> QED
        BY <1>c, <1>e, <2>1, <3>1 DEF Pools
    <2>2. CASE ~Return(t)
      BY <1>15, <1>f, <2>2 DEF FindPool
    <2> QED
      BY <2>1, <2>2
  <1>16. CASE MakePool(t)
    <2> DEFINE new == [id |-> arg[t].id, kind |-> arg[t].kind, owner |-> arg[t].comp, n |-> made]
    <2>1. /\ keep'[t].allocs = keep[t].allocs /\ keep'[t].pools = keep[t].pools \cup {new}
          /\ Return(t) /\ pc[t] = "MakePool" /\ new.kind = arg[t].kind
      BY <1>16, <1>a DEF MakePool, Keeps, DomainsInv
    <2>2. arg[t].kind \in hold[t].allocs
      BY <1>a, <2>1 DEF AliveOf
    <2> HIDE DEF new
    <2> QED
      BY <1>c, <1>e, <2>1, <2>2
  <1>17. CASE Visit(t)
    BY <1>17, <1>f DEF Visit
  <1>18. CASE Visited(t)
    BY <1>18, <1>c, <1>f DEF Visited
  <1>19. CASE LoadModule(t)
    BY <1>19, <1>a, <1>f DEF LoadModule, Holds, DomainsInv
  <1>20. CASE InitModule(t)
    BY <1>20, <1>f DEF InitModule
  <1>21. CASE VisitModule(t)
    BY <1>21, <1>a, <1>f DEF VisitModule, Holds, DomainsInv
  <1>22. CASE MakeComponent(t)
    <2>1. keep'[t].allocs = keep[t].allocs /\ keep'[t].pools = keep[t].pools /\ Return(t)
      BY <1>22, <1>a DEF MakeComponent, Keeps, DomainsInv
    <2> QED
      BY <1>c, <1>g, <2>1
  <1> QED
    BY <1>1, <1>2, <1>3, <1>4, <1>5, <1>6, <1>7, <1>8, <1>9, <1>10, <1>11, <1>12, <1>13,
       <1>14, <1>15, <1>16, <1>17, <1>18, <1>19, <1>20, <1>21, <1>22 DEF Step

\* So with the linear allocator.
LEMMA LinearStays ==
  ASSUME NEW t \in Threads, Call(t) \/ Drop(t) \/ Step(t), PlacesInv, ValuesInv, AliveInv,
         ~FetchLinear(t), AllocLives("linear")'
  PROVE  AllocLives("linear")
  <1>1. \A u \in Threads : u # t => hold'[u] = hold[u] /\ keep'[u] = keep[u]
    BY OthersStay DEF PlacesInv
  <1>2. ("linear" \in hold'[t].allocs \cup keep'[t].allocs
          \/ \E p \in keep'[t].pools : p.kind = "linear") => AllocLives("linear")
    BY LinearOfThread
  <1>3. \/ \E u \in Threads : "linear" \in hold'[u].allocs \cup keep'[u].allocs
        \/ \E u \in Threads : \E p \in keep'[u].pools : p.kind = "linear"
    BY DEF AllocLives, Pools
  <1>4. \A u \in Threads :
          u # t /\ ("linear" \in hold'[u].allocs \cup keep'[u].allocs
                     \/ \E p \in keep'[u].pools : p.kind = "linear") => AllocLives("linear")
    BY <1>1 DEF AllocLives, Pools
  <1> QED
    BY <1>2, <1>3, <1>4

\* Who changes the preference and the store, and who leaves the places in between.
LEMMA StoreChanges ==
  ASSUME NEW t \in Threads, Call(t) \/ Drop(t) \/ Step(t), DomainsInv
  PROVE  /\ preferred' = preferred \/ (lock["set preferred"] = None /\ pc'[t] = "FindStore")
         /\ componentStore' = componentStore
              \/ (lock["set store"] = None /\ pc[t] = "SetStore" /\ pc'[t] = "FindLinear"
                   /\ componentStore' = want[t])
         /\ mapper' = mapper \/ (pc[t] \in {"UseStore", "NewLinear"} /\ mapper' = want[t])
         /\ pc[t] = "FindStore" => lock["allocator store"] = None
         /\ pc[t] = "FindLinear" => lock["linear"] = None
         /\ pc[t] = "NewStore" => pc'[t] = "SetStore"
         /\ pc[t] = "SetStore" => pc'[t] = "FindLinear" /\ componentStore' = want[t]
         /\ pc[t] \in {"UseStore", "NewLinear"} => mapper' = want[t]
         /\ pc'[t] # "idle" \/ pc[t] # "FindStore" \/ ~StoreLives
         /\ pc[t] = "FindStore" => pc'[t] \in {"SetStore", "idle"}
         /\ pc[t] = "FindLinear" /\ AllocLives("linear") => pc'[t] = "UseStore"
  <1> USE DEF DomainsInv
  <1>1. CASE Call(t)
    BY <1>1 DEF Call
  <1>2. CASE Drop(t)
    BY <1>2 DEF Drop
  <1>3. CASE SetPreferred(t)
    BY <1>3 DEF SetPreferred
  <1>4. CASE FindStore(t)
    BY <1>4 DEF FindStore, Return
  <1>5. CASE AllocatorStore(t)
    BY <1>5 DEF AllocatorStore, WithStore
  <1>6. CASE NewStore(t)
    BY <1>6 DEF NewStore
  <1>7. CASE SetStore(t)
    BY <1>7 DEF SetStore
  <1>8. CASE FindLinear(t)
    BY <1>8 DEF FindLinear, StoreSet, Return, WithStore
  <1>9. CASE UseStore(t)
    BY <1>9 DEF UseStore, StoreSet, Return, WithStore
  <1>10. CASE KeepStore(t)
    BY <1>10 DEF KeepStore, Return
  <1>11. CASE FetchQueue(t)
    BY <1>11 DEF FetchQueue
  <1>12. CASE FetchLinear(t)
    BY <1>12 DEF FetchLinear
  <1>13. CASE NewLinear(t)
    BY <1>13 DEF NewLinear
  <1>14. CASE KeepAllocator(t)
    BY <1>14 DEF KeepAllocator, Return
  <1>15. CASE BlockPool(t)
    BY <1>15 DEF BlockPool
  <1>16. CASE FindPool(t)
    BY <1>16 DEF FindPool, Return
  <1>17. CASE MakePool(t)
    BY <1>17 DEF MakePool, Return
  <1>18. CASE Visit(t)
    BY <1>18 DEF Visit
  <1>19. CASE Visited(t)
    BY <1>19 DEF Visited, Return
  <1>20. CASE LoadModule(t)
    BY <1>20 DEF LoadModule
  <1>21. CASE InitModule(t)
    BY <1>21 DEF InitModule
  <1>22. CASE VisitModule(t)
    BY <1>22 DEF VisitModule
  <1>23. CASE MakeComponent(t)
    BY <1>23 DEF MakeComponent, Return
  <1> QED
    BY <1>1, <1>2, <1>3, <1>4, <1>5, <1>6, <1>7, <1>8, <1>9, <1>10, <1>11, <1>12, <1>13,
       <1>14, <1>15, <1>16, <1>17, <1>18, <1>19, <1>20, <1>21, <1>22, <1>23 DEF Step

\* One thread at a time makes the allocator store or sets its component store.
Setting == {"NewStore"} \cup SetPlaces

SettingInv == \A t, u \in Threads : pc[t] \in Setting /\ pc[u] \in Setting => t = u

\* The other steps only go on.
LEMMA SettingStays ==
  ASSUME NEW t \in Threads, Call(t) \/ Drop(t) \/ Step(t), DomainsInv,
         ~FindStore(t), ~AllocatorStore(t)
  PROVE  /\ pc'[t] \in Setting => pc[t] \in Setting
         /\ pc'[t] = "SetStore" => pc[t] \in {"SetStore", "NewStore"}
         /\ pc'[t] = "UseStore" => pc[t] \in {"UseStore", "FindLinear"}
  <1> USE DEF DomainsInv, Setting, SetPlaces
  <1>1. CASE Call(t)
    <2>1. PICK r \in Requests(t) : arg' = [arg EXCEPT ![t] = r] /\ pc' = [pc EXCEPT ![t] = Entry(r)]
      BY <1>1 DEF Call
    <2>2. pc'[t] \in {"SetPreferred", "AllocatorStore", "BlockPool", "Visit"}
      BY <2>1 DEF Entry
    <2> QED
      BY <2>2
  <1>2. CASE Drop(t)
    BY <1>2 DEF Drop
  <1>3. CASE SetPreferred(t)
    BY <1>3 DEF SetPreferred
  <1>4. CASE NewStore(t)
    BY <1>4 DEF NewStore
  <1>5. CASE SetStore(t)
    BY <1>5 DEF SetStore
  <1>6. CASE FindLinear(t)
    BY <1>6 DEF FindLinear, StoreSet, Return, WithStore
  <1>7. CASE UseStore(t)
    BY <1>7 DEF UseStore, StoreSet, Return, WithStore
  <1>8. CASE KeepStore(t)
    BY <1>8 DEF KeepStore, Return
  <1>9. CASE FetchQueue(t)
    BY <1>9 DEF FetchQueue
  <1>10. CASE FetchLinear(t)
    BY <1>10 DEF FetchLinear
  <1>11. CASE NewLinear(t)
    BY <1>11 DEF NewLinear
  <1>12. CASE KeepAllocator(t)
    BY <1>12 DEF KeepAllocator, Return
  <1>13. CASE BlockPool(t)
    BY <1>13 DEF BlockPool
  <1>14. CASE FindPool(t)
    BY <1>14 DEF FindPool, Return
  <1>15. CASE MakePool(t)
    BY <1>15 DEF MakePool, Return
  <1>16. CASE Visit(t)
    BY <1>16 DEF Visit
  <1>17. CASE Visited(t)
    BY <1>17 DEF Visited, Return
  <1>18. CASE LoadModule(t)
    BY <1>18 DEF LoadModule
  <1>19. CASE InitModule(t)
    BY <1>19 DEF InitModule
  <1>20. CASE VisitModule(t)
    BY <1>20 DEF VisitModule
  <1>21. CASE MakeComponent(t)
    BY <1>21 DEF MakeComponent, Return
  <1> QED
    BY <1>1, <1>2, <1>3, <1>4, <1>5, <1>6, <1>7, <1>8, <1>9, <1>10, <1>11, <1>12, <1>13,
       <1>14, <1>15, <1>16, <1>17, <1>18, <1>19, <1>20, <1>21 DEF Step

\* A thread gets there only when no other is: the two ways in have their mutexes,
\* and a preference finds a store only when it is published.
LEMMA SettingOfThread ==
  ASSUME NEW t \in Threads, Call(t) \/ Drop(t) \/ Step(t),
         PlacesInv, LockInv, ValuesInv, AliveInv, SettingInv
  PROVE  pc'[t] \in Setting => pc[t] \in Setting \/ \A u \in Threads : pc[u] \notin Setting
  <1>a. DomainsInv /\ None \notin Threads /\ \A u \in Threads : Locks(u)
    BY NoneIsNoThread DEF PlacesInv, LockInv
  <1>b. lock["allocator store"] = None => \A u \in Threads : pc[u] \in Setting => arg[u].call = "prefer"
    <2>1. ASSUME lock["allocator store"] = None, NEW u \in Threads, pc[u] \in Setting
          PROVE  arg[u].call = "prefer"
      <3>1. lock["allocator store"] # u /\ Locks(u)
        BY <1>a, <2>1
      <3> QED
        BY <2>1, <3>1 DEF Locks, Setting
    <2> QED
      BY <2>1
  <1>1. CASE FindStore(t)
    <2>1. lock["allocator store"] = None /\ lock["set preferred"] = t
      BY <1>1, <1>a DEF FindStore, Locks
    <2>2. \A u \in Threads : pc[u] \in SetPlaces /\ arg[u].call = "prefer" => u = t
      BY <1>a, <2>1 DEF Locks
    <2>3. \A u \in Threads : pc[u] # "NewStore"
      BY <1>a, <2>1 DEF Locks
    <2>4. pc[t] = "FindStore"
      BY <1>1 DEF FindStore
    <2> QED
      BY <1>b, <2>1, <2>2, <2>3, <2>4 DEF Setting, SetPlaces
  <1>2. CASE AllocatorStore(t)
    <2>1. lock["allocator store"] = None /\ (StoreLives => pc'[t] \in {"KeepStore", "FindPool", "Fetch"})
      BY <1>2, <1>a DEF AllocatorStore, WithStore, DomainsInv
    <2>2. \A u \in Threads : pc[u] \in Setting => hold[u].store
      BY DEF AliveInv, AliveOf, UsePlaces, Setting
    <2> QED
      BY <2>1, <2>2 DEF StoreLives, Setting, SetPlaces
  <1>3. CASE ~FindStore(t) /\ ~AllocatorStore(t)
    <2>1. pc'[t] \in Setting => pc[t] \in Setting
      BY <1>3, <1>a, SettingStays
    <2> QED
      BY <2>1
  <1> QED
    BY <1>1, <1>2, <1>3

\* Every step keeps it to one thread.
LEMMA SettingKept ==
  ASSUME NEW t \in Threads, Call(t) \/ Drop(t) \/ Step(t),
         PlacesInv, LockInv, ValuesInv, AliveInv, SettingInv
  PROVE  SettingInv'
  <1>1. \A u \in Threads : u # t => pc'[u] = pc[u]
    BY OthersStay DEF PlacesInv
  <1>2. pc'[t] \in Setting => pc[t] \in Setting \/ \A u \in Threads : pc[u] \notin Setting
    BY SettingOfThread
  <1> QED
    BY <1>1, <1>2 DEF SettingInv

\* The store a thread is about to use is the one preferred last, or another thread
\* will set it after this one.
WantOf(t) ==
  /\ lock["set preferred"] = t => want[t] = preferred /\ preferred # None
  /\ pc[t] = "SetStore" /\ arg[t].call # "prefer" =>
       want[t] = GetPreferredCodec2ComponentStore \/ \E u \in Threads : pc[u] = "FindStore"
  /\ pc[t] \in {"FindLinear", "UseStore"} => want[t] = componentStore
  /\ pc[t] = "NewLinear" => want[t] = componentStore \/ \E u \in Threads : pc[u] = "FindLinear"

WantInv == \A t \in Threads : WantOf(t)

\* A step of another thread: who changes what a thread wants is behind it in the
\* row, and stays there until the thread is done.
LEMMA WantOfOthers ==
  ASSUME NEW t \in Threads, Call(t) \/ Drop(t) \/ Step(t), PlacesInv, LockInv, WantInv,
         NEW u \in Threads, u # t
  PROVE  WantOf(u)'
  <1>a. /\ DomainsInv /\ WantOf(u) /\ Locks(u) /\ None \notin Threads
        /\ "set preferred" \in Mutexes
    BY NoneIsNoThread DEF PlacesInv, WantInv, LockInv, Mutexes
  <1>b. /\ pc'[u] = pc[u] /\ arg'[u] = arg[u] /\ want'[u] = want[u]
        /\ lock'["set preferred"] = u <=> lock["set preferred"] = u
        /\ \A v \in Threads : v # t => pc'[v] = pc[v]
    BY <1>a, OthersStay, LocksOfOthers
  <1>c. /\ preferred' = preferred \/ (lock["set preferred"] = None /\ pc'[t] = "FindStore")
        /\ componentStore' = componentStore \/ (lock["set store"] = None /\ pc'[t] = "FindLinear")
        /\ pc[t] = "FindStore" => lock["allocator store"] = None
        /\ pc[t] = "FindLinear" => lock["linear"] = None
    BY <1>a, StoreChanges
  <1>1. lock["set preferred"] = u => preferred' = preferred
    BY <1>a, <1>c
  <1>2. pc[u] = "SetStore" /\ arg[u].call # "prefer" =>
          \/ want[u] = GetPreferredCodec2ComponentStore' \/ \E v \in Threads : pc'[v] = "FindStore"
    <2>1. ASSUME pc[u] = "SetStore", arg[u].call # "prefer" PROVE pc[t] # "FindStore"
      BY <1>a, <1>c, <2>1 DEF Locks, SetPlaces
    <2>2. preferred' = preferred => GetPreferredCodec2ComponentStore' = GetPreferredCodec2ComponentStore
      BY DEF GetPreferredCodec2ComponentStore
    <2> QED
      BY <1>a, <1>b, <1>c, <2>1, <2>2 DEF WantOf
  <1>3. pc[u] \in {"FindLinear", "UseStore"} => componentStore' = componentStore
    BY <1>a, <1>c DEF Locks
  <1>4. pc[u] = "NewLinear" =>
          want[u] = componentStore' \/ \E v \in Threads : pc'[v] = "FindLinear"
    <2>1. ASSUME pc[u] = "NewLinear" PROVE pc[t] # "FindLinear"
      BY <1>a, <1>c, <2>1 DEF Locks
    <2> QED
      BY <1>a, <1>b, <1>c, <2>1 DEF WantOf
  <1> QED
    BY <1>a, <1>b, <1>1, <1>2, <1>3, <1>4 DEF WantOf

\* The other steps lead elsewhere.
LEMMA WantPlaces ==
  ASSUME NEW t \in Threads, Call(t) \/ Drop(t) \/ Step(t), DomainsInv,
         ~SetPreferred(t), ~FindStore(t),
         ~NewStore(t), ~SetStore(t), ~FindLinear(t), ~FetchLinear(t)
  PROVE  pc'[t] \notin SetPlaces \cup {"FindStore", "NewLinear"}
  <1> USE DEF DomainsInv, SetPlaces
  <1>1. CASE Call(t)
    <2>1. PICK r \in Requests(t) : arg' = [arg EXCEPT ![t] = r] /\ pc' = [pc EXCEPT ![t] = Entry(r)]
      BY <1>1 DEF Call
    <2>2. pc'[t] \in {"SetPreferred", "AllocatorStore", "BlockPool", "Visit"}
      BY <2>1 DEF Entry
    <2> QED
      BY <2>2
  <1>2. CASE Drop(t)
    BY <1>2 DEF Drop
  <1>3. CASE AllocatorStore(t)
    BY <1>3 DEF AllocatorStore, WithStore
  <1>4. CASE UseStore(t)
    BY <1>4 DEF UseStore, StoreSet, Return, WithStore
  <1>5. CASE KeepStore(t)
    BY <1>5 DEF KeepStore, Return
  <1>6. CASE FetchQueue(t)
    BY <1>6 DEF FetchQueue
  <1>7. CASE NewLinear(t)
    BY <1>7 DEF NewLinear
  <1>8. CASE KeepAllocator(t)
    BY <1>8 DEF KeepAllocator, Return
  <1>9. CASE BlockPool(t)
    BY <1>9 DEF BlockPool
  <1>10. CASE FindPool(t)
    BY <1>10 DEF FindPool, Return
  <1>11. CASE MakePool(t)
    BY <1>11 DEF MakePool, Return
  <1>12. CASE Visit(t)
    BY <1>12 DEF Visit
  <1>13. CASE Visited(t)
    BY <1>13 DEF Visited, Return
  <1>14. CASE LoadModule(t)
    BY <1>14 DEF LoadModule
  <1>15. CASE InitModule(t)
    BY <1>15 DEF InitModule
  <1>16. CASE VisitModule(t)
    BY <1>16 DEF VisitModule
  <1>17. CASE MakeComponent(t)
    BY <1>17 DEF MakeComponent, Return
  <1> QED
    BY <1>1, <1>2, <1>3, <1>4, <1>5, <1>6, <1>7, <1>8, <1>9, <1>10, <1>11, <1>12, <1>13,
       <1>14, <1>15, <1>16, <1>17 DEF Step

\* A thread's own step.
LEMMA WantOfThread ==
  ASSUME NEW t \in Threads, Call(t) \/ Drop(t) \/ Step(t), PlacesInv, LockInv, WantInv
  PROVE  WantOf(t)'
  <1>a. DomainsInv /\ WantOf(t) /\ Locks(t) /\ Locks(t)' /\ Reached(t) /\ None \notin Stores
    BY LocksOfThread, StoreAssumption DEF PlacesInv, WantInv, LockInv
  <1>b. GetPreferredCodec2ComponentStore' = IF preferred' = None THEN Platform ELSE preferred'
    BY DEF GetPreferredCodec2ComponentStore
  <1>c. Return(t) => pc'[t] = "idle"
    BY <1>a DEF Return, DomainsInv
  <1>d. pc'[t] \notin SetPlaces \cup {"FindStore", "NewLinear"} => WantOf(t)'
    BY <1>a DEF WantOf, Locks, SetPlaces
  <1>1. CASE SetPreferred(t)
    <2>1. pc'[t] = "FindStore" /\ preferred' = arg[t].store /\ want'[t] = arg[t].store
      BY <1>1, <1>a DEF SetPreferred, DomainsInv
    <2>2. arg[t].store \in Stores
      BY <1>1, RequestAt DEF SetPreferred
    <2>3. preferred' # None
      BY <1>a, <2>1, <2>2
    <2> QED
      BY <2>1, <2>3 DEF WantOf
  <1>2. CASE FindStore(t)
    <2>1. CASE Return(t)
      BY <1>c, <1>d, <2>1 DEF SetPlaces
    <2>2. CASE ~Return(t)
      <3>1. pc'[t] = "SetStore" /\ UNCHANGED <<arg, want, lock, preferred>> /\ pc[t] = "FindStore"
        BY <1>2, <1>a, <2>2 DEF FindStore, DomainsInv
      <3>2. arg[t].call = "prefer"
        BY <3>1, RequestAt
      <3> QED
        BY <1>a, <3>1, <3>2 DEF WantOf
    <2> QED
      BY <2>1, <2>2
  <1>3. CASE NewStore(t)
    <2>1. /\ pc'[t] = "SetStore" /\ UNCHANGED <<arg, lock, preferred>> /\ pc[t] = "NewStore"
          /\ want'[t] = GetPreferredCodec2ComponentStore
      BY <1>3, <1>a DEF NewStore, DomainsInv
    <2>2. lock["set preferred"] # t
      BY <1>a, <2>1 DEF Locks, SetPlaces
    <2> QED
      BY <1>b, <2>1, <2>2 DEF WantOf, GetPreferredCodec2ComponentStore
  <1>4. CASE SetStore(t)
    <2>1. /\ pc'[t] = "FindLinear" /\ UNCHANGED <<arg, want, preferred>> /\ pc[t] = "SetStore"
          /\ componentStore' = want[t] /\ lock'["set preferred"] = lock["set preferred"]
      BY <1>4, <1>a DEF SetStore, DomainsInv, LockInv, Mutexes
    <2> QED
      BY <1>a, <2>1 DEF WantOf
  <1>5. CASE FindLinear(t)
    <2>1. CASE AllocLives("linear")
      <3>1. /\ pc'[t] = "UseStore" /\ UNCHANGED <<arg, want, lock, preferred, componentStore>>
            /\ pc[t] = "FindLinear"
        BY <1>5, <1>a, <2>1 DEF FindLinear, DomainsInv
      <3> QED
        BY <1>a, <3>1 DEF WantOf
    <2>2. CASE ~AllocLives("linear")
      <3>1. pc'[t] \in {"idle", "KeepStore", "FindPool", "Fetch"}
        BY <1>5, <1>a, <1>c, <2>2 DEF FindLinear, StoreSet, WithStore, DomainsInv
      <3> QED
        BY <1>d, <3>1 DEF SetPlaces
    <2> QED
      BY <2>1, <2>2
  <1>6. CASE FetchLinear(t)
    <2>1. /\ pc'[t] \in {"NewLinear", "KeepAllocator", "MakePool"}
          /\ componentStore' = componentStore
          /\ pc'[t] = "NewLinear" => want'[t] = componentStore
      BY <1>6, <1>a DEF FetchLinear, DomainsInv
    <2>2. lock'["set preferred"] # t
      BY <1>a, <2>1 DEF Locks, SetPlaces
    <2> QED
      BY <2>1, <2>2 DEF WantOf
  <1>7. CASE /\ ~SetPreferred(t) /\ ~FindStore(t) /\ ~NewStore(t) /\ ~SetStore(t)
             /\ ~FindLinear(t) /\ ~FetchLinear(t)
    BY <1>7, <1>a, <1>d, WantPlaces
  <1> QED
    BY <1>1, <1>2, <1>3, <1>4, <1>5, <1>6, <1>7

\* Once nobody is in between, the store that lives asks the preferred store, and
\* the linear allocator that lives the same.
CurrentInv ==
  /\ StoreLives /\ (\A t \in Threads : pc[t] \notin {"FindStore", "NewStore", "SetStore"}) =>
       componentStore = GetPreferredCodec2ComponentStore
  /\ AllocLives("linear") /\ (\A t \in Threads : pc[t] \notin {"FindLinear", "UseStore", "NewLinear"}) =>
       mapper = componentStore

\* The component store.
LEMMA StoreIsCurrent ==
  ASSUME NEW t \in Threads, Call(t) \/ Drop(t) \/ Step(t),
         PlacesInv, LockInv, ValuesInv, AliveInv, WantInv, CurrentInv,
         StoreLives', \A u \in Threads : pc'[u] \notin {"FindStore", "NewStore", "SetStore"}
  PROVE  componentStore' = GetPreferredCodec2ComponentStore'
  <1>a. DomainsInv /\ WantOf(t) /\ Locks(t)
    BY DEF PlacesInv, WantInv, LockInv
  <1>b. \A u \in Threads : u # t => pc'[u] = pc[u]
    BY <1>a, OthersStay
  <1>c. /\ preferred' = preferred
        /\ componentStore' = componentStore \/ (pc[t] = "SetStore" /\ componentStore' = want[t])
        /\ pc[t] = "NewStore" => pc'[t] = "SetStore"
        /\ pc[t] = "SetStore" => pc'[t] = "FindLinear"
        /\ pc[t] = "FindStore" => pc'[t] \in {"SetStore", "idle"}
        /\ pc'[t] # "idle" \/ pc[t] # "FindStore" \/ ~StoreLives
    BY <1>a, StoreChanges
  <1>d. GetPreferredCodec2ComponentStore' = GetPreferredCodec2ComponentStore
    BY <1>c DEF GetPreferredCodec2ComponentStore
  <1>e. StoreLives
    <2>1. CASE AllocatorStore(t)
      BY <1>a, <2>1 DEF AllocatorStore, DomainsInv
    <2>2. CASE ~AllocatorStore(t)
      BY <2>2, StoreStays
    <2> QED
      BY <2>1, <2>2
  <1>1. CASE pc[t] = "SetStore"
    <2>1. componentStore' = want[t]
      BY <1>1, <1>a, StoreChanges
    <2>2. CASE arg[t].call = "prefer"
      BY <1>1, <1>a, <1>d, <2>1, <2>2 DEF WantOf, Locks, SetPlaces, GetPreferredCodec2ComponentStore
    <2>3. CASE arg[t].call # "prefer"
      <3>1. \A u \in Threads : pc[u] # "FindStore"
        BY <1>1, <1>b
      <3> QED
        BY <1>1, <1>a, <1>d, <2>1, <2>3, <3>1 DEF WantOf
    <2> QED
      BY <2>2, <2>3
  <1>2. CASE pc[t] # "SetStore"
    <2>1. \A u \in Threads : pc[u] \notin {"FindStore", "NewStore", "SetStore"}
      BY <1>2, <1>b, <1>c, <1>e
    <2> QED
      BY <1>2, <1>c, <1>d, <1>e, <2>1 DEF CurrentInv
  <1> QED
    BY <1>1, <1>2

\* The linear allocator's usage mapper.
LEMMA MapperOfThread ==
  ASSUME NEW t \in Threads, Call(t) \/ Drop(t) \/ Step(t),
         PlacesInv, LockInv, ValuesInv, AliveInv, WantInv, CurrentInv,
         AllocLives("linear")', \A u \in Threads : pc'[u] \notin {"FindLinear", "UseStore", "NewLinear"}
  PROVE  mapper' = componentStore'
  <1>a. DomainsInv /\ WantOf(t)
    BY DEF PlacesInv, WantInv
  <1>b. \A u \in Threads : u # t => pc'[u] = pc[u]
    BY <1>a, OthersStay
  <1>c. /\ componentStore' = componentStore
        /\ mapper' = mapper \/ (pc[t] \in {"UseStore", "NewLinear"} /\ mapper' = want[t])
        /\ pc[t] = "FindLinear" /\ AllocLives("linear") => pc'[t] = "UseStore"
    BY <1>a, StoreChanges
  <1>d. AllocLives("linear")
    <2>1. CASE FetchLinear(t)
      BY <1>a, <2>1 DEF FetchLinear, DomainsInv
    <2>2. CASE ~FetchLinear(t)
      BY <2>2, LinearStays
    <2> QED
      BY <2>1, <2>2
  <1>1. CASE pc[t] \in {"UseStore", "NewLinear"}
    <2>1. mapper' = want[t]
      BY <1>1, <1>a, StoreChanges
    <2>2. \A u \in Threads : pc[u] # "FindLinear"
      BY <1>1, <1>b
    <2> QED
      BY <1>1, <1>a, <1>c, <2>1, <2>2 DEF WantOf
  <1>2. CASE pc[t] \notin {"UseStore", "NewLinear"}
    <2>1. \A u \in Threads : pc[u] \notin {"FindLinear", "UseStore", "NewLinear"}
      BY <1>2, <1>b, <1>c, <1>d
    <2> QED
      BY <1>2, <1>c, <1>d, <2>1 DEF CurrentInv
  <1> QED
    BY <1>1, <1>2

--------------------------------------------------------------------------------
(* The invariant *)

StoreInv ==
  /\ PlacesInv /\ LockInv /\ NamesInv /\ ValuesInv
  /\ PoolsInv /\ ModulesInv /\ ListInv
  /\ AliveInv /\ SettingInv /\ WantInv /\ CurrentInv

\* Nobody is in a call, nothing is made.
LEMMA StoreStarts ==
  Init => StoreInv
  <1> SUFFICES ASSUME Init PROVE StoreInv
    OBVIOUS
  <1>a. \A t \in Threads :
          /\ pc[t] = "idle" /\ arg[t] = NoArg /\ arg[t].call = "none" /\ want[t] = None
          /\ hold[t] = NoHold /\ keep[t] = NoKeep /\ returned[t] = <<None>>
    BY DEF Init, NoArg
  <1>b. None \notin Threads /\ None \notin Names /\ Names # {} /\ MaxCalls \in Nat
    BY StoreAssumption
  <1>c. \A m \in Mutexes : lock[m] = None
    BY DEF Init
  <1>1. PlacesInv
    BY <1>a DEF PlacesInv, DomainsInv, Request, Reached, Init, PoolCalls, ListCalls
  <1>2. LockInv
    <2>1. lock \in [Mutexes -> Threads \cup {None}]
      BY DEF Init
    <2>2. \A t \in Threads : Locks(t)
      BY <1>a, <1>b, <1>c DEF Locks, Mutexes, SetPlaces, PoolCalls
    <2> QED
      BY <2>1, <2>2 DEF LockInv
  <1>3. NamesInv
    BY <1>a DEF NamesInv, NameKnown, LoadPlaces
  <1>4. ValuesInv
    <2>1. Globals
      <3>1. NoModule \in Modules /\ <<>> \in Seq(Names)
        BY DEF Modules
      <3>2. /\ calls \in 0 .. MaxCalls /\ seqId \in Nat /\ made \in Nat /\ modules \in Nat
            /\ components \in Nat
        BY <1>b DEF Init, PLATFORM_START
      <3> QED
        BY <3>1, <3>2 DEF Init, Globals
    <2>2. \A t \in Threads : hold[t] \in Holds /\ keep[t] \in Keeps(t) /\ CallTyped(t)
      <3>1. NoHold \in Holds
        BY DEF NoHold, Holds, Modules
      <3>2. \A t \in Threads : NoKeep \in Keeps(t)
        BY DEF NoKeep, Keeps
      <3>3. \A t \in Threads : CallTyped(t)
        BY <1>a DEF CallTyped, PoolCalls
      <3> QED
        BY <1>a, <3>1, <3>2, <3>3
    <2> QED
      BY <2>1, <2>2 DEF ValuesInv
  <1>5. PoolsInv
    <2>1. \A t \in Threads : PoolToMake(t)
      BY <1>b, <1>c DEF PoolToMake, Mutexes
    <2>2. seqId > PLATFORM_START /\ mBlockPools = {} /\ \A t \in Threads : keep[t].pools = {}
      BY <1>a DEF Init, PLATFORM_START, NoKeep
    <2> QED
      BY <2>1, <2>2 DEF PoolsInv
  <1>6. ModulesInv
    <2>1. \A t \in Threads : ModuleOf(t)
      BY <1>a DEF ModuleOf, NoHold, NoModule, Init
    <2>2. \A n \in Names : mModule[n] = NoModule /\ loading[n] = None /\ mModule[n].n <= modules
      BY DEF Init, NoModule
    <2>3. \A t \in Threads : keep[t].comps = {}
      BY <1>a DEF NoKeep
    <2> QED
      BY <1>b, <2>1, <2>2, <2>3 DEF ModulesInv
  <1>7. ListInv
    <2>1. ~visited /\ list = <<>> /\ lock["visit"] = None
      BY <1>c DEF Init, Mutexes
    <2>2. \A t \in Threads : ListOf(t)
      BY <1>a, <1>b, <2>1 DEF ListOf, LoadPlaces
    <2> QED
      BY <2>1, <2>2 DEF ListInv
  <1>8. AliveInv /\ SettingInv
    BY <1>a DEF AliveInv, AliveOf, UsePlaces, SettingInv, Setting, SetPlaces, FetchPlaces
  <1>9. WantInv
    <2>1. lock["set preferred"] = None
      BY <1>c DEF Mutexes
    <2> QED
      BY <1>a, <1>b, <2>1 DEF WantInv, WantOf
  <1>10. CurrentInv
    <2>1. ~StoreLives /\ ~AllocLives("linear")
      BY <1>a DEF StoreLives, AllocLives, Pools, NoHold, NoKeep
    <2> QED
      BY <2>1 DEF CurrentInv
  <1> QED
    BY <1>1, <1>2, <1>3, <1>4, <1>5, <1>6, <1>7, <1>8, <1>9, <1>10 DEF StoreInv

\* What does not depend on the parts above stays with the variables.
LEMMA StoreStutters ==
  ASSUME StoreInv, UNCHANGED vars
  PROVE  PoolsInv' /\ ModulesInv' /\ ListInv' /\ AliveInv' /\ SettingInv' /\ WantInv' /\ CurrentInv'
  <1>a. /\ UNCHANGED <<pc, arg, want, hold, keep, lock, preferred, componentStore, mapper>>
        /\ UNCHANGED <<seqId, mBlockPools>>
        /\ UNCHANGED <<visited, list, mModule, factories, modules, loading, returned>>
    BY DEF vars
  <1>b. Living' = Living /\ \A t \in Threads : Loads(t)' = Loads(t)
    BY <1>a DEF Living, Loads
  <1>1. PoolsInv'
    BY <1>a DEF StoreInv, PoolsInv, PoolToMake
  <1>2. ModulesInv'
    BY <1>a, <1>b DEF StoreInv, ModulesInv, ModuleOf, Published
  <1>3. ListInv'
    BY <1>a DEF StoreInv, ListInv, ListOf
  <1>4. AliveInv' /\ SettingInv'
    BY <1>a DEF StoreInv, AliveInv, AliveOf, SettingInv
  <1>5. WantInv'
    BY <1>a DEF StoreInv, WantInv, WantOf, GetPreferredCodec2ComponentStore
  <1>6. CurrentInv'
    BY <1>a DEF StoreInv, CurrentInv, GetPreferredCodec2ComponentStore, StoreLives,
       AllocLives, Pools
  <1> QED
    BY <1>1, <1>2, <1>3, <1>4, <1>5, <1>6

\* The destruction of a factory touches the modules only.
LEMMA StoreOfDestroy ==
  ASSUME NEW m \in factories, DestroyFactory(m), StoreInv
  PROVE  PoolsInv' /\ ModulesInv' /\ ListInv' /\ AliveInv' /\ SettingInv' /\ WantInv' /\ CurrentInv'
  <1>a. /\ UNCHANGED <<pc, arg, want, hold, keep, lock, preferred, componentStore, mapper>>
        /\ UNCHANGED <<seqId, mBlockPools>>
        /\ UNCHANGED <<visited, list, returned>>
    BY DEF DestroyFactory
  <1>1. PoolsInv'
    BY <1>a DEF StoreInv, PoolsInv, PoolToMake
  <1>2. ModulesInv'
    BY ModulesOfDestroy DEF StoreInv
  <1>3. ListInv'
    BY <1>a DEF StoreInv, ListInv, ListOf
  <1>4. AliveInv' /\ SettingInv'
    BY <1>a DEF StoreInv, AliveInv, AliveOf, SettingInv
  <1>5. WantInv'
    BY <1>a DEF StoreInv, WantInv, WantOf, GetPreferredCodec2ComponentStore
  <1>6. CurrentInv'
    BY <1>a DEF StoreInv, CurrentInv, GetPreferredCodec2ComponentStore, StoreLives,
       AllocLives, Pools
  <1> QED
    BY <1>1, <1>2, <1>3, <1>4, <1>5, <1>6

\* A thread's step.
LEMMA ThreadKeeps ==
  ASSUME NEW t \in Threads, Call(t) \/ Drop(t) \/ Step(t), StoreInv
  PROVE  PoolsInv' /\ ModulesInv' /\ ListInv' /\ AliveInv' /\ SettingInv' /\ WantInv' /\ CurrentInv'
  <1>b. /\ PlacesInv /\ LockInv /\ NamesInv /\ ValuesInv
        /\ PoolsInv /\ ModulesInv /\ ListInv /\ AliveInv /\ SettingInv /\ WantInv /\ CurrentInv
    BY DEF StoreInv
  <1>c. Call(t) \/ Drop(t) \/ Step(t)
    OBVIOUS
  <1>a. \A u \in Threads : u # t => arg'[u] = arg[u] /\ pc'[u] = pc[u] /\ hold'[u] = hold[u]
    BY <1>b, <1>c, OthersStay DEF PlacesInv
  <1>1. PoolsInv'
    BY <1>b, <1>c, PoolsOfThread
  <1>2. ModulesInv'
    <2>1. CASE LoadModule(t)
      BY <1>b, <1>c, <2>1, ModulesOfLoad
    <2>2. CASE InitModule(t)
      BY <1>b, <1>c, <2>2, ModulesOfInit
    <2>3. CASE MakeComponent(t)
      BY <1>b, <1>c, <2>3, ModulesOfMake
    <2>4. CASE ~LoadModule(t) /\ ~InitModule(t) /\ ~MakeComponent(t)
      <3>1. ModuleOf(t)
        BY <1>b DEF ModulesInv
      <3>2. Quiet(t)
        BY <1>b, <1>c, <2>4, <3>1, MostAreQuiet
      <3> QED
        BY <1>b, <1>c, <3>2, ModulesOfQuiet
    <2> QED
      BY <1>b, <1>c, <2>1, <2>2, <2>3, <2>4
  <1>3. ListInv'
    BY <1>b, <1>c, ListOfThread
  <1>4. AliveInv'
    <2>1. AliveOf(t)'
      BY <1>b, <1>c, AliveOfThread
    <2>2. \A u \in Threads : u # t => AliveOf(u)'
      BY <1>b, <1>c, <1>a DEF AliveInv, AliveOf
    <2> QED
      BY <1>b, <1>c, <2>1, <2>2 DEF AliveInv
  <1>5. SettingInv'
    BY <1>b, <1>c, SettingKept
  <1>6. WantInv'
    BY <1>b, <1>c, WantOfThread, WantOfOthers DEF WantInv
  <1>7. CurrentInv'
    BY <1>b, <1>c, StoreIsCurrent, MapperOfThread DEF CurrentInv
  <1> QED
    BY <1>1, <1>2, <1>3, <1>4, <1>5, <1>6, <1>7

\* Every step keeps the invariant.
LEMMA StoreKeeps ==
  StoreInv /\ [Next]_vars => StoreInv'
  <1> SUFFICES ASSUME StoreInv, [Next]_vars PROVE StoreInv'
    OBVIOUS
  <1>1. PlacesInv' /\ LockInv' /\ NamesInv' /\ ValuesInv'
    BY PlacesStay, LocksStay, NamesStay, ValuesStay DEF StoreInv
  <1>2. PoolsInv' /\ ModulesInv' /\ ListInv' /\ AliveInv' /\ SettingInv' /\ WantInv' /\ CurrentInv'
    <2>1. CASE UNCHANGED vars
      BY <2>1, StoreStutters
    <2>2. ASSUME NEW t \in Threads, Call(t) \/ Drop(t) \/ Step(t)
          PROVE  /\ PoolsInv' /\ ModulesInv' /\ ListInv' /\ AliveInv'
                 /\ SettingInv' /\ WantInv' /\ CurrentInv'
      BY <2>2, ThreadKeeps
    <2>3. ASSUME NEW m \in factories, DestroyFactory(m)
          PROVE  /\ PoolsInv' /\ ModulesInv' /\ ListInv' /\ AliveInv'
                 /\ SettingInv' /\ WantInv' /\ CurrentInv'
      BY <2>3, StoreOfDestroy
    <2> QED
      BY <2>1, <2>2, <2>3 DEF Next
  <1> QED
    BY <1>1, <1>2 DEF StoreInv

\* So it always holds.
LEMMA StoreAlways == Spec => []StoreInv
  BY StoreStarts, StoreKeeps, PTL DEF Spec

--------------------------------------------------------------------------------
(* The theorems *)

\* Every variable has its type, and who is in a call has a request.
THEOREM StoreTypeCorrect == Spec => []TypeOK
  <1>1. StoreInv => TypeOK
    <2> SUFFICES ASSUME StoreInv PROVE TypeOK
      OBVIOUS
    <2>1. PlacesInv /\ LockInv /\ ValuesInv /\ Globals
      BY DEF StoreInv, ValuesInv
    <2>2. ASSUME NEW t \in Threads
          PROVE  /\ hold[t] \in Holds /\ keep[t].store \in BOOLEAN /\ keep[t].allocs \subseteq Kinds
                 /\ keep[t].pools \subseteq PoolRecords /\ keep[t].comps \subseteq Components
                 /\ want[t] \in Stores \cup {Platform, None}
                 /\ pc[t] = "idle" <=> arg[t] = NoArg
      <3>1. hold[t] \in Holds /\ keep[t] \in Keeps(t) /\ want[t] \in Stores \cup {Platform, None}
        BY <2>1 DEF ValuesInv, CallTyped
      <3>2. /\ keep[t].store \in BOOLEAN /\ keep[t].allocs \subseteq Kinds
            /\ keep[t].pools \subseteq PoolRecords /\ keep[t].comps \subseteq Components
        BY <3>1 DEF Keeps, OwnPools, OwnComponents
      <3>3. pc[t] = "idle" <=> arg[t] = NoArg
        <4>1. NoArg.call = "none"
          BY DEF NoArg
        <4> QED
          BY <2>1, <4>1 DEF PlacesInv, Request, Reached
      <3> QED
        BY <3>1, <3>2, <3>3
    <2> QED
      BY <2>1, <2>2 DEF TypeOK, Holds, LockInv, Globals
  <1> QED
    BY <1>1, StoreAlways, PTL

\* The allocator store and the linear allocator ask the component store that was
\* preferred last, once nobody is changing it (SetPreferredCodec2ComponentStore,
\* setComponentStore, GetCodec2PlatformAllocatorStore and the fetching of the
\* allocator, in any interleaving).
THEOREM MapperIsCurrentHolds == Spec => []MapperIsCurrent
  <1>1. StoreInv => MapperIsCurrent
    BY DEF StoreInv, CurrentInv, MapperIsCurrent, Updating
  <1> QED
    BY <1>1, StoreAlways, PTL

\* The block pool cache finds every pool a client has, for its own client only.
THEOREM PoolsAreFoundHolds == Spec => []PoolsAreFound
  <1>1. StoreInv => PoolsAreFound
    BY PoolsFound DEF StoreInv
  <1> QED
    BY <1>1, StoreAlways, PTL

\* No component outlives the factory that made it, and a name has one module.
THEOREM FactoryOutlivesHolds == Spec => []FactoryOutlives
  <1>1. StoreInv => FactoryOutlives
    BY ModulesOutlive DEF StoreInv
  <1> QED
    BY <1>1, StoreAlways, PTL

\* listComponents returns every component that can be loaded and queried, once.
THEOREM ListCompleteHolds == Spec => []ListComplete
  <1>1. StoreInv => ListComplete
    BY ListIsComplete DEF StoreInv
  <1> QED
    BY <1>1, StoreAlways, PTL
================================================================================
