------------------------- MODULE C2RKComponentStore -------------------------
(* The component store of services/C2RKComponentStore.cpp: the allocator       *)
(* store and its linear allocator, the cache of block pools, and the loader of *)
(* component modules, used by several binder threads.                          *)
(*                                                                             *)
(* An object behind a shared_ptr lives while a thread's stack (hold), a client *)
(* (keep) or another object refers to it; a weak_ptr finds it while it lives.  *)
(* Mutexes that are held over other steps are in lock and loading; those that  *)
(* protect a single access (gPreferredComponentStoreMutex,                     *)
(* _mComponentStoreReadLock, the static ones) make that access one step.       *)
EXTENDS Naturals, Sequences, FiniteSets

CONSTANTS
  Threads,     \* binder threads, each with its client
  Names,       \* component names in mComponents
  NoFactory,   \* names for which the library makes no factory
  NoTraits,    \* names whose interface cannot be queried
  Stores,      \* component stores a client may prefer to the platform's
  Platform,    \* the store of GetCodec2PlatformComponentStore: the service keeps it
  None,
  MaxCalls     \* calls and drops of all threads together

ASSUME StoreAssumption ==
  /\ Names # {} /\ NoFactory \subseteq Names /\ NoTraits \subseteq Names
  /\ Platform \notin Stores /\ None \notin Stores \cup {Platform} \cup Threads \cup Names
  /\ MaxCalls \in Nat

Kinds == {"linear", "queue"}     \* ION or DMABUF, and BUFFERQUEUE
PLATFORM_START == 16
Mutexes == {"set preferred", "allocator store", "set store", "linear", "pools", "visit"}

VARIABLES
  pc, arg,          \* a thread's place and the arguments of its call
  want,             \* the component store a thread is about to use
  hold,             \* what its stack refers to: the allocator store, allocators, a module
  keep,             \* what its client refers to
  calls,            \* calls made and drops
  lock, loading,    \* the owner of each mutex, and of each loader's mutex
  preferred,        \* gPreferredComponentStore
  componentStore,   \* _mComponentStore of the allocator store that lives
  mapper,           \* the store the linear allocator's usage mapper asks
  seqId,            \* mBlockPoolSeqId
  mBlockPools,      \* the weak pools and their components, at most one for an id
  made,             \* pools made
  visited, list,    \* mVisited, mComponentList
  mModule,          \* each loader's weak module, 0 at first
  factories,        \* modules whose factory exists
  modules,          \* modules made
  components,       \* components made
  returned          \* what listComponents last returned to a thread

allocVars == <<preferred, componentStore, mapper>>
poolVars == <<seqId, mBlockPools, made>>
loadVars == <<visited, list, mModule, factories, modules, components, loading, returned>>
vars == <<pc, arg, want, hold, keep, calls, lock, allocVars, poolVars, loadVars>>

NoModule == [name |-> None, n |-> 0]
NoHold == [store |-> FALSE, allocs |-> {}, module |-> NoModule]
NoKeep == [store |-> FALSE, allocs |-> {}, pools |-> {}, comps |-> {}]
NoArg == [call |-> "none"]

Init ==
  /\ pc = [t \in Threads |-> "idle"] /\ arg = [t \in Threads |-> NoArg]
  /\ want = [t \in Threads |-> None]
  /\ hold = [t \in Threads |-> NoHold] /\ keep = [t \in Threads |-> NoKeep]
  /\ calls = 0
  /\ lock = [m \in Mutexes |-> None] /\ loading = [n \in Names |-> None]
  /\ preferred = None /\ componentStore = None /\ mapper = None
  /\ seqId = PLATFORM_START + 1 /\ mBlockPools = {} /\ made = 0
  /\ visited = FALSE /\ list = <<>>
  /\ mModule = [n \in Names |-> NoModule]
  /\ factories = {} /\ modules = 0 /\ components = 0
  /\ returned = [t \in Threads |-> <<None>>]

--------------------------------------------------------------------------------
(* Who lives *)

Pools == UNION {keep[t].pools : t \in Threads}
Comps == UNION {keep[t].comps : t \in Threads}

\* gPlatformAllocatorStore.lock()
StoreLives == \E t \in Threads : hold[t].store \/ keep[t].store

\* gIonAllocator.lock() and its like: a pool refers to its allocator.
AllocLives(k) ==
  \/ \E t \in Threads : k \in hold[t].allocs \cup keep[t].allocs
  \/ \E p \in Pools : p.kind = k

MutCaptured(c) == {}

\* What the deleter of a component captures.
Captured(c) == {c.module}
ModuleLives(m) ==
  \/ \E t \in Threads : hold[t].module = m
  \/ \E c \in Comps : m \in Captured(c)

GetPreferredCodec2ComponentStore == IF preferred = None THEN Platform ELSE preferred

--------------------------------------------------------------------------------
(* Calls *)

Free(m) == lock[m] = None
Goto(t, l) == pc' = [pc EXCEPT ![t] = l]
Take(t, m) == lock' = [lock EXCEPT ![m] = t]
Hold(t, k) == hold' = [hold EXCEPT ![t].allocs = @ \cup {k}]

\* Keeps the locals.
MutReturn(t) ==
  /\ Goto(t, "idle") /\ UNCHANGED <<hold, arg, want>>
  /\ lock' = [m \in Mutexes |-> IF lock[m] = t THEN None ELSE lock[m]]

\* A call returns: its locals go, its mutexes are free.
Return(t) ==
  /\ Goto(t, "idle")
  /\ hold' = [hold EXCEPT ![t] = NoHold]
  /\ arg' = [arg EXCEPT ![t] = NoArg] /\ want' = [want EXCEPT ![t] = None]
  /\ lock' = [m \in Mutexes |-> IF lock[m] = t THEN None ELSE lock[m]]

Requests(t) ==
       {[call |-> "prefer", store |-> s] : s \in Stores}
  \cup {[call |-> "store"]}
  \cup {[call |-> "fetch", kind |-> k] : k \in Kinds}
  \cup {[call |-> "get", kind |-> "queue", id |-> i, comp |-> c] :
          i \in PLATFORM_START .. (seqId - 1), c \in keep[t].comps}
  \cup {[call |-> "create", kind |-> k, id |-> 0, comp |-> c] :
          k \in Kinds, c \in keep[t].comps}
  \cup {[call |-> "list", name |-> None, left |-> Names]}
  \cup {[call |-> "component", name |-> n, left |-> Names] : n \in Names \cup {None}}

Entry(r) ==
  CASE r.call = "prefer" -> "SetPreferred"
    [] r.call \in {"store", "fetch"} -> "AllocatorStore"
    [] r.call \in {"get", "create"} -> "BlockPool"
    [] OTHER -> "Visit"

Call(t) ==
  /\ pc[t] = "idle" /\ calls < MaxCalls
  /\ \E r \in Requests(t) :
       arg' = [arg EXCEPT ![t] = r] /\ Goto(t, Entry(r))
  /\ calls' = calls + 1
  /\ UNCHANGED <<want, hold, keep, lock, allocVars, poolVars, loadVars>>

\* A client lets go of something.
Drop(t) ==
  /\ pc[t] = "idle" /\ calls < MaxCalls /\ calls' = calls + 1
  /\ \/ keep[t].store /\ keep' = [keep EXCEPT ![t].store = FALSE]
     \/ \E k \in keep[t].allocs : keep' = [keep EXCEPT ![t].allocs = @ \ {k}]
     \/ \E p \in keep[t].pools : keep' = [keep EXCEPT ![t].pools = @ \ {p}]
     \/ \E c \in keep[t].comps : keep' = [keep EXCEPT ![t].comps = @ \ {c}]
  /\ UNCHANGED <<pc, arg, want, hold, lock, allocVars, poolVars, loadVars>>

--------------------------------------------------------------------------------
(* The allocator store *)

\* SetPreferredCodec2ComponentStore: the preferred store first ...
SetPreferred(t) ==
  /\ pc[t] = "SetPreferred" /\ Free("set preferred")
  /\ Take(t, "set preferred")
  /\ preferred' = arg[t].store /\ want' = [want EXCEPT ![t] = arg[t].store]
  /\ Goto(t, "FindStore")
  /\ UNCHANGED <<arg, hold, keep, calls, componentStore, mapper, poolVars, loadVars>>

\* Does not wait for an allocator store that another thread is making.
MutFindStore(t) ==
  /\ pc[t] = "FindStore"
  /\ IF StoreLives /\ Free("allocator store")
     THEN /\ hold' = [hold EXCEPT ![t].store = TRUE]
          /\ Goto(t, "SetStore") /\ UNCHANGED <<arg, want, lock>>
     ELSE Return(t)
  /\ UNCHANGED <<keep, calls, allocVars, poolVars, loadVars>>

\* ... then the allocator store, if it lives.
FindStore(t) ==
  /\ pc[t] = "FindStore" /\ Free("allocator store")
  /\ IF StoreLives
     THEN /\ hold' = [hold EXCEPT ![t].store = TRUE]
          /\ Goto(t, "SetStore") /\ UNCHANGED <<arg, want, lock>>
     ELSE Return(t)
  /\ UNCHANGED <<keep, calls, allocVars, poolVars, loadVars>>

\* What a call does with the allocator store.
WithStore(t) ==
  CASE arg[t].call = "store" -> "KeepStore"
    [] arg[t].call = "get" -> "FindPool"
    [] OTHER -> "Fetch"

\* GetCodec2PlatformAllocatorStore: a new one gets the preferred store before it
\* is published.
AllocatorStore(t) ==
  /\ pc[t] = "AllocatorStore" /\ Free("allocator store")
  /\ hold' = [hold EXCEPT ![t].store = TRUE]
  /\ IF StoreLives
     THEN Goto(t, WithStore(t)) /\ UNCHANGED lock
     ELSE Goto(t, "NewStore") /\ Take(t, "allocator store")
  /\ UNCHANGED <<arg, want, keep, calls, allocVars, poolVars, loadVars>>

NewStore(t) ==
  /\ pc[t] = "NewStore"
  /\ want' = [want EXCEPT ![t] = GetPreferredCodec2ComponentStore]
  /\ Goto(t, "SetStore")
  /\ UNCHANGED <<arg, hold, keep, calls, lock, allocVars, poolVars, loadVars>>

\* setComponentStore
SetStore(t) ==
  /\ pc[t] = "SetStore" /\ Free("set store")
  /\ Take(t, "set store")
  /\ componentStore' = want[t]
  /\ Goto(t, "FindLinear")
  /\ UNCHANGED <<arg, want, hold, keep, calls, preferred, mapper, poolVars, loadVars>>

\* setComponentStore ends, and the allocator store it was called for is published.
StoreSet(t) ==
  IF arg[t].call = "prefer"
  THEN Return(t)
  ELSE /\ lock' = [lock EXCEPT !["set store"] = None, !["allocator store"] = None]
       /\ hold' = [hold EXCEPT ![t].allocs = {}]
       /\ Goto(t, WithStore(t)) /\ UNCHANGED <<arg, want>>

FindLinear(t) ==
  /\ pc[t] = "FindLinear" /\ Free("linear")
  /\ IF AllocLives("linear")
     THEN Hold(t, "linear") /\ Goto(t, "UseStore") /\ UNCHANGED <<arg, want, lock>>
     ELSE StoreSet(t)
  /\ UNCHANGED <<keep, calls, allocVars, poolVars, loadVars>>

\* UseComponentStoreForIonAllocator: the mapper keeps the store. The platform's
\* store supports the query; the usages and the block size are left out.
UseStore(t) ==
  /\ pc[t] = "UseStore"
  /\ mapper' = want[t]
  /\ StoreSet(t)
  /\ UNCHANGED <<keep, calls, preferred, componentStore, poolVars, loadVars>>

\* GetCodec2PlatformAllocatorStore returns to a client.
KeepStore(t) ==
  /\ pc[t] = "KeepStore"
  /\ keep' = [keep EXCEPT ![t].store = TRUE] /\ Return(t)
  /\ UNCHANGED <<calls, allocVars, poolVars, loadVars>>

--------------------------------------------------------------------------------
(* Allocators *)

Fetched(t) == Goto(t, IF arg[t].call = "fetch" THEN "KeepAllocator" ELSE "MakePool")

\* fetchBufferQueueAllocator, under its static mutex.
FetchQueue(t) ==
  /\ pc[t] = "Fetch" /\ arg[t].kind = "queue"
  /\ Hold(t, "queue") /\ Fetched(t)
  /\ UNCHANGED <<arg, want, keep, calls, lock, allocVars, poolVars, loadVars>>

\* Reads _mComponentStore under _mComponentStoreSetLock.
MutFetchLinear(t) ==
  /\ pc[t] \in {"Fetch", "ReadStore"} /\ arg[t].kind = "linear"
  /\ \/ /\ pc[t] = "Fetch" /\ Free("linear") /\ Hold(t, "linear")
        /\ IF AllocLives("linear")
           THEN Fetched(t) /\ UNCHANGED lock
           ELSE Take(t, "linear") /\ Goto(t, "ReadStore")
        /\ UNCHANGED want
     \/ /\ pc[t] = "ReadStore" /\ Free("set store") /\ Goto(t, "NewLinear")
        /\ want' = [want EXCEPT ![t] = componentStore]
        /\ UNCHANGED <<hold, lock>>
  /\ UNCHANGED <<arg, keep, calls, allocVars, poolVars, loadVars>>

\* fetchIonAllocator, fetchDmaBufAllocator: the allocator that lives, or a new one
\* with the store _mComponentStore holds now.
FetchLinear(t) ==
  /\ pc[t] = "Fetch" /\ arg[t].kind = "linear" /\ Free("linear")
  /\ Hold(t, "linear")
  /\ IF AllocLives("linear")
     THEN Fetched(t) /\ UNCHANGED <<want, lock>>
     ELSE /\ Take(t, "linear") /\ Goto(t, "NewLinear")
          /\ want' = [want EXCEPT ![t] = componentStore]
  /\ UNCHANGED <<arg, keep, calls, allocVars, poolVars, loadVars>>

NewLinear(t) ==
  /\ pc[t] = "NewLinear"
  /\ mapper' = want[t]
  /\ lock' = [lock EXCEPT !["linear"] = None]
  /\ Fetched(t)
  /\ UNCHANGED <<arg, want, hold, keep, calls, preferred, componentStore, poolVars, loadVars>>

KeepAllocator(t) ==
  /\ pc[t] = "KeepAllocator"
  /\ keep' = [keep EXCEPT ![t].allocs = @ \cup {arg[t].kind}] /\ Return(t)
  /\ UNCHANGED <<calls, allocVars, poolVars, loadVars>>

--------------------------------------------------------------------------------
(* Block pools *)

\* GetCodec2BlockPool and CreateCodec2BlockPool take sBlockPoolCacheMutex; the
\* second takes the next id.
BlockPool(t) ==
  /\ pc[t] = "BlockPool" /\ Free("pools")
  /\ Take(t, "pools") /\ Goto(t, "AllocatorStore")
  /\ IF arg[t].call = "create"
     THEN arg' = [arg EXCEPT ![t].id = seqId] /\ seqId' = seqId + 1
     ELSE UNCHANGED <<arg, seqId>>
  /\ UNCHANGED <<want, hold, keep, calls, allocVars, mBlockPools, made, loadVars>>

MutCached(t) == {p \in mBlockPools : p.id = arg[t].id /\ p \in Pools}

\* getBlockPool: a pool that lives, for the component it was made for. An entry
\* whose pool is gone is erased.
Cached(t) == {p \in mBlockPools : p.id = arg[t].id /\ p \in Pools /\ p.owner = arg[t].comp}
FindPool(t) ==
  /\ pc[t] = "FindPool"
  /\ mBlockPools' = {p \in mBlockPools : p.id = arg[t].id => p \in Pools}
  /\ IF Cached(t) = {} /\ arg[t].id = PLATFORM_START
     THEN Goto(t, "Fetch") /\ UNCHANGED <<arg, want, hold, keep, lock>>
     ELSE keep' = [keep EXCEPT ![t].pools = @ \cup Cached(t)] /\ Return(t)
  /\ UNCHANGED <<calls, allocVars, seqId, made, loadVars>>

\* The end of _createBlockPool.
MakePool(t) ==
  LET new == [id |-> arg[t].id, kind |-> arg[t].kind, owner |-> arg[t].comp, n |-> made]
  IN /\ pc[t] = "MakePool"
     /\ mBlockPools' = {p \in mBlockPools : p.id # new.id} \cup {new}
     /\ keep' = [keep EXCEPT ![t].pools = @ \cup {new}]
     /\ made' = made + 1
     /\ Return(t)
     /\ UNCHANGED <<calls, allocVars, seqId, loadVars>>

--------------------------------------------------------------------------------
(* Component modules *)

\* Looks at mVisited before it takes the mutex, not after.
MutVisit(t) ==
  /\ \/ pc[t] = "Visit" /\ Goto(t, IF visited THEN "Visited" ELSE "VisitAll") /\ UNCHANGED lock
     \/ /\ pc[t] = "VisitAll" /\ Free("visit")
        /\ Take(t, "visit") /\ Goto(t, "LoadModule")
  /\ UNCHANGED <<arg, want, hold, keep, calls, allocVars, poolVars, loadVars>>

\* visitComponents, which listComponents and findComponent call first.
Visit(t) ==
  /\ pc[t] = "Visit" /\ Free("visit")
  /\ IF visited
     THEN Goto(t, "Visited") /\ UNCHANGED lock
     ELSE Take(t, "visit") /\ Goto(t, "LoadModule")
  /\ UNCHANGED <<arg, want, hold, keep, calls, allocVars, poolVars, loadVars>>

\* The module a thread loads: the next one of the visit, or the one it looks for.
Loads(t) == IF lock["visit"] = t THEN CHOOSE n \in arg[t].left : TRUE ELSE arg[t].name

\* mComponentList is read without the mutex; a name that is not in mComponents is
\* not found.
Visited(t) ==
  /\ pc[t] = "Visited"
  /\ IF arg[t].call = "list"
     THEN returned' = [returned EXCEPT ![t] = list] /\ Return(t)
     ELSE /\ UNCHANGED returned
          /\ IF arg[t].name = None
             THEN Return(t)
             ELSE Goto(t, "LoadModule") /\ UNCHANGED <<arg, want, hold, lock>>
  /\ UNCHANGED <<keep, calls, allocVars, poolVars, visited, list, mModule, factories,
                 modules, components, loading>>

\* fetchModule: the module that lives, or a new one that init() gives a factory.
LoadModule(t) ==
  LET n == Loads(t)
      new == [name |-> n, n |-> modules + 1]
  IN /\ pc[t] = "LoadModule" /\ loading[n] = None
     /\ IF mModule[n] # NoModule /\ ModuleLives(mModule[n])
        THEN /\ hold' = [hold EXCEPT ![t].module = mModule[n]]
             /\ Goto(t, "Loaded") /\ UNCHANGED <<factories, modules, loading>>
        ELSE /\ hold' = [hold EXCEPT ![t].module = new]
             /\ modules' = modules + 1
             /\ factories' = IF n \in NoFactory THEN factories ELSE factories \cup {new}
             /\ loading' = [loading EXCEPT ![n] = t]
             /\ Goto(t, "InitModule")
     /\ UNCHANGED <<arg, want, keep, calls, lock, allocVars, poolVars, visited, list,
                    mModule, components, returned>>

\* Only a module with a factory is published.
InitModule(t) ==
  LET n == Loads(t)
  IN /\ pc[t] = "InitModule"
     /\ mModule' = IF n \in NoFactory THEN mModule
                   ELSE [mModule EXCEPT ![n] = hold[t].module]
     /\ loading' = [loading EXCEPT ![n] = None]
     /\ Goto(t, "Loaded")
     /\ UNCHANGED <<arg, want, hold, keep, calls, lock, allocVars, poolVars, visited,
                    list, factories, modules, components, returned>>

\* In the visit: the traits are listed, the module goes and the next one is
\* loaded; after the last the visit is done.
VisitModule(t) ==
  LET n == Loads(t)
      last == arg[t].left = {n}
  IN /\ pc[t] = "Loaded" /\ lock["visit"] = t
     /\ list' = IF n \in NoFactory \cup NoTraits THEN list ELSE Append(list, n)
     /\ hold' = [hold EXCEPT ![t].module = NoModule]
     /\ arg' = [arg EXCEPT ![t].left = @ \ {n}]
     /\ visited' = last
     /\ lock' = IF last THEN [lock EXCEPT !["visit"] = None] ELSE lock
     /\ Goto(t, IF last THEN "Visited" ELSE "LoadModule")
     /\ UNCHANGED <<want, keep, calls, allocVars, poolVars, mModule,
                    factories, modules, components, loading, returned>>

\* createComponent and createInterface: an object whose deleter holds the module.
MakeComponent(t) ==
  LET new == [module |-> hold[t].module, by |-> t, n |-> components]
  IN /\ pc[t] = "Loaded" /\ lock["visit"] # t
     /\ IF arg[t].name \in NoFactory
        THEN UNCHANGED <<keep, components>>
        ELSE keep' = [keep EXCEPT ![t].comps = @ \cup {new}] /\ components' = components + 1
     /\ Return(t)
     /\ UNCHANGED <<calls, allocVars, poolVars, visited, list, mModule, factories, modules,
                    loading, returned>>

\* ~ComponentModule, by the thread that let go of the module last: the loader may
\* make the next one meanwhile.
DestroyFactory(m) ==
  /\ m \in factories /\ ~ModuleLives(m)
  /\ factories' = factories \ {m}
  /\ UNCHANGED <<pc, arg, want, hold, keep, calls, lock, allocVars, poolVars, visited, list,
                 mModule, modules, components, loading, returned>>

--------------------------------------------------------------------------------

Step(t) ==
  \/ SetPreferred(t) \/ FindStore(t) \/ AllocatorStore(t) \/ NewStore(t) \/ SetStore(t)
  \/ FindLinear(t) \/ UseStore(t) \/ KeepStore(t)
  \/ FetchQueue(t) \/ FetchLinear(t) \/ NewLinear(t) \/ KeepAllocator(t)
  \/ BlockPool(t) \/ FindPool(t) \/ MakePool(t)
  \/ Visit(t) \/ Visited(t) \/ LoadModule(t) \/ InitModule(t)
  \/ VisitModule(t) \/ MakeComponent(t)

Next ==
  \/ \E t \in Threads : Call(t) \/ Drop(t) \/ Step(t)
  \/ \E m \in factories : DestroyFactory(m)

Spec == Init /\ [][Next]_vars

\* A thread inside a call goes on with it. Calls and drops are the clients' choice.
FairSpec == Spec /\ \A t \in Threads : WF_vars(Step(t))

--------------------------------------------------------------------------------
(* Properties *)

Modules == [name : Names, n : Nat] \cup {NoModule}
Components == [module : Modules, by : Threads, n : Nat]
PoolRecords == [id : Nat, kind : Kinds, owner : Components, n : Nat]

\* Every variable has its type.
TypeOK ==
  /\ \A t \in Threads :
       /\ hold[t] \in [store : BOOLEAN, allocs : SUBSET Kinds, module : Modules]
       /\ keep[t].store \in BOOLEAN /\ keep[t].allocs \subseteq Kinds
       /\ keep[t].pools \subseteq PoolRecords /\ keep[t].comps \subseteq Components
       /\ want[t] \in Stores \cup {Platform, None}
       /\ pc[t] = "idle" <=> arg[t] = NoArg
  /\ lock \in [Mutexes -> Threads \cup {None}] /\ loading \in [Names -> Threads \cup {None}]
  /\ {preferred, componentStore, mapper} \subseteq Stores \cup {Platform, None}
  /\ calls \in 0 .. MaxCalls /\ seqId \in Nat /\ made \in Nat /\ mBlockPools \subseteq PoolRecords
  /\ visited \in BOOLEAN /\ list \in Seq(Names)
  /\ mModule \in [Names -> Modules] /\ factories \subseteq Modules \ {NoModule}

Updating ==
  {"FindStore", "NewStore", "SetStore", "FindLinear", "UseStore", "NewLinear"}

\* Once no thread is inside SetPreferredCodec2ComponentStore, a creation of the
\* allocator store or of the linear allocator, the allocator store that lives asks
\* the preferred component store, and so does the linear allocator that lives:
\* whichever of the preference, the store and the allocator came last, and whether
\* or not the allocator outlived an earlier allocator store.
MapperIsCurrent ==
  StoreLives /\ (\A t \in Threads : pc[t] \notin Updating) =>
    /\ componentStore = GetPreferredCodec2ComponentStore
    /\ AllocLives("linear") => mapper = componentStore

\* A pool is only in the hands of the client whose component it was made for, and
\* while it is, GetCodec2BlockPool finds it under its own id: no other pool takes
\* that id. PLATFORM_START, which any component may ask for, has no such promise.
PoolsAreFound ==
  \A t \in Threads : \A p \in keep[t].pools :
    /\ p.owner.by = t
    /\ p.id # PLATFORM_START =>
         {q \in mBlockPools : q.id = p.id} = {p}

\* The factory that made a component or an interface exists as long as it does, and
\* all that live of one name come from one module.
FactoryOutlives ==
  /\ \A c \in Comps : c.module \in factories
  /\ \A c, d \in Comps : c.module.name = d.module.name => c.module = d.module

\* What listComponents returns is every component whose module can be loaded and
\* queried, once, however many threads make the first visit.
ListComplete ==
  \A t \in Threads : returned[t] # <<None>> =>
    /\ Len(returned[t]) = Cardinality(Names \ (NoFactory \cup NoTraits))
    /\ {returned[t][i] : i \in DOMAIN returned[t]} = Names \ (NoFactory \cup NoTraits)

\* Every call returns: no order in which the mutexes of the pools, the allocator
\* store, setComponentStore, the linear allocator and the loaders are taken blocks
\* the threads for ever.
CallsReturn == \A t \in Threads : pc[t] # "idle" ~> pc[t] = "idle"
=============================================================================
