---------------------------- MODULE StoreProofs ----------------------------
(***************************************************************************)
(* Theorems about Store: what Sync, the handlers, the peers and restarts   *)
(* keep together, for every set of names, requests and addresses. Sync     *)
(* performs operations of Context on options that come from the store, so  *)
(* the lemmas about Operation carry over; a peer and a restart are the two *)
(* steps they do not cover.                                                *)
(***************************************************************************)
EXTENDS ReliableProofs, Store

-----------------------------------------------------------------------------
(* Types *)

\* What the loops have left to visit: names that are missing from the listing in the
\* two that remove, names that are in it in the two that create.
TodoListed ==
    /\ sync.pc = "dropServices" => \A v \in sync.todo : v \in VsIDs /\ sync.services[v] = None
    /\ sync.pc = "addServices"  => \A v \in sync.todo : v \in VsIDs /\ sync.services[v] # None
    /\ sync.pc = "dropBackends" => \A r \in sync.todo : r \in RsIDs /\ sync.backends[r] = None
    /\ sync.pc = "addBackends"  => \A r \in sync.todo : r \in RsIDs /\ sync.backends[r] # None

StoreInv == TypeOK /\ StoreTypeOK /\ TodoListed

\* What a step makes of sync, field by field.
SyncAt(pc, listedServices, listedBackends, todo) ==
    sync' = [pc |-> pc, services |-> listedServices, backends |-> listedBackends, todo |-> todo]

LEMMA SetPc ==
    ASSUME NEW s \in Sync, NEW pc
    PROVE  [s EXCEPT !.pc = pc]
             = [pc |-> pc, services |-> s.services, backends |-> s.backends, todo |-> s.todo]
  BY DEF Sync

LEMMA SetTodo ==
    ASSUME NEW s \in Sync, NEW todo
    PROVE  [s EXCEPT !.todo = todo]
             = [pc |-> s.pc, services |-> s.services, backends |-> s.backends, todo |-> todo]
  BY DEF Sync

LEMMA Moves ==
    ASSUME NEW s \in Sync, NEW pc, NEW todo
    PROVE  [s EXCEPT !.pc = pc, !.todo = todo]
             = [pc |-> pc, services |-> s.services, backends |-> s.backends, todo |-> todo]
<1>. DEFINE t == [s EXCEPT !.pc = pc]
<1>1. t = [pc |-> pc, services |-> s.services, backends |-> s.backends, todo |-> s.todo]
  BY SetPc
<1>2. [s EXCEPT !.pc = pc, !.todo = todo] = [t EXCEPT !.todo = todo]
  BY Zenon
<1>. HIDE DEF t
<1>3. [t EXCEPT !.todo = todo]
        = [pc |-> pc, services |-> s.services, backends |-> s.backends, todo |-> todo]
  BY <1>1
<1>. QED
  BY <1>2, <1>3

LEMMA NotSyncingType == NotSyncing \in Sync
  BY DEF NotSyncing, Sync

LEMMA ListServicesEffect ==
    ASSUME StoreTypeOK, ListServices
    PROVE  SyncAt("listed", storedServices, NotSyncing.backends, {})
<1>. DEFINE t == [NotSyncing EXCEPT !.pc = "listed"]
<1>1. t = [pc |-> "listed", services |-> NotSyncing.services,
           backends |-> NotSyncing.backends, todo |-> {}]
  BY NotSyncingType, SetPc DEF NotSyncing
<1>2. sync' = [t EXCEPT !.services = storedServices]
  BY Zenon DEF ListServices
<1>. HIDE DEF t
<1>. QED
  BY <1>1, <1>2 DEF SyncAt

LEMMA ListBackendsEffect ==
    ASSUME StoreTypeOK, ListBackends
    PROVE  SyncAt("read", sync.services, storedBackends, sync.todo)
<1>. DEFINE t == [sync EXCEPT !.pc = "read"]
<1>1. t = [pc |-> "read", services |-> sync.services, backends |-> sync.backends,
           todo |-> sync.todo]
  BY SetPc DEF StoreTypeOK
<1>2. sync' = [t EXCEPT !.backends = storedBackends]
  BY Zenon DEF ListBackends
<1>. HIDE DEF t
<1>. QED
  BY <1>1, <1>2 DEF SyncAt

LEMMA SynchronizeEffect ==
    ASSUME StoreTypeOK, Synchronize
    PROVE  SyncAt("dropServices", sync.services, sync.backends,
                  {v \in Registered : sync.services[v] = None})
<1>. DEFINE T == {v \in Registered : sync.services[v] = None}
<1>1. sync' = [sync EXCEPT !.pc = "dropServices", !.todo = T]
  BY Zenon DEF Synchronize
<1>. HIDE DEF T
<1>2. SyncAt("dropServices", sync.services, sync.backends, T)
  BY <1>1, Moves, Zenon DEF StoreTypeOK, SyncAt
<1>. QED
  BY <1>2 DEF T

LEMMA NextLoopEffect ==
    ASSUME StoreTypeOK, NextLoop
    PROVE  \/ /\ sync.pc = "dropServices"
              /\ SyncAt("addServices", sync.services, sync.backends,
                        {v \in VsIDs : sync.services[v] # None})
           \/ /\ sync.pc = "addServices"
              /\ SyncAt("dropBackends", sync.services, sync.backends,
                        {r \in Backends : sync.backends[r] = None})
           \/ /\ sync.pc = "dropBackends"
              /\ SyncAt("addBackends", sync.services, sync.backends,
                        {r \in RsIDs : sync.backends[r] # None})
<1>. DEFINE A == {v \in VsIDs : sync.services[v] # None}
            D == {r \in Backends : sync.backends[r] = None}
            B == {r \in RsIDs : sync.backends[r] # None}
<1>1. \/ sync.pc = "dropServices" /\ sync' = [sync EXCEPT !.pc = "addServices", !.todo = A]
      \/ sync.pc = "addServices" /\ sync' = [sync EXCEPT !.pc = "dropBackends", !.todo = D]
      \/ sync.pc = "dropBackends" /\ sync' = [sync EXCEPT !.pc = "addBackends", !.todo = B]
  BY Zenon DEF NextLoop
<1>. HIDE DEF A, D, B
<1>2. \/ sync.pc = "dropServices" /\ SyncAt("addServices", sync.services, sync.backends, A)
      \/ sync.pc = "addServices" /\ SyncAt("dropBackends", sync.services, sync.backends, D)
      \/ sync.pc = "dropBackends" /\ SyncAt("addBackends", sync.services, sync.backends, B)
  BY <1>1, Moves, Zenon DEF StoreTypeOK, SyncAt
<1>. QED
  BY <1>2, Zenon DEF A, D, B

\* A loop goes on in place, or the process is dying.
LEMMA ContinueEffect ==
    ASSUME StoreTypeOK, NEW todo, NEW panics, Continue(todo, panics)
    PROVE  \/ ~panics /\ SyncAt(sync.pc, sync.services, sync.backends, todo)
           \/ panics /\ SyncAt("panicked", NotSyncing.services, NotSyncing.backends, {})
<1>. DEFINE t == [NotSyncing EXCEPT !.pc = "panicked"]
<1>1. t = [pc |-> "panicked", services |-> NotSyncing.services,
           backends |-> NotSyncing.backends, todo |-> {}]
  BY NotSyncingType, SetPc DEF NotSyncing
<1>2. sync' = IF panics THEN t ELSE [sync EXCEPT !.todo = todo]
  BY Zenon DEF Continue
<1>. HIDE DEF t
<1>3. [sync EXCEPT !.todo = todo] = [pc |-> sync.pc, services |-> sync.services,
                                     backends |-> sync.backends, todo |-> todo]
  BY SetTodo DEF StoreTypeOK
<1>. QED
  BY <1>1, <1>2, <1>3 DEF SyncAt

LEMMA SyncAtType ==
    ASSUME NEW pc \in {"idle", "listed", "read", "panicked"} \cup Loops,
           NEW s \in [VsIDs -> FilledServices \cup {None}],
           NEW b \in [RsIDs -> StoredBackend \cup {None}],
           NEW todo \in SUBSET (VsIDs \cup RsIDs), SyncAt(pc, s, b, todo)
    PROVE  /\ sync' \in Sync
           /\ sync'.pc = pc /\ sync'.services = s /\ sync'.backends = b /\ sync'.todo = todo
  BY DEF SyncAt, Sync

LEMMA SyncType ==
    ASSUME StoreTypeOK
    PROVE  /\ sync \in Sync
           /\ sync.pc \in {"idle", "listed", "read", "panicked"} \cup Loops
           /\ sync.services \in [VsIDs -> FilledServices \cup {None}]
           /\ sync.backends \in [RsIDs -> StoredBackend \cup {None}]
           /\ sync.todo \in SUBSET (VsIDs \cup RsIDs)
           /\ NotSyncing.pc = "idle" /\ NotSyncing.todo = {}
           /\ NotSyncing.services \in [VsIDs -> FilledServices \cup {None}]
           /\ NotSyncing.backends \in [RsIDs -> StoredBackend \cup {None}]
  BY DEF StoreTypeOK, Sync, NotSyncing

\* One turn of a loop of Synchronize.
LoopStep ==
    \/ DropService \/ KeepService \/ ReplaceService \/ AddService
    \/ DropBackend \/ KeepBackend \/ ReplaceBackend \/ AddBackend \/ SkipBackend

\* It visits names of its own list, and leaves the listings as they are.
LEMMA LoopStepEffect ==
    ASSUME StoreTypeOK, LoopStep
    PROVE  /\ sync.pc \in Loops
           /\ UNCHANGED <<serving, dirty>>
           /\ sync' \in Sync
           /\ \/ sync'.pc = "panicked"
              \/ /\ sync'.pc = sync.pc
                 /\ sync'.services = sync.services
                 /\ sync'.backends = sync.backends
                 /\ sync'.todo \subseteq sync.todo
<1>1. PICK todo, panics : todo \in SUBSET sync.todo /\ Continue(todo, panics)
  <2>1. ASSUME NEW v \in sync.todo PROVE sync.todo \ {v} \in SUBSET sync.todo
    OBVIOUS
  <2>2. sync.todo \in SUBSET sync.todo
    OBVIOUS
  <2>3. CASE ReplaceBackend
    <3>1. PICK r \in sync.todo :
             Continue(IF backends'[r] = None THEN sync.todo ELSE sync.todo \ {r},
                      BackendStopPanics(r))
      BY <2>3, Zenon DEF ReplaceBackend
    <3>. DEFINE T == IF backends'[r] = None THEN sync.todo ELSE sync.todo \ {r}
    <3>2. T \in SUBSET sync.todo
      OBVIOUS
    <3>3. Continue(T, BackendStopPanics(r))
      BY <3>1
    <3>. HIDE DEF T
    <3>. QED
      BY <3>2, <3>3, Zenon
  <2>4. CASE DropService
    BY <2>1, <2>4, Zenon DEF DropService
  <2>5. CASE KeepService
    BY <2>1, <2>5, Zenon DEF KeepService
  <2>6. CASE ReplaceService
    BY <2>2, <2>6, Zenon DEF ReplaceService
  <2>7. CASE AddService
    BY <2>1, <2>7, Zenon DEF AddService
  <2>8. CASE DropBackend
    BY <2>1, <2>8, Zenon DEF DropBackend
  <2>9. CASE KeepBackend
    BY <2>1, <2>9, Zenon DEF KeepBackend
  <2>10. CASE AddBackend
    BY <2>1, <2>10, Zenon DEF AddBackend
  <2>11. CASE SkipBackend
    BY <2>1, <2>11, Zenon DEF SkipBackend
  <2>. QED
    BY <2>3, <2>4, <2>5, <2>6, <2>7, <2>8, <2>9, <2>10, <2>11 DEF LoopStep
<1>2. sync.pc \in Loops /\ UNCHANGED <<serving, dirty>>
  <2>1. CASE DropService \/ KeepService \/ ReplaceService \/ AddService
    BY <2>1 DEF DropService, KeepService, ReplaceService, AddService, Loops
  <2>2. CASE DropBackend \/ KeepBackend \/ AddBackend \/ SkipBackend
    BY <2>2 DEF DropBackend, KeepBackend, AddBackend, SkipBackend, Loops
  <2>3. CASE ReplaceBackend
    BY <2>3 DEF ReplaceBackend, Loops
  <2>. QED
    BY <2>1, <2>2, <2>3 DEF LoopStep
<1>3. \/ SyncAt(sync.pc, sync.services, sync.backends, todo)
      \/ SyncAt("panicked", NotSyncing.services, NotSyncing.backends, {})
  BY <1>1, ContinueEffect
<1>4. {} \in SUBSET (VsIDs \cup RsIDs) /\ todo \in SUBSET (VsIDs \cup RsIDs)
  BY <1>1, SyncType
<1>5. CASE SyncAt(sync.pc, sync.services, sync.backends, todo)
  <2>. DEFINE pc == sync.pc
              s == sync.services
              b == sync.backends
  <2>1. /\ pc \in {"idle", "listed", "read", "panicked"} \cup Loops
        /\ s \in [VsIDs -> FilledServices \cup {None}]
        /\ b \in [RsIDs -> StoredBackend \cup {None}]
    BY SyncType
  <2>2. SyncAt(pc, s, b, todo)
    BY <1>5
  <2>. HIDE DEF pc, s, b
  <2>3. /\ sync' \in Sync /\ sync'.pc = pc /\ sync'.services = s /\ sync'.backends = b
        /\ sync'.todo = todo
    BY <1>4, <2>1, <2>2, SyncAtType
  <2>. QED
    BY <1>1, <1>2, <2>3 DEF pc, s, b
<1>6. CASE SyncAt("panicked", NotSyncing.services, NotSyncing.backends, {})
  BY <1>2, <1>4, <1>6, SyncType, SyncAtType
<1>. QED
  BY <1>3, <1>5, <1>6

-----------------------------------------------------------------------------
(* What a step is to Context *)

\* A turn of a loop is an operation of Context: the options come from the listing, which
\* holds what Fill left of earlier requests.
LEMMA LoopStepOperates ==
    ASSUME StoreInv, LoopStep
    PROVE  [Operation]_ctxVars
<1>. USE DEF StoreInv
<1>1. CASE DropService
  <2>1. PICK v \in sync.todo, down \in Outages : sync.pc = "dropServices" /\ RemoveService(v, down)
    BY <1>1, Zenon DEF DropService
  <2>2. v \in VsIDs
    BY <2>1 DEF TodoListed
  <2>. QED
    BY <2>1, <2>2 DEF Operation, ServiceRemoveHandler
<1>2. CASE ReplaceService
  <2>1. PICK v \in sync.todo, down \in Outages : sync.pc = "addServices" /\ RemoveService(v, down)
    BY <1>2, Zenon DEF ReplaceService
  <2>2. v \in VsIDs
    BY <2>1 DEF TodoListed
  <2>. QED
    BY <2>1, <2>2 DEF Operation, ServiceRemoveHandler
<1>3. CASE AddService
  <2>1. PICK v \in sync.todo, p \in FreePtrs, down \in Outages :
           sync.pc = "addServices" /\ CreateService(v, sync.services[v], p, down)
    BY <1>3, Zenon DEF AddService
  <2>2. v \in VsIDs /\ sync.services[v] \in FilledServices
    BY <2>1, SyncType DEF TodoListed
  <2>. QED
    BY <2>1, <2>2 DEF Operation, AnyCreateService, ServiceInputs
<1>4. CASE DropBackend
  <2>1. PICK r \in sync.todo, down \in Outages : sync.pc = "dropBackends" /\ RemoveBackend(r, down)
    BY <1>4, Zenon DEF DropBackend
  <2>2. r \in RsIDs
    BY <2>1 DEF TodoListed
  <2>. QED
    BY <2>1, <2>2 DEF Operation, BackendRemoveHandler
<1>5. CASE ReplaceBackend
  <2>1. PICK r \in sync.todo, down \in Outages : sync.pc = "addBackends" /\ RemoveBackend(r, down)
    BY <1>5, Zenon DEF ReplaceBackend
  <2>2. r \in RsIDs
    BY <2>1 DEF TodoListed
  <2>. QED
    BY <2>1, <2>2 DEF Operation, BackendRemoveHandler
<1>6. CASE AddBackend
  <2>1. PICK r \in sync.todo, q \in FreePulses, down \in Outages :
           /\ sync.pc = "addBackends"
           /\ CreateBackend(sync.backends[r].VsID, r, sync.backends[r].opts, q, down)
    BY <1>6, Zenon DEF AddBackend
  <2>2. r \in RsIDs /\ sync.backends[r] \in StoredBackend
    BY <2>1, SyncType DEF TodoListed
  <2>3. sync.backends[r].VsID \in VsIDs /\ sync.backends[r].opts \in BackendInputs
    BY <2>2 DEF StoredBackend, BackendInputs
  <2>. QED
    BY <2>1, <2>2, <2>3 DEF Operation, AnyCreateBackend
<1>7. CASE KeepService \/ KeepBackend \/ SkipBackend
  <2>1. UNCHANGED ctxVars
    BY <1>7, Zenon DEF KeepService, KeepBackend, SkipBackend
  <2>. QED
    BY <2>1
<1>. QED
  BY <1>1, <1>2, <1>3, <1>4, <1>5, <1>6, <1>7 DEF LoopStep

\* Any step is one to Context, or is taken by a peer, or begins a new process.
LEMMA StoreOperates ==
    ASSUME StoreInv, [StoreNext]_storeVars
    PROVE  [Operation]_ctxVars \/ PeerWrites \/ Restart
<1>1. CASE LoopStep
  BY <1>1, LoopStepOperates
<1>2. CASE Handler
  <2>1. Next
    BY <1>2, Zenon DEF Handler
  <2>. QED
    BY <2>1, HandlersOperate
<1>3. CASE ListServices \/ ListBackends \/ Synchronize \/ NextLoop \/ Synchronized \/ ListFails
  <2>1. UNCHANGED ctxVars
    BY <1>3, Zenon DEF ListServices, ListBackends, Synchronize, NextLoop, Synchronized, ListFails
  <2>. QED
    BY <2>1
<1>4. CASE UNCHANGED storeVars
  BY <1>4 DEF storeVars
<1>. QED
  BY <1>1, <1>2, <1>3, <1>4 DEF StoreNext, SyncStep, LoopStep

LEMMA PeerWritesType ==
    ASSUME TypeOK, PeerWrites
    PROVE  TypeOK'
<1>1. UNCHANGED <<services, backends, stopped, virtuals, dests, addrs, catalog>>
  BY DEF PeerWrites, registry, kernel
<1>2. /\ storedServices' \in [VsIDs -> FilledServices \cup {None}]
      /\ storedBackends' \in [RsIDs -> StoredBackend \cup {None}]
  BY DEF PeerWrites, TypeOK
<1>. QED
  BY <1>1, <1>2 DEF TypeOK

LEMMA RestartType ==
    ASSUME TypeOK, Restart
    PROVE  TypeOK'
<1>1. /\ UNCHANGED <<addrs, catalog, storedServices, storedBackends>>
      /\ services' = [v \in VsIDs |-> None]
      /\ backends' = [r \in RsIDs |-> None]
      /\ stopped' = {}
  BY DEF Restart, stored
<1>2. /\ virtuals' \in [Keys -> Scheds \cup {None}]
      /\ dests' \in [Keys \X Dests -> Nat \cup {None}]
  BY DEF Restart, kernel, TypeOK
<1>. QED
  BY <1>1, <1>2 DEF TypeOK

LEMMA WrittenType == Written \subseteq StoreKeys
  BY DEF Written, StoreKeys

\* The name Synchronize creates anew is one its loop ranges over.
LEMMA VisitingType ==
    ASSUME StoreInv, [StoreNext]_storeVars PROVE visiting' \in VsIDs \cup RsIDs \cup {None}
<1>. USE DEF StoreInv
<1>0. visiting \in VsIDs \cup RsIDs \cup {None}
  BY DEF StoreTypeOK
<1>1. CASE \/ ListServices \/ ListBackends \/ Synchronize \/ NextLoop \/ Synchronized
           \/ ListFails \/ Handler \/ PeerWrites \/ UNCHANGED storeVars
  <2>1. visiting' = visiting
    BY <1>1, Zenon DEF ListServices, ListBackends, Synchronize, NextLoop, Synchronized,
       ListFails, Handler, PeerWrites, storeVars
  <2>. QED
    BY <1>0, <2>1
<1>2. CASE DropService \/ KeepService \/ DropBackend \/ KeepBackend
  <2>1. visiting' = visiting
    BY <1>2, Zenon DEF DropService, KeepService, DropBackend, KeepBackend
  <2>. QED
    BY <1>0, <2>1
<1>3. CASE AddService \/ AddBackend \/ SkipBackend \/ Restart
  <2>1. visiting' = None
    BY <1>3, Zenon DEF AddService, AddBackend, SkipBackend, Restart
  <2>. QED
    BY <2>1
<1>4. CASE ReplaceService
  <2>1. \E v \in sync.todo : sync.pc = "addServices" /\ visiting' = v
    BY <1>4, Zenon DEF ReplaceService
  <2>. QED
    BY <2>1 DEF StoreTypeOK
<1>5. CASE ReplaceBackend
  <2>1. \E r \in sync.todo : sync.pc = "addBackends" /\ visiting' \in {r, None}
    <3>1. PICK r \in sync.todo : /\ sync.pc = "addBackends"
                                /\ visiting' = IF backends'[r] = None THEN r ELSE None
      BY <1>5, Zenon DEF ReplaceBackend
    <3>. QED
      BY <3>1
  <2>. QED
    BY <2>1 DEF StoreTypeOK
<1>. QED
  BY <1>1, <1>2, <1>3, <1>4, <1>5, Zenon DEF StoreNext, SyncStep

LEMMA StoreTypesInductive == StoreInv /\ [StoreNext]_storeVars => StoreInv'
<1>. SUFFICES ASSUME StoreInv, [StoreNext]_storeVars PROVE StoreInv'
  OBVIOUS
<1>. USE DEF StoreInv
<1>1. TypeOK'
  BY StoreOperates, TypeInductive, PeerWritesType, RestartType
<1>. SUFFICES StoreTypeOK' /\ TodoListed'
  BY <1>1
<1>0. visiting' \in VsIDs \cup RsIDs \cup {None}
  BY VisitingType
<1>2. CASE ListServices
  <2>1. sync' \in Sync /\ sync'.pc = "listed"
    BY <1>2, ListServicesEffect, SyncAtType, SyncType DEF TypeOK
  <2>2. UNCHANGED <<serving, dirty>>
    BY <1>2, Zenon DEF ListServices
  <2>. QED
    BY <1>0, <2>1, <2>2 DEF StoreTypeOK, TodoListed
<1>3. CASE ListBackends
  <2>1. sync' \in Sync /\ sync'.pc = "read"
    BY <1>3, ListBackendsEffect, SyncAtType, SyncType DEF TypeOK
  <2>2. serving' = serving /\ dirty' \subseteq dirty
    BY <1>3 DEF ListBackends
  <2>. QED
    BY <1>0, <2>1, <2>2 DEF StoreTypeOK, TodoListed
<1>4. CASE Synchronize
  <2>. DEFINE T == {v \in Registered : sync.services[v] = None}
  <2>1. T \subseteq VsIDs
    BY DEF Registered
  <2>2. SyncAt("dropServices", sync.services, sync.backends, T)
    BY <1>4, SynchronizeEffect
  <2>. HIDE DEF T
  <2>3. /\ sync' \in Sync /\ sync'.pc = "dropServices" /\ sync'.todo = T
        /\ sync'.services = sync.services
    BY <2>1, <2>2, SyncAtType, SyncType DEF Loops
  <2>4. UNCHANGED <<serving, dirty>>
    BY <1>4, Zenon DEF Synchronize
  <2>. QED
    BY <1>0, <2>1, <2>3, <2>4 DEF StoreTypeOK, TodoListed, T
<1>5. CASE NextLoop
  <2>. DEFINE A == {v \in VsIDs : sync.services[v] # None}
              D == {r \in Backends : sync.backends[r] = None}
              B == {r \in RsIDs : sync.backends[r] # None}
  <2>0. UNCHANGED <<serving, dirty>>
    BY <1>5, Zenon DEF NextLoop
  <2>1. D \subseteq RsIDs
    BY DEF Backends
  <2>2. \/ SyncAt("addServices", sync.services, sync.backends, A)
        \/ SyncAt("dropBackends", sync.services, sync.backends, D)
        \/ SyncAt("addBackends", sync.services, sync.backends, B)
    BY <1>5, NextLoopEffect
  <2>3. CASE SyncAt("addServices", sync.services, sync.backends, A)
    <3>1. /\ sync' \in Sync /\ sync'.pc = "addServices" /\ sync'.todo = A
          /\ sync'.services = sync.services
      BY <2>3, SyncAtType, SyncType DEF Loops
    <3>. QED
      BY <1>0, <2>0, <3>1 DEF StoreTypeOK, TodoListed
  <2>4. CASE SyncAt("dropBackends", sync.services, sync.backends, D)
    <3>1. /\ sync' \in Sync /\ sync'.pc = "dropBackends" /\ sync'.todo = D
          /\ sync'.backends = sync.backends
      BY <2>1, <2>4, SyncAtType, SyncType DEF Loops
    <3>. QED
      BY <1>0, <2>0, <2>1, <3>1 DEF StoreTypeOK, TodoListed
  <2>5. CASE SyncAt("addBackends", sync.services, sync.backends, B)
    <3>1. /\ sync' \in Sync /\ sync'.pc = "addBackends" /\ sync'.todo = B
          /\ sync'.backends = sync.backends
      BY <2>5, SyncAtType, SyncType DEF Loops
    <3>. QED
      BY <1>0, <2>0, <3>1 DEF StoreTypeOK, TodoListed
  <2>. QED
    BY <2>2, <2>3, <2>4, <2>5
<1>6. CASE LoopStep
  BY <1>0, <1>6, LoopStepEffect DEF StoreTypeOK, TodoListed
<1>7. CASE Synchronized \/ ListFails \/ Restart
  <2>1. sync' = NotSyncing /\ serving' \in BOOLEAN /\ dirty' = {}
    BY <1>7 DEF Synchronized, ListFails, Restart
  <2>. QED
    BY <1>0, <2>1, NotSyncingType, SyncType DEF StoreTypeOK, TodoListed
<1>8. CASE Handler \/ PeerWrites
  <2>1. UNCHANGED <<sync, serving>> /\ dirty' \subseteq dirty \cup Written
    BY <1>8 DEF Handler, PeerWrites
  <2>. QED
    BY <1>0, <2>1, WrittenType DEF StoreTypeOK, TodoListed
<1>9. CASE UNCHANGED storeVars
  BY <1>9 DEF storeVars, StoreTypeOK, TodoListed
<1>. QED
  BY <1>2, <1>3, <1>4, <1>5, <1>6, <1>7, <1>8, <1>9 DEF StoreNext, SyncStep, LoopStep

LEMMA StoreInvariant == StoreSpec => []StoreInv
<1>1. Init => TypeOK
  BY DEF Init, TypeOK
<1>2. StoreInit => StoreTypeOK /\ TodoListed
  <2>1. NotSyncing \in Sync /\ NotSyncing.pc = "idle"
    BY NotSyncingType DEF NotSyncing
  <2>. QED
    BY <2>1 DEF StoreInit, StoreTypeOK, TodoListed
<1>3. StoreInit => StoreInv
  BY <1>1, <1>2 DEF StoreInit, StoreInv
<1>. QED
  BY <1>3, StoreTypesInductive, PTL DEF StoreSpec

\* A Sync never meets a name, listing or position that is not of its type, and its loops
\* range over services or over backends, whatever fails or is restarted.
THEOREM StoreTypes == StoreSpec => []StoreTypeOK
<1>1. StoreInv => StoreTypeOK
  BY DEF StoreInv
<1>. QED
  BY <1>1, StoreInvariant, PTL

-----------------------------------------------------------------------------
(* Registry, kernel and store *)

\* A peer writes to the store alone.
LEMMA PeerWritesEffect ==
    ASSUME PeerWrites
    PROVE  HasPeers /\ UNCHANGED <<services, backends, stopped, virtuals, dests, addrs, catalog>>
  BY DEF PeerWrites, registry, kernel

\* A new process knows no names.
LEMMA RestartEffect ==
    ASSUME Restart
    PROVE  Registered' = {} /\ Backends' = {} /\ UNCHANGED <<storedServices, storedBackends>>
  BY DEF Restart, Registered, Backends, stored

\* What Sync, handlers, peers and restarts do to the registry and the kernel leaves every
\* registered name with a virtual service of its own, with the scheduler asked for, also
\* after a restart that finds the kernel's tables filled.
THEOREM SyncKernelAgrees == StoreSpec => []RegisteredInKernel
<1>1. StoreInit => RegisteredInKernel
  BY DEF StoreInit, Init, RegisteredInKernel, Registered
<1>2. StoreInv /\ RegisteredInKernel /\ [StoreNext]_storeVars => RegisteredInKernel'
  <2>. SUFFICES ASSUME StoreInv, RegisteredInKernel, [StoreNext]_storeVars
                PROVE  RegisteredInKernel'
    OBVIOUS
  <2>1. CASE [Operation]_ctxVars
    BY <2>1, KernelInductive DEF StoreInv
  <2>2. CASE PeerWrites
    BY <2>2, PeerWritesEffect DEF RegisteredInKernel, Registered
  <2>3. CASE Restart
    BY <2>3, RestartEffect DEF RegisteredInKernel
  <2>. QED
    BY <2>1, <2>2, <2>3, StoreOperates
<1>. QED
  BY <1>1, <1>2, StoreInvariant, PTL DEF StoreSpec

\* An instance that is alone on its store has every service it registered there, also
\* while a Sync deletes keys and writes them again. A peer may delete a key at any time.
THEOREM SyncStoreCorrect ==
    ASSUME ~HasPeers, Extensions = {}
    PROVE  StoreSpec => []RegisteredIsStored
<1>1. StoreInit => RegisteredIsStored
  BY DEF StoreInit, Init, RegisteredIsStored, Registered
<1>2. StoreInv /\ RegisteredIsStored /\ [StoreNext]_storeVars => RegisteredIsStored'
  <2>. SUFFICES ASSUME StoreInv, RegisteredIsStored, [StoreNext]_storeVars
                PROVE  RegisteredIsStored'
    OBVIOUS
  <2>1. CASE [Operation]_ctxVars
    BY <2>1, StoredInductive DEF StoreInv
  <2>2. CASE Restart
    BY <2>2, RestartEffect DEF RegisteredIsStored
  <2>. QED
    BY <2>1, <2>2, StoreOperates, PeerWritesEffect
<1>. QED
  BY <1>1, <1>2, StoreInvariant, PTL DEF StoreSpec

LEMMA SyncReliable ==
    ASSUME Reliable
    PROVE  StoreSpec => []ReliableInv
<1>1. StoreInit => ReliableInv
  BY ReliableInit DEF StoreInit
<1>2. StoreInv /\ ReliableInv /\ [StoreNext]_storeVars => ReliableInv'
  <2>. SUFFICES ASSUME StoreInv, ReliableInv, [StoreNext]_storeVars
                PROVE  ReliableInv'
    OBVIOUS
  <2>1. CASE [Operation]_ctxVars
    BY <2>1, ReliableInductive
  <2>2. CASE PeerWrites
    <3>1. TypeOK' /\ UNCHANGED <<services, backends, stopped, virtuals, dests>>
      BY <2>2, PeerWritesEffect, PeerWritesType DEF ReliableInv
    <3>2. RegisteredInKernel' /\ PtrsConsistent'
      BY <3>1 DEF ReliableInv, RegisteredInKernel, PtrsConsistent, Registered, Backends
    <3>3. MonitorsDistinct' /\ BackendsServed' /\ BackendsInKernel' /\ PulsesAlive'
      BY <3>1 DEF ReliableInv, MonitorsDistinct, BackendsServed, BackendsInKernel, PulsesAlive,
                  Registered, Backends
    <3>. QED
      BY <3>1, <3>2, <3>3 DEF ReliableInv
  <2>3. CASE Restart
    BY <2>3, RestartEffect, RestartType
    DEF ReliableInv, RegisteredInKernel, PtrsConsistent, MonitorsDistinct, BackendsServed,
        BackendsInKernel, PulsesAlive
  <2>. QED
    BY <2>1, <2>2, <2>3, StoreOperates
<1>. QED
  BY <1>1, <1>2, StoreInvariant, PTL DEF StoreSpec

\* Backends that Sync creates, replaces and removes next to the handlers' are all
\* health-checked: no pulse of a registered backend is stopped.
THEOREM SyncPulsesAlive ==
    ASSUME Reliable
    PROVE  StoreSpec => []PulsesAlive
<1>1. ReliableInv => PulsesAlive
  BY DEF ReliableInv
<1>. QED
  BY <1>1, SyncReliable, PTL

SyncRuns == sync.pc # "panicked"

\* Hence Synchronize never stops a pulse twice, which would kill the process: nothing
\* recovers a panic in the goroutine of Sync.
THEOREM SyncSurvives ==
    ASSUME Reliable
    PROVE  StoreSpec => []SyncRuns
<1>1. StoreInit => SyncRuns
  BY DEF StoreInit, NotSyncing, SyncRuns
<1>2. StoreInv /\ ReliableInv /\ SyncRuns /\ [StoreNext]_storeVars => SyncRuns'
  <2>. SUFFICES ASSUME StoreInv, ReliableInv, sync.pc # "panicked", [StoreNext]_storeVars
                PROVE  sync'.pc # "panicked"
    BY DEF SyncRuns
  <2>1. CASE LoopStep
    <3>1. PICK todo : Continue(todo, FALSE)
      <4>1. ASSUME NEW v, NEW down PROVE ~ServiceStopPanics(v, down)
        BY DEF ServiceStopPanics, BackendsOf, ReliableInv, PulsesAlive
      <4>2. ASSUME NEW r, r \in Backends PROVE ~BackendStopPanics(r)
        BY <4>2 DEF BackendStopPanics, ReliableInv, PulsesAlive
      <4>3. CASE DropService \/ ReplaceService
        <5>1. PICK v, down, todo : Continue(todo, ServiceStopPanics(v, down))
          BY <4>3, Zenon DEF DropService, ReplaceService
        <5>. QED
          BY <4>1, <5>1, Zenon DEF Continue
      <4>4. CASE DropBackend
        <5>1. PICK r \in sync.todo :
                 /\ sync.pc = "dropBackends" /\ backends[r] # None
                 /\ Continue(sync.todo \ {r}, BackendStopPanics(r))
          BY <4>4, Zenon DEF DropBackend, RemoveBackend
        <5>2. r \in Backends
          BY <5>1 DEF StoreInv, TodoListed, Backends
        <5>. QED
          BY <4>2, <5>1, <5>2, Zenon DEF Continue
      <4>5. CASE ReplaceBackend
        <5>1. PICK r \in sync.todo :
                 /\ sync.pc = "addBackends" /\ backends[r] # None
                 /\ Continue(IF backends'[r] = None THEN sync.todo ELSE sync.todo \ {r},
                             BackendStopPanics(r))
          BY <4>5, Zenon DEF ReplaceBackend
        <5>2. r \in Backends
          BY <5>1 DEF StoreInv, TodoListed, Backends
        <5>. QED
          BY <4>2, <5>1, <5>2, Zenon DEF Continue
      <4>6. CASE KeepService \/ AddService
        BY <4>6, Zenon DEF KeepService, AddService
      <4>7. CASE KeepBackend \/ AddBackend \/ SkipBackend
        BY <4>7, Zenon DEF KeepBackend, AddBackend, SkipBackend
      <4>. QED
        BY <2>1, <4>3, <4>4, <4>5, <4>6, <4>7 DEF LoopStep
    <3>2. SyncAt(sync.pc, sync.services, sync.backends, todo)
      BY <3>1, ContinueEffect DEF StoreInv
    <3>. QED
      BY <3>2 DEF SyncAt
  <2>2. CASE ListServices \/ ListBackends \/ Synchronize \/ NextLoop
    BY <2>2, ListServicesEffect, ListBackendsEffect, SynchronizeEffect, NextLoopEffect
    DEF StoreInv, SyncAt
  <2>3. CASE Synchronized \/ ListFails \/ Restart
    BY <2>3 DEF Synchronized, ListFails, Restart, NotSyncing
  <2>4. CASE Handler \/ PeerWrites \/ UNCHANGED storeVars
    BY <2>4 DEF Handler, PeerWrites, storeVars
  <2>. QED
    BY <2>1, <2>2, <2>3, <2>4 DEF StoreNext, SyncStep, LoopStep
<1>. QED
  BY <1>1, <1>2, StoreInvariant, SyncReliable, PTL DEF StoreSpec

-----------------------------------------------------------------------------
(* What the loops do to the store *)

\* The loop goes on with the names in todo.
Goes(todo) ==
    /\ sync'.pc = sync.pc
    /\ sync'.services = sync.services
    /\ sync'.backends = sync.backends
    /\ sync'.todo = todo

LEMMA ContinueGoes ==
    ASSUME StoreTypeOK, NEW todo, NEW panics, Continue(todo, panics)
    PROVE  sync'.pc = "panicked" \/ (~panics /\ Goes(todo))
<1>1. CASE SyncAt("panicked", NotSyncing.services, NotSyncing.backends, {})
  BY <1>1 DEF SyncAt
<1>2. CASE ~panics /\ SyncAt(sync.pc, sync.services, sync.backends, todo)
  BY <1>2 DEF SyncAt, Goes
<1>. QED
  BY <1>1, <1>2, ContinueEffect

\* DeleteTree leaves a key or deletes it.
LEMMA DeleteTreeShrinks ==
    ASSUME NEW I, NEW V, NEW table \in [I -> V \cup {None}], NEW ids, NEW down,
           NEW t \in DeleteTree(table, ids, down)
    PROVE  \A i \in I : t[i] = table[i] \/ t[i] = None
  BY DEF DeleteTree

LEMMA RemoveServiceStored ==
    ASSUME TypeOK, NEW v \in VsIDs, NEW down, RemoveService(v, down)
    PROVE  /\ services' = [services EXCEPT ![v] = None]
           /\ \A w \in VsIDs : storedServices'[w] = storedServices[w] \/ storedServices'[w] = None
           /\ \A r \in RsIDs : storedBackends'[r] = storedBackends[r] \/ storedBackends'[r] = None
           /\ \A r \in RsIDs : backends'[r] = backends[r] \/ backends'[r] = None
           /\ Extensions = {} =>
                 /\ \A w \in VsIDs : w # v => storedServices'[w] = storedServices[w]
                 /\ \A r \in RsIDs : backends'[r] # None => storedBackends'[r] = storedBackends[r]
<1>1. services' = [services EXCEPT ![v] = None]
  BY DEF RemoveService
<1>2. CASE ~DelServiceOK(services[v].opts, down)
  BY <1>1, <1>2 DEF RemoveService, stored
<1>3. CASE DelServiceOK(services[v].opts, down)
  <2>1. PICK ids \in SUBSET RsIDs : CleanUp(ids, down)
    BY <1>3 DEF RemoveService, BackendsOf, Backends
  <2>2. storedServices' \in DeleteTree(storedServices, {v}, down)
    BY <1>3 DEF RemoveService
  <2>3. /\ storedServices \in [VsIDs -> FilledServices \cup {None}]
        /\ storedBackends \in [RsIDs -> StoredBackend \cup {None}]
    BY DEF TypeOK
  <2>4. storedBackends' \in DeleteTree(storedBackends, ids, down)
    BY <2>1 DEF CleanUp
  <2>5. \A r \in RsIDs : backends'[r] = IF r \in ids THEN None ELSE backends[r]
    BY <2>1 DEF CleanUp
  <2>6. \A w \in VsIDs : storedServices'[w] = storedServices[w] \/ storedServices'[w] = None
    BY <2>2, <2>3, DeleteTreeShrinks
  <2>7. \A r \in RsIDs : storedBackends'[r] = storedBackends[r] \/ storedBackends'[r] = None
    BY <2>3, <2>4, DeleteTreeShrinks
  <2>8. ASSUME Extensions = {}
        PROVE  /\ \A w \in VsIDs : w # v => storedServices'[w] = storedServices[w]
               /\ \A r \in RsIDs : r \notin ids => storedBackends'[r] = storedBackends[r]
    <3>1. \A w \in VsIDs : w \notin {v} => storedServices'[w] = storedServices[w]
      BY <2>2, <2>3, <2>8, DeleteTreeKeeps
    <3>2. \A r \in RsIDs : r \notin ids => storedBackends'[r] = storedBackends[r]
      <4>. DEFINE t == storedBackends'
      <4>1. t \in DeleteTree(storedBackends, ids, down)
        BY <2>4
      <4>. HIDE DEF t
      <4>2. \A r \in RsIDs : r \notin ids => t[r] = storedBackends[r]
        BY <2>3, <2>8, <4>1, DeleteTreeKeeps
      <4>. QED
        BY <4>2 DEF t
    <3>. QED
      BY <3>1, <3>2
  <2>. QED
    BY <1>1, <2>5, <2>6, <2>7, <2>8
<1>. QED
  BY <1>2, <1>3

LEMMA RemoveBackendStored ==
    ASSUME TypeOK, NEW r \in RsIDs, NEW down, RemoveBackend(r, down)
    PROVE  /\ UNCHANGED <<services, storedServices>>
           /\ \A s \in RsIDs : storedBackends'[s] = storedBackends[s] \/ storedBackends'[s] = None
           /\ \A s \in RsIDs : s # r => backends'[s] = backends[s]
           /\ Extensions = {} => \A s \in RsIDs : s # r => storedBackends'[s] = storedBackends[s]
<1>1. UNCHANGED <<services, storedServices>>
  BY DEF RemoveBackend
<1>2. \A s \in RsIDs : s # r => backends'[s] = backends[s]
  BY DEF RemoveBackend, TypeOK
<1>3. /\ storedBackends' \in DeleteTree(storedBackends, {r}, down)
      /\ storedBackends \in [RsIDs -> StoredBackend \cup {None}]
  BY DEF RemoveBackend, TypeOK
<1>4. \A s \in RsIDs : storedBackends'[s] = storedBackends[s] \/ storedBackends'[s] = None
  BY <1>3, DeleteTreeShrinks
<1>5. ASSUME Extensions = {}
      PROVE  \A s \in RsIDs : s \notin {r} => storedBackends'[s] = storedBackends[s]
  BY <1>3, <1>5, DeleteTreeKeeps
<1>. QED
  BY <1>1, <1>2, <1>4, <1>5

\* Fill leaves the options in the store as they are.
LEMMA StoredFilled ==
    /\ \A o \in FilledServices : FillService(o) = o
    /\ \A b \in StoredBackend : [opts |-> FillBackend(b.opts), VsID |-> b.VsID] = b
<1>1. ASSUME NEW o \in FilledServices PROVE FillService(o) = o
  <2>1. PICK x : ServiceValid(x) /\ o = FillService(x)
    BY DEF FilledServices
  <2>. QED
    BY <2>1, ServiceFillAgain
<1>2. ASSUME NEW b \in StoredBackend
      PROVE  [opts |-> FillBackend(b.opts), VsID |-> b.VsID] = b
  <2>1. b.opts \in FilledBackends
    BY DEF StoredBackend
  <2>2. PICK x \in BackendRequests : BackendValid(x) /\ b.opts = FillBackend(x)
    BY <2>1 DEF FilledBackends
  <2>3. x.Weight \in Nat
    BY RequestAssumption DEF BackendOptions
  <2>4. FillBackend(b.opts) = b.opts
    BY <2>2, <2>3, BackendFillAgain
  <2>. QED
    BY <2>4 DEF StoredBackend
<1>. QED
  BY <1>1, <1>2

LEMMA AddServiceStored ==
    ASSUME StoreInv, AddService
    PROVE  \E v \in VsIDs :
              /\ v \in sync.todo /\ sync.services[v] # None /\ services[v] = None
              /\ Goes(sync.todo \ {v})
              /\ UNCHANGED <<backends, storedBackends>>
              /\ \A w \in VsIDs : w # v => /\ storedServices'[w] = storedServices[w]
                                           /\ services'[w] = services[w]
              /\ \/ storedServices'[v] = storedServices[v]
                 \/ storedServices'[v] = sync.services[v]
              /\ "store" \notin MayFail => storedServices'[v] # None
<1>1. PICK v \in sync.todo, p \in FreePtrs, down \in Outages :
         /\ sync.pc = "addServices"
         /\ CreateService(v, sync.services[v], p, down)
         /\ Continue(sync.todo \ {v}, FALSE)
  BY Zenon DEF AddService
<1>2. /\ v \in VsIDs /\ sync.services[v] # None
      /\ sync.services[v] \in FilledServices /\ p \in SvcPtrs
  BY <1>1, SyncType DEF StoreInv, TodoListed, FreePtrs
<1>3. Goes(sync.todo \ {v}) \/ sync'.pc = "panicked"
  BY <1>1, ContinueGoes DEF StoreInv
<1>4. sync'.pc # "panicked"
  <2>1. SyncAt(sync.pc, sync.services, sync.backends, sync.todo \ {v})
    BY <1>1, ContinueEffect DEF StoreInv
  <2>. QED
    BY <1>1, <2>1 DEF SyncAt
<1>. DEFINE o == sync.services[v]
<1>5. FillService(o) = o
  BY <1>2, StoredFilled
<1>6. /\ storedServices' = Put(storedServices, v, FillService(o), FALSE, down)
      /\ UNCHANGED <<backends, storedBackends>>
      /\ services[v] = None
  BY <1>1 DEF CreateService, NameFree
<1>7. \A w \in VsIDs : w # v => services'[w] = services[w]
  BY <1>1, <1>2, WriteService DEF StoreInv, ServiceInputs
<1>. HIDE DEF o
<1>8. storedServices' = Put(storedServices, v, o, FALSE, down)
  BY <1>5, <1>6
<1>9. storedServices \in [VsIDs -> FilledServices \cup {None}]
  BY DEF StoreInv, TypeOK
<1>10. /\ \A w \in VsIDs : w # v => storedServices'[w] = storedServices[w]
       /\ storedServices'[v] = storedServices[v] \/ storedServices'[v] = o
  BY <1>2, <1>8, <1>9 DEF Put
<1>11. "store" \notin MayFail => storedServices'[v] # None
  <2>1. "store" \notin MayFail => StoreOK(down) /\ HasStore
    BY StoreAssumption DEF StoreOK, Outages
  <2>2. o # None
    BY <1>2 DEF o
  <2>. QED
    BY <1>2, <1>8, <1>9, <2>1, <2>2 DEF Put
<1>. QED
  BY <1>1, <1>2, <1>3, <1>4, <1>6, <1>7, <1>10, <1>11 DEF o

LEMMA AddBackendStored ==
    ASSUME StoreInv, AddBackend
    PROVE  \E r \in RsIDs :
              /\ r \in sync.todo /\ sync.backends[r] # None /\ backends[r] = None
              /\ Goes(sync.todo \ {r})
              /\ UNCHANGED <<services, storedServices>>
              /\ \A s \in RsIDs : s # r => /\ storedBackends'[s] = storedBackends[s]
                                           /\ backends'[s] = backends[s]
              /\ \/ storedBackends'[r] = storedBackends[r]
                 \/ storedBackends'[r] = sync.backends[r]
              /\ "store" \notin MayFail => storedBackends'[r] # None
<1>1. PICK r \in sync.todo, q \in FreePulses, down \in Outages :
         /\ sync.pc = "addBackends"
         /\ CreateBackend(sync.backends[r].VsID, r, sync.backends[r].opts, q, down)
         /\ Continue(sync.todo \ {r}, FALSE)
  BY Zenon DEF AddBackend
<1>2. r \in RsIDs /\ sync.backends[r] # None /\ sync.backends[r] \in StoredBackend
  BY <1>1, SyncType DEF StoreInv, TodoListed
<1>3. Goes(sync.todo \ {r}) \/ sync'.pc = "panicked"
  BY <1>1, ContinueGoes DEF StoreInv
<1>4. sync'.pc # "panicked"
  <2>1. SyncAt(sync.pc, sync.services, sync.backends, sync.todo \ {r})
    BY <1>1, ContinueEffect DEF StoreInv
  <2>. QED
    BY <1>1, <2>1 DEF SyncAt
<1>. DEFINE b == sync.backends[r]
            f == [opts |-> FillBackend(b.opts), VsID |-> b.VsID]
<1>5. f = b
  BY <1>2, StoredFilled
<1>6. /\ storedBackends' = Put(storedBackends, r, f, FALSE, down)
      /\ UNCHANGED <<services, storedServices>>
      /\ backends[r] = None
  BY <1>1 DEF CreateBackend
<1>7. \A s \in RsIDs : s # r => backends'[s] = backends[s]
  <2>1. b.VsID \in VsIDs /\ b.opts \in BackendInputs
    BY <1>2 DEF StoredBackend, BackendInputs
  <2>. QED
    BY <1>1, <1>2, <2>1, CreateBackendEffect DEF StoreInv
<1>. HIDE DEF b, f
<1>8. storedBackends' = Put(storedBackends, r, b, FALSE, down)
  BY <1>5, <1>6
<1>9. storedBackends \in [RsIDs -> StoredBackend \cup {None}]
  BY DEF StoreInv, TypeOK
<1>10. /\ \A s \in RsIDs : s # r => storedBackends'[s] = storedBackends[s]
       /\ storedBackends'[r] = storedBackends[r] \/ storedBackends'[r] = b
  BY <1>2, <1>8, <1>9 DEF Put
<1>11. "store" \notin MayFail => storedBackends'[r] # None
  <2>1. "store" \notin MayFail => StoreOK(down) /\ HasStore
    BY StoreAssumption DEF StoreOK, Outages
  <2>2. b # None
    BY <1>2 DEF b
  <2>. QED
    BY <1>2, <1>8, <1>9, <2>1, <2>2 DEF Put
<1>. QED
  BY <1>1, <1>2, <1>3, <1>4, <1>6, <1>7, <1>10, <1>11 DEF b

-----------------------------------------------------------------------------
(* A stale listing does harm only where someone wrote *)

\* What nobody else wrote is in the store as it was listed, or Synchronize has deleted it.
ListedServices ==
    sync.pc \in {"listed", "read"} \cup Loops =>
        \A v \in VsIDs : \/ ServiceKey(v) \in dirty
                         \/ storedServices[v] = sync.services[v]
                         \/ storedServices[v] = None
ListedBackends ==
    sync.pc \in {"read"} \cup Loops =>
        \A r \in RsIDs : \/ BackendKey(r) \in dirty
                         \/ storedBackends[r] = sync.backends[r]
                         \/ storedBackends[r] = None

StaleInv == ListedServices /\ ListedBackends

LEMMA LoopStepStored ==
    ASSUME StoreInv, LoopStep
    PROVE  /\ \A v \in VsIDs : \/ storedServices'[v] = storedServices[v]
                               \/ storedServices'[v] = sync.services[v]
                               \/ storedServices'[v] = None
           /\ \A r \in RsIDs : \/ storedBackends'[r] = storedBackends[r]
                               \/ storedBackends'[r] = sync.backends[r]
                               \/ storedBackends'[r] = None
<1>1. CASE DropService \/ ReplaceService
  <2>1. PICK v \in sync.todo, down \in Outages :
           sync.pc \in {"dropServices", "addServices"} /\ RemoveService(v, down)
    BY <1>1, Zenon DEF DropService, ReplaceService
  <2>2. v \in VsIDs
    BY <2>1 DEF StoreInv, TodoListed
  <2>. QED
    BY <2>1, <2>2, RemoveServiceStored DEF StoreInv
<1>2. CASE AddService
  BY <1>2, AddServiceStored
<1>3. CASE DropBackend \/ ReplaceBackend
  <2>1. PICK r \in sync.todo, down \in Outages :
           sync.pc \in {"dropBackends", "addBackends"} /\ RemoveBackend(r, down)
    BY <1>3, Zenon DEF DropBackend, ReplaceBackend
  <2>2. r \in RsIDs
    BY <2>1 DEF StoreInv, TodoListed
  <2>. QED
    BY <2>1, <2>2, RemoveBackendStored DEF StoreInv
<1>4. CASE AddBackend
  BY <1>4, AddBackendStored
<1>5. CASE KeepService \/ KeepBackend \/ SkipBackend
  <2>1. UNCHANGED ctxVars
    BY <1>5, Zenon DEF KeepService, KeepBackend, SkipBackend
  <2>. QED
    BY <2>1 DEF ctxVars, stored
<1>. QED
  BY <1>1, <1>2, <1>3, <1>4, <1>5 DEF LoopStep

\* What a handler or a peer writes during a Sync becomes dirty.
LEMMA WrittenDirty ==
    ASSUME Handler \/ PeerWrites
    PROVE  /\ sync' = sync
           /\ sync.pc # "idle" =>
                 /\ dirty \subseteq dirty'
                 /\ \A v \in VsIDs : \/ ServiceKey(v) \in dirty'
                                     \/ storedServices'[v] = storedServices[v]
                 /\ \A r \in RsIDs : \/ BackendKey(r) \in dirty'
                                     \/ storedBackends'[r] = storedBackends[r]
<1>1. sync' = sync /\ dirty' = IF sync.pc = "idle" THEN {} ELSE dirty \cup Written
  BY DEF Handler, PeerWrites
<1>2. /\ \A v \in VsIDs : storedServices'[v] # storedServices[v] => ServiceKey(v) \in Written
      /\ \A r \in RsIDs : storedBackends'[r] # storedBackends[r] => BackendKey(r) \in Written
  BY DEF Written
<1>. QED
  BY <1>1, <1>2

\* The keys of services and those of backends are different.
LEMMA KeysApart == \A v, r : ServiceKey(v) # BackendKey(r)
  BY DEF ServiceKey, BackendKey

LEMMA StaleInductive == StoreInv /\ StaleInv /\ [StoreNext]_storeVars => StaleInv'
<1>. SUFFICES ASSUME StoreInv, StaleInv, [StoreNext]_storeVars PROVE StaleInv'
  OBVIOUS
<1>1. CASE ListServices
  <2>1. sync'.pc = "listed" /\ sync'.services = storedServices
    BY <1>1, ListServicesEffect DEF StoreInv, SyncAt
  <2>2. storedServices' = storedServices
    BY <1>1, Zenon DEF ListServices, ctxVars, stored
  <2>. QED
    BY <2>1, <2>2 DEF StaleInv, ListedServices, ListedBackends, Loops
<1>2. CASE ListBackends
  <2>1. /\ sync.pc = "listed"
        /\ sync'.pc = "read" /\ sync'.services = sync.services /\ sync'.backends = storedBackends
    BY <1>2, ListBackendsEffect DEF StoreInv, SyncAt, ListBackends
  <2>2. UNCHANGED <<storedServices, storedBackends>>
    BY <1>2, Zenon DEF ListBackends, ctxVars, stored
  <2>3. dirty' = dirty \ {BackendKey(r) : r \in RsIDs}
    BY <1>2, Zenon DEF ListBackends
  <2>4. \A v \in VsIDs : ServiceKey(v) \in dirty => ServiceKey(v) \in dirty'
    BY <2>3, KeysApart
  <2>. QED
    BY <2>1, <2>2, <2>4 DEF StaleInv, ListedServices, ListedBackends, Loops
<1>3. CASE Synchronize \/ NextLoop
  <2>1. UNCHANGED <<storedServices, storedBackends, dirty>>
    BY <1>3, Zenon DEF Synchronize, NextLoop, ctxVars, stored
  <2>2. /\ sync.pc \in {"read"} \cup Loops
        /\ sync'.services = sync.services /\ sync'.backends = sync.backends
    <3>1. CASE Synchronize
      BY <3>1, SynchronizeEffect DEF StoreInv, SyncAt, Synchronize
    <3>2. CASE NextLoop
      BY <3>2, NextLoopEffect DEF StoreInv, SyncAt, Loops
    <3>. QED
      BY <1>3, <3>1, <3>2
  <2>. QED
    BY <2>1, <2>2 DEF StaleInv, ListedServices, ListedBackends
<1>4. CASE LoopStep
  BY <1>4, LoopStepEffect, LoopStepStored
  DEF StoreInv, StaleInv, ListedServices, ListedBackends, Loops
<1>5. CASE Synchronized \/ ListFails \/ Restart
  <2>1. sync' = NotSyncing
    BY <1>5 DEF Synchronized, ListFails, Restart
  <2>2. sync'.pc = "idle"
    BY <2>1 DEF NotSyncing
  <2>. QED
    BY <2>2 DEF StaleInv, ListedServices, ListedBackends, Loops
<1>6. CASE Handler \/ PeerWrites
  BY <1>6, WrittenDirty DEF StaleInv, ListedServices, ListedBackends, Loops
<1>7. CASE UNCHANGED storeVars
  BY <1>7 DEF storeVars, ctxVars, stored, StaleInv, ListedServices, ListedBackends
<1>. QED
  BY <1>1, <1>2, <1>3, <1>4, <1>5, <1>6, <1>7 DEF StoreNext, SyncStep, LoopStep

\* A loop removes what the listing does not have, or has with other options.
LEMMA LoopRemoves ==
    ASSUME StoreInv, LoopStep
    PROVE  /\ \A v \in Registered : services'[v] = None =>
                 \/ sync.services[v] = None
                 \/ ~CompareServiceOptions(services[v].opts, sync.services[v])
           /\ sync.pc \in {"dropBackends", "addBackends"} =>
                 \A r \in Backends : backends'[r] = None =>
                     \/ sync.backends[r] = None
                     \/ ~CompareBackendOptions(backends[r].opts, sync.backends[r].opts)
<1>1. CASE DropService \/ ReplaceService
  <2>1. PICK v \in sync.todo, down \in Outages :
           /\ RemoveService(v, down)
           /\ \/ sync.pc = "dropServices"
              \/ /\ sync.pc = "addServices"
                 /\ ~CompareServiceOptions(services[v].opts, sync.services[v])
    BY <1>1, Zenon DEF DropService, ReplaceService
  <2>2. v \in VsIDs /\ (sync.pc = "dropServices" => sync.services[v] = None)
    BY <2>1 DEF StoreInv, TodoListed
  <2>3. \A w \in VsIDs : w # v => services'[w] = services[w]
    BY <2>1, <2>2, RemoveServiceStored DEF StoreInv, TypeOK
  <2>. QED
    BY <2>1, <2>2, <2>3 DEF Registered
<1>2. CASE AddService
  BY <1>2, AddServiceStored DEF Registered, Backends
<1>3. CASE DropBackend \/ ReplaceBackend
  <2>1. PICK r \in sync.todo, down \in Outages :
           /\ RemoveBackend(r, down)
           /\ \/ sync.pc = "dropBackends"
              \/ /\ sync.pc = "addBackends"
                 /\ ~CompareBackendOptions(backends[r].opts, sync.backends[r].opts)
    BY <1>3, Zenon DEF DropBackend, ReplaceBackend
  <2>2. r \in RsIDs /\ (sync.pc = "dropBackends" => sync.backends[r] = None)
    BY <2>1 DEF StoreInv, TodoListed
  <2>3. services' = services /\ \A s \in RsIDs : s # r => backends'[s] = backends[s]
    BY <2>1, <2>2, RemoveBackendStored DEF StoreInv
  <2>. QED
    BY <2>1, <2>2, <2>3 DEF Registered, Backends
<1>4. CASE AddBackend
  BY <1>4, AddBackendStored DEF Registered, Backends
<1>5. CASE KeepService \/ KeepBackend \/ SkipBackend
  <2>1. UNCHANGED ctxVars
    BY <1>5, Zenon DEF KeepService, KeepBackend, SkipBackend
  <2>. QED
    BY <2>1 DEF ctxVars, registry, Registered, Backends
<1>. QED
  BY <1>1, <1>2, <1>3, <1>4, <1>5 DEF LoopStep

\* Handlers and peers write between the listings and the mutex, and peers at any time.
\* Still Synchronize removes no service and no backend that the store has as it is,
\* unless someone wrote its key since it was listed.
THEOREM OnlyStale == StoreSpec => OnlyStaleUndone
<1>1. StoreInit => StaleInv
  BY DEF StoreInit, StaleInv, ListedServices, ListedBackends, NotSyncing, Loops
<1>. DEFINE U == sync.pc \in Loops /\ sync'.pc \in Loops =>
                   /\ \A v \in Registered : services'[v] = None =>
                         ~ServiceInStore(v) \/ ServiceKey(v) \in dirty
                   /\ sync.pc \in {"dropBackends", "addBackends"} =>
                         \A r \in Backends : backends'[r] = None =>
                             ~BackendInStore(r) \/ BackendKey(r) \in dirty
<1>2. StoreInv /\ StaleInv /\ [StoreNext]_storeVars => [U]_storeVars
  <2>. SUFFICES ASSUME StoreInv, StaleInv, [StoreNext]_storeVars,
                       sync.pc \in Loops, sync'.pc \in Loops
                PROVE  /\ \A v \in Registered : services'[v] = None =>
                             ~ServiceInStore(v) \/ ServiceKey(v) \in dirty
                       /\ sync.pc \in {"dropBackends", "addBackends"} =>
                             \A r \in Backends : backends'[r] = None =>
                                 ~BackendInStore(r) \/ BackendKey(r) \in dirty
    OBVIOUS
  <2>1. CASE LoopStep
    <3>1. ASSUME NEW v \in Registered, services'[v] = None, ServiceInStore(v),
                 ServiceKey(v) \notin dirty
          PROVE  FALSE
      <4>1. v \in VsIDs /\ services[v].opts # None
        BY RegisteredType, NoneAssumption DEF StoreInv, Registered
      <4>2. sync.services[v] = services[v].opts
        BY <3>1, <4>1 DEF ServiceInStore, StaleInv, ListedServices
      <4>3. CompareServiceOptions(services[v].opts, sync.services[v])
        BY <4>2 DEF CompareServiceOptions
      <4>. QED
        BY <2>1, <3>1, <4>1, <4>2, <4>3, LoopRemoves
    <3>2. ASSUME NEW r \in Backends, sync.pc \in {"dropBackends", "addBackends"},
                 backends'[r] = None, BackendInStore(r), BackendKey(r) \notin dirty
          PROVE  FALSE
      <4>1. sync.backends[r] = storedBackends[r] /\ sync.backends[r] # None
        BY <3>2 DEF Backends, BackendInStore, StaleInv, ListedBackends
      <4>2. CompareBackendOptions(backends[r].opts, sync.backends[r].opts)
        BY <3>2, <4>1 DEF BackendInStore, Forwarding, CompareBackendOptions
      <4>. QED
        BY <2>1, <3>2, <4>1, <4>2, LoopRemoves
    <3>. QED
      BY <3>1, <3>2
  <2>2. CASE UNCHANGED <<services, backends>>
    BY <2>2 DEF Registered, Backends
  <2>3. ~(Synchronized \/ ListFails \/ Restart)
    BY DEF Synchronized, ListFails, Restart, NotSyncing, Loops
  <2>4. ~(ListServices \/ ListBackends \/ Synchronize \/ Handler)
    BY DEF ListServices, ListBackends, Synchronize, Handler, Loops
  <2>5. NextLoop \/ PeerWrites \/ UNCHANGED storeVars => UNCHANGED <<services, backends>>
    BY DEF NextLoop, PeerWrites, storeVars, ctxVars, registry
  <2>. QED
    BY <2>1, <2>2, <2>3, <2>4, <2>5 DEF StoreNext, SyncStep, LoopStep
<1>. QED
  BY <1>1, <1>2, StaleInductive, StoreInvariant, PTL DEF StoreSpec, OnlyStaleUndone

-----------------------------------------------------------------------------
(* Synchronize leaves the store as it found it *)

Unfailing == Reliable /\ "store" \notin MayFail /\ Extensions = {}

\* A listed service that nobody else wrote is in the store, except between removal and
\* creation in the loop that replaces it.
KeptServices ==
    \A v \in VsIDs :
        sync.services[v] # None /\ ServiceKey(v) \notin dirty /\ storedServices[v] = None =>
            /\ sync.pc \notin {"listed", "read", "dropServices", "dropBackends", "addBackends"}
            /\ sync.pc = "addServices" => v \in sync.todo /\ services[v] = None

\* The same for backends, which also go with their service. The last loop creates them
\* again, or finds no service to attach them to.
KeptBackends ==
    \A r \in RsIDs :
        sync.backends[r] # None /\ BackendKey(r) \notin dirty /\ storedBackends[r] = None =>
            /\ sync.pc # "read"
            /\ sync.pc \in {"dropServices", "addServices", "dropBackends"} => backends[r] = None
            /\ sync.pc = "addBackends" => \/ r \in sync.todo /\ backends[r] = None
                                          \/ r \notin sync.todo /\ ~Attachable(sync.backends[r])

KeptInv == KeptServices /\ KeptBackends

LEMMA AttachableSame ==
    ASSUME services' = services, sync'.backends = sync.backends, NEW r
    PROVE  Attachable(sync.backends[r])' <=> Attachable(sync.backends[r])
  BY DEF Attachable

\* A process that is dying, or not in a Sync, has nothing to keep.
LEMMA KeptOutside ==
    ASSUME sync'.pc \in {"idle", "panicked"}
    PROVE  KeptInv'
  BY DEF KeptInv, KeptServices, KeptBackends

LEMMA KeptByRemoveService ==
    ASSUME Unfailing, StoreInv, KeptInv, DropService \/ ReplaceService
    PROVE  KeptInv'
<1>1. PICK v \in sync.todo, down \in Outages :
         /\ RemoveService(v, down)
         /\ \/ sync.pc = "dropServices" /\ \E todo, panics : Continue(todo, panics)
            \/ sync.pc = "addServices" /\ \E panics : Continue(sync.todo, panics)
  BY Zenon DEF DropService, ReplaceService
<1>2. v \in VsIDs /\ (sync.pc = "dropServices" => sync.services[v] = None)
  BY <1>1 DEF StoreInv, TodoListed
<1>3. /\ services'[v] = None
      /\ \A w \in VsIDs : w # v => /\ storedServices'[w] = storedServices[w]
                                   /\ services'[w] = services[w]
      /\ \A r \in RsIDs : backends'[r] = backends[r] \/ backends'[r] = None
      /\ \A r \in RsIDs : backends'[r] # None => storedBackends'[r] = storedBackends[r]
  BY <1>1, <1>2, RemoveServiceStored DEF StoreInv, TypeOK, Unfailing
<1>4. CASE sync'.pc = "panicked"
  BY <1>4, KeptOutside
<1>5. CASE sync'.pc # "panicked"
  <2>1. PICK todo : Goes(todo) /\ (sync.pc = "addServices" => todo = sync.todo)
    BY <1>1, <1>5, ContinueGoes DEF StoreInv
  <2>2. dirty' = dirty
    BY Zenon DEF DropService, ReplaceService
  <2>3. KeptServices'
    BY <1>1, <1>2, <1>3, <2>1, <2>2 DEF KeptInv, KeptServices, Goes
  <2>4. KeptBackends'
    BY <1>1, <1>3, <2>1, <2>2 DEF KeptInv, KeptBackends, Goes
  <2>. QED
    BY <2>3, <2>4 DEF KeptInv
<1>. QED
  BY <1>4, <1>5

LEMMA KeptByAddService ==
    ASSUME Unfailing, StoreInv, KeptInv, AddService
    PROVE  KeptInv'
<1>1. sync.pc = "addServices" /\ dirty' = dirty
  BY Zenon DEF AddService
<1>2. PICK v \in VsIDs :
         /\ Goes(sync.todo \ {v})
         /\ UNCHANGED <<backends, storedBackends>>
         /\ \A w \in VsIDs : w # v => /\ storedServices'[w] = storedServices[w]
                                      /\ services'[w] = services[w]
         /\ storedServices'[v] # None
  BY AddServiceStored DEF Unfailing
<1>3. KeptServices'
  BY <1>1, <1>2 DEF KeptInv, KeptServices, Goes
<1>4. KeptBackends'
  BY <1>1, <1>2 DEF KeptInv, KeptBackends, Goes
<1>. QED
  BY <1>3, <1>4 DEF KeptInv

\* removeBackend succeeds here, so a backend that is replaced stays on the list.
LEMMA KeptByRemoveBackend ==
    ASSUME Unfailing, StoreInv, ReliableInv, KeptInv, DropBackend \/ ReplaceBackend
    PROVE  KeptInv'
<1>1. PICK r \in sync.todo, down \in Outages :
         /\ RemoveBackend(r, down)
         /\ \/ sync.pc = "dropBackends" /\ \E todo, panics : Continue(todo, panics)
            \/ /\ sync.pc = "addBackends"
               /\ \E panics : Continue(IF backends'[r] = None THEN sync.todo
                                                              ELSE sync.todo \ {r}, panics)
  BY Zenon DEF DropBackend, ReplaceBackend
<1>2. r \in RsIDs /\ (sync.pc = "dropBackends" => sync.backends[r] = None)
  BY <1>1 DEF StoreInv, TodoListed
<1>3. /\ UNCHANGED <<services, storedServices>>
      /\ \A s \in RsIDs : s # r => /\ storedBackends'[s] = storedBackends[s]
                                   /\ backends'[s] = backends[s]
  BY <1>1, <1>2, RemoveBackendStored DEF StoreInv, Unfailing
<1>4. backends'[r] = None
  BY <1>1, <1>2, RemoveBackendEffect DEF Unfailing, ReliableInv, TypeOK
<1>5. CASE sync'.pc = "panicked"
  BY <1>5, KeptOutside
<1>6. CASE sync'.pc # "panicked"
  <2>1. PICK todo : Goes(todo) /\ (sync.pc = "addBackends" => todo = sync.todo)
    BY <1>1, <1>4, <1>6, ContinueGoes DEF StoreInv
  <2>2. dirty' = dirty
    BY Zenon DEF DropBackend, ReplaceBackend
  <2>3. KeptServices'
    BY <1>1, <1>3, <2>1, <2>2 DEF KeptInv, KeptServices, Goes
  <2>4. KeptBackends'
    BY <1>1, <1>2, <1>3, <1>4, <2>1, <2>2, AttachableSame DEF KeptInv, KeptBackends, Goes
  <2>. QED
    BY <2>3, <2>4 DEF KeptInv
<1>. QED
  BY <1>5, <1>6

LEMMA KeptByAddBackend ==
    ASSUME Unfailing, StoreInv, KeptInv, AddBackend
    PROVE  KeptInv'
<1>1. sync.pc = "addBackends" /\ dirty' = dirty
  BY Zenon DEF AddBackend
<1>2. PICK r \in RsIDs :
         /\ Goes(sync.todo \ {r})
         /\ UNCHANGED <<services, storedServices>>
         /\ \A s \in RsIDs : s # r => /\ storedBackends'[s] = storedBackends[s]
                                      /\ backends'[s] = backends[s]
         /\ storedBackends'[r] # None
  BY AddBackendStored DEF Unfailing
<1>3. KeptServices'
  BY <1>1, <1>2 DEF KeptInv, KeptServices, Goes
<1>4. KeptBackends'
  BY <1>1, <1>2, AttachableSame DEF KeptInv, KeptBackends, Goes
<1>. QED
  BY <1>3, <1>4 DEF KeptInv

LEMMA KeptByKeeping ==
    ASSUME StoreInv, KeptInv, KeepService \/ KeepBackend \/ SkipBackend
    PROVE  KeptInv'
<1>1. PICK x \in sync.todo :
         /\ Continue(sync.todo \ {x}, FALSE)
         /\ \/ sync.pc = "addServices" /\ services[x] # None
            \/ sync.pc = "addBackends" /\ backends[x] # None
            \/ sync.pc = "addBackends" /\ ~Attachable(sync.backends[x])
  BY Zenon DEF KeepService, KeepBackend, SkipBackend
<1>2. UNCHANGED ctxVars /\ dirty' = dirty
  BY Zenon DEF KeepService, KeepBackend, SkipBackend
<1>3. UNCHANGED <<services, backends, storedServices, storedBackends, dirty>>
  BY <1>2 DEF ctxVars, registry, stored
<1>4. CASE sync'.pc = "panicked"
  BY <1>4, KeptOutside
<1>5. CASE Goes(sync.todo \ {x})
  <2>1. KeptServices'
    BY <1>1, <1>3, <1>5 DEF KeptInv, KeptServices, Goes
  <2>2. KeptBackends'
    BY <1>1, <1>3, <1>5, AttachableSame DEF KeptInv, KeptBackends, Goes
  <2>. QED
    BY <2>1, <2>2 DEF KeptInv
<1>. QED
  BY <1>1, <1>4, <1>5, ContinueGoes DEF StoreInv

LEMMA KeptByNextLoop ==
    ASSUME StoreInv, KeptInv, Synchronize \/ NextLoop
    PROVE  KeptInv'
<1>1. UNCHANGED <<services, backends, storedServices, storedBackends, dirty>>
  BY Zenon DEF Synchronize, NextLoop, ctxVars, registry, stored
<1>2. /\ sync'.services = sync.services /\ sync'.backends = sync.backends
      /\ \/ sync.pc = "read" /\ sync'.pc = "dropServices"
         \/ sync.pc = "dropServices" /\ sync'.pc = "addServices" /\ sync.todo = {}
         \/ sync.pc = "addServices" /\ sync'.pc = "dropBackends" /\ sync.todo = {}
         \/ /\ sync.pc = "dropBackends" /\ sync'.pc = "addBackends" /\ sync.todo = {}
            /\ sync'.todo = {r \in RsIDs : sync.backends[r] # None}
  <2>1. CASE Synchronize
    BY <2>1, SynchronizeEffect DEF StoreInv, SyncAt, Synchronize
  <2>2. CASE NextLoop
    <3>1. sync.todo = {}
      BY <2>2, Zenon DEF NextLoop
    <3>. QED
      BY <2>2, <3>1, NextLoopEffect DEF StoreInv, SyncAt
  <2>. QED
    BY <2>1, <2>2
<1>3. KeptServices'
  BY <1>1, <1>2 DEF KeptInv, KeptServices
<1>4. KeptBackends'
  BY <1>1, <1>2 DEF KeptInv, KeptBackends
<1>. QED
  BY <1>3, <1>4 DEF KeptInv

LEMMA KeptByListing ==
    ASSUME StoreInv, KeptInv, ListServices \/ ListBackends
    PROVE  KeptInv'
<1>0. UNCHANGED <<storedServices, storedBackends>>
  BY Zenon DEF ListServices, ListBackends, ctxVars, stored
<1>1. CASE ListServices
  <2>1. sync'.pc = "listed" /\ sync'.services = storedServices
    BY <1>1, ListServicesEffect DEF StoreInv, SyncAt
  <2>. QED
    BY <1>0, <2>1 DEF KeptInv, KeptServices, KeptBackends
<1>2. CASE ListBackends
  <2>1. /\ sync.pc = "listed"
        /\ sync'.pc = "read" /\ sync'.services = sync.services /\ sync'.backends = storedBackends
    BY <1>2, ListBackendsEffect DEF StoreInv, SyncAt, ListBackends
  <2>2. dirty' = dirty \ {BackendKey(r) : r \in RsIDs}
    BY <1>2, Zenon DEF ListBackends
  <2>3. \A v \in VsIDs : ServiceKey(v) \in dirty => ServiceKey(v) \in dirty'
    BY <2>2, KeysApart
  <2>. QED
    BY <1>0, <2>1, <2>3 DEF KeptInv, KeptServices, KeptBackends
<1>. QED
  BY <1>1, <1>2

LEMMA KeptByOthers ==
    ASSUME StoreInv, KeptInv, Handler \/ PeerWrites
    PROVE  KeptInv'
<1>1. CASE sync.pc = "idle"
  BY <1>1, WrittenDirty, KeptOutside
<1>2. CASE sync.pc # "idle"
  <2>1. /\ sync' = sync /\ dirty \subseteq dirty'
        /\ \A v \in VsIDs : \/ ServiceKey(v) \in dirty'
                            \/ storedServices'[v] = storedServices[v]
        /\ \A r \in RsIDs : \/ BackendKey(r) \in dirty'
                            \/ storedBackends'[r] = storedBackends[r]
    BY <1>2, WrittenDirty
  <2>2. sync.pc \in Loops => UNCHANGED <<services, backends>>
    BY PeerWritesEffect DEF Handler
  <2>3. KeptServices'
    BY <2>1, <2>2 DEF KeptInv, KeptServices, Loops
  <2>4. KeptBackends'
    BY <2>1, <2>2, AttachableSame DEF KeptInv, KeptBackends, Loops
  <2>. QED
    BY <2>3, <2>4 DEF KeptInv
<1>. QED
  BY <1>1, <1>2

LEMMA KeptInductive ==
    ASSUME Unfailing
    PROVE  StoreInv /\ ReliableInv /\ KeptInv /\ [StoreNext]_storeVars => KeptInv'
<1>. SUFFICES ASSUME StoreInv, ReliableInv, KeptInv, [StoreNext]_storeVars PROVE KeptInv'
  OBVIOUS
<1>1. CASE LoopStep
  BY <1>1, KeptByRemoveService, KeptByAddService, KeptByRemoveBackend, KeptByAddBackend,
     KeptByKeeping DEF LoopStep
<1>2. CASE Synchronized \/ ListFails \/ Restart
  <2>1. sync' = NotSyncing
    BY <1>2 DEF Synchronized, ListFails, Restart
  <2>2. sync'.pc = "idle"
    BY <2>1 DEF NotSyncing
  <2>. QED
    BY <2>2, KeptOutside
<1>3. CASE UNCHANGED storeVars
  <2>1. UNCHANGED <<sync, dirty, services, backends, storedServices, storedBackends>>
    BY <1>3 DEF storeVars, ctxVars, registry, stored
  <2>2. KeptServices'
    BY <2>1 DEF KeptInv, KeptServices
  <2>3. KeptBackends'
    BY <2>1, AttachableSame DEF KeptInv, KeptBackends
  <2>. QED
    BY <2>2, <2>3 DEF KeptInv
<1>. QED
  BY <1>1, <1>2, <1>3, KeptByListing, KeptByNextLoop, KeptByOthers
  DEF StoreNext, SyncStep, LoopStep

\* Synchronize deletes and writes keys, and peers write meanwhile; when it is through,
\* every key it found listed is in the store again, unless someone else wrote it or it is
\* a backend without a service to attach it to.
THEOREM SyncKeeps ==
    ASSUME Unfailing
    PROVE  StoreSpec => SyncKeepsStore
<1>1. StoreInit => KeptInv
  BY DEF StoreInit, NotSyncing, KeptInv, KeptServices, KeptBackends
<1>. DEFINE K == Synchronized =>
                   /\ \A v \in VsIDs : sync.services[v] # None =>
                         storedServices[v] # None \/ ServiceKey(v) \in dirty
                   /\ \A r \in RsIDs : sync.backends[r] # None =>
                         \/ storedBackends[r] # None
                         \/ BackendKey(r) \in dirty
                         \/ ~Attachable(sync.backends[r])
<1>2. KeptInv /\ [StoreNext]_storeVars => [K]_storeVars
  BY DEF KeptInv, KeptServices, KeptBackends, Synchronized
<1>3. Unfailing => Reliable
  BY DEF Unfailing
<1>. QED
  BY <1>1, <1>2, <1>3, KeptInductive, SyncReliable, StoreInvariant, PTL
  DEF StoreSpec, SyncKeepsStore
=============================================================================
