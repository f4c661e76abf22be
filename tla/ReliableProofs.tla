--------------------------- MODULE ReliableProofs ---------------------------
(***************************************************************************)
(* What Context guarantees when the kernel refuses no call for reasons of  *)
(* its own and services are not patched, the conditions of the run         *)
(* ctx_reliable: registry and kernel are in step on backends too, and      *)
(* Context implements LoadBalancer. Store, interface and discovery may     *)
(* fail.                                                                   *)
(***************************************************************************)
EXTENDS ContextProofs

Reliable == "ipvs" \notin MayFail /\ ServicePatches = {}

-----------------------------------------------------------------------------
(* The inductive invariant *)

\* No two backends share a pulse.
MonitorsDistinct ==
    \A r, s \in Backends : backends[r].monitor = backends[s].monitor => r = s

\* The struct a backend points to is registered: what a PATCH of a service breaks.
BackendsServed == \A r \in Backends : \E v \in Registered : backends[r].service = services[v]

ReliableInv ==
    /\ TypeOK
    /\ RegisteredInKernel
    /\ PtrsConsistent
    /\ MonitorsDistinct
    /\ BackendsServed
    /\ BackendsInKernel
    /\ PulsesAlive

LEMMA BackendsType ==
    ASSUME TypeOK, NEW r \in Backends
    PROVE  /\ backends[r] \in Backend
           /\ Entry(backends[r]) \in Keys \X Dests
           /\ backends[r].weight \in Nat /\ backends[r].weight # None
<1>1. backends[r] \in Backend
  BY DEF Backends, TypeOK
<1>2. backends[r].weight \in Nat
  BY <1>1 DEF Backend
<1>. QED
  BY <1>1, <1>2, EntryOfBackend, NoneAssumption

-----------------------------------------------------------------------------
(* One lemma per operation: what it does to registry and kernel *)

\* createService registers a name at an address the kernel did not have, or changes
\* neither registry nor kernel.
LEMMA CreateServiceEffect ==
    ASSUME TypeOK, NEW v \in VsIDs, NEW o \in ServiceInputs,
           NEW p \in SvcPtrs, NEW down, CreateService(v, o, p, down)
    PROVE  /\ UNCHANGED <<backends, stopped, dests>>
           /\ \/ UNCHANGED <<services, virtuals>>
              \/ /\ services[v] = None /\ services'[v] \in Service
                 /\ \A w \in VsIDs : w # v => services'[w] = services[w]
                 /\ virtuals[SvcKey(services'[v].opts)] = None
                 /\ virtuals' = [virtuals EXCEPT ![SvcKey(services'[v].opts)]
                                                    = Sched(services'[v].opts)]
<1>. DEFINE opts == FillService(o)
            new  == [ptr |-> p, opts |-> opts, delIfAddr |-> AddrAddOK(ServiceHost(o), down)]
<1>1. opts \in FilledServices
  BY ServiceFill DEF CreateService
<1>2. new \in Service /\ new.opts = opts
  BY <1>1 DEF Service, AddrAddOK
<1>3. CASE StoreOK(down) /\ AddServiceOK(opts, down)
  <2>1. /\ services[v] = None
        /\ services' = [services EXCEPT ![v] = new]
        /\ virtuals[SvcKey(opts)] = None
        /\ virtuals' = [virtuals EXCEPT ![SvcKey(opts)] = Sched(opts)]
        /\ UNCHANGED <<backends, stopped, dests>>
    BY <1>3 DEF CreateService, NameFree, AddServiceOK
  <2>. HIDE DEF new
  <2>2. services'[v] = new /\ \A w \in VsIDs : w # v => services'[w] = services[w]
    BY <2>1 DEF TypeOK
  <2>. QED
    BY <1>2, <2>1, <2>2
<1>4. CASE ~(StoreOK(down) /\ AddServiceOK(opts, down))
  BY <1>4 DEF CreateService
<1>. QED
  BY <1>3, <1>4

\* createBackend attaches a destination the service did not have, with a pulse of its
\* own, or changes neither registry nor kernel.
LEMMA CreateBackendEffect ==
    ASSUME TypeOK, NEW v \in VsIDs, NEW r \in RsIDs, NEW o \in BackendInputs,
           NEW q \in FreePulses, NEW down, CreateBackend(v, r, o, q, down)
    PROVE  /\ UNCHANGED <<services, virtuals>>
           /\ v \in Registered /\ backends[r] = None
           /\ \/ UNCHANGED <<backends, stopped, dests>>
              \/ /\ backends'[r] \in Backend
                 /\ backends'[r].service = services[v]
                 /\ backends'[r].opts = FillBackend(o)
                 /\ backends'[r].weight = FillBackend(o).Weight
                 /\ backends'[r].monitor = q
                 /\ \A s \in RsIDs : s # r => backends'[s] = backends[s]
                 /\ stopped' = stopped \ {q}
                 /\ dests[Entry(backends'[r])] = None
                 /\ dests' = [dests EXCEPT ![Entry(backends'[r])] = backends'[r].weight]
<1>. DEFINE opts == FillBackend(o)
            b    == [service |-> services[v], opts |-> opts, weight |-> opts.Weight, monitor |-> q]
<1>1. opts \in FilledBackends /\ opts.Weight \in Nat
  BY BackendFill DEF CreateBackend
<1>2. /\ v \in Registered /\ backends[r] = None
      /\ UNCHANGED <<services, virtuals>>
  BY DEF CreateBackend, Registered
<1>3. /\ b \in Backend
      /\ b.service = services[v] /\ b.opts = opts /\ b.weight = opts.Weight /\ b.monitor = q
  BY <1>1, <1>2, RegisteredType DEF Backend, FreePulses
<1>4. CASE StoreOK(down) /\ AddDestPortOK(b, down)
  <2>1. /\ dests[Entry(b)] = None
        /\ dests' = [dests EXCEPT ![Entry(b)] = opts.Weight]
        /\ backends' = [backends EXCEPT ![r] = b]
        /\ stopped' = stopped \ {q}
    BY <1>4 DEF CreateBackend, AddDestPortOK
  <2>. HIDE DEF b
  <2>2. backends'[r] = b /\ \A s \in RsIDs : s # r => backends'[s] = backends[s]
    BY <2>1 DEF TypeOK
  <2>. QED
    BY <1>2, <1>3, <2>1, <2>2
<1>5. CASE ~(StoreOK(down) /\ AddDestPortOK(b, down))
  BY <1>2, <1>5 DEF CreateBackend
<1>. QED
  BY <1>4, <1>5

\* updateBackend changes a weight in registry and kernel alike.
LEMMA UpdateBackendEffect ==
    ASSUME TypeOK, NEW r \in RsIDs, NEW w \in Nat, NEW down, UpdateBackend(r, w, down)
    PROVE  /\ UNCHANGED <<services, stopped, virtuals>>
           /\ r \in Backends
           /\ backends'[r] = [backends[r] EXCEPT !.weight = w]
           /\ backends'[r] \in Backend
           /\ backends'[r].service = backends[r].service
           /\ backends'[r].opts = backends[r].opts
           /\ backends'[r].monitor = backends[r].monitor
           /\ backends'[r].weight = w
           /\ Entry(backends'[r]) = Entry(backends[r])
           /\ \A s \in RsIDs : s # r => backends'[s] = backends[s]
           /\ dests' = [dests EXCEPT ![Entry(backends[r])] = w]
<1>1. r \in Backends
  BY DEF UpdateBackend, Backends
<1>2. backends[r] \in Backend
  BY <1>1, BackendsType
<1>3. backends' = [backends EXCEPT ![r] = [backends[r] EXCEPT !.weight = w]]
  BY DEF UpdateBackend
<1>4. backends'[r] = [backends[r] EXCEPT !.weight = w]
  BY <1>3 DEF TypeOK
<1>5. /\ backends'[r] \in Backend
      /\ backends'[r].service = backends[r].service
      /\ backends'[r].opts = backends[r].opts
      /\ backends'[r].monitor = backends[r].monitor
      /\ backends'[r].weight = w
  BY <1>2, <1>4 DEF Backend
<1>6. \A s \in RsIDs : s # r => backends'[s] = backends[s]
  BY <1>3 DEF TypeOK
<1>. QED
  BY <1>1, <1>4, <1>5, <1>6 DEF UpdateBackend, Entry

\* removeService gets past the kernel and past every Stop: the name, its address in the
\* kernel, and exactly the backends of that address go.
LEMMA RemoveServiceEffect ==
    ASSUME Reliable, ReliableInv, NEW v \in VsIDs, NEW down \in Outages, RemoveService(v, down)
    PROVE  LET key  == SvcKey(services[v].opts)
               mine == {r \in Backends : Entry(backends[r])[1] = key}
           IN  /\ v \in Registered
               /\ services' = [services EXCEPT ![v] = None]
               /\ virtuals' = [virtuals EXCEPT ![key] = None]
               /\ dests' = [e \in Keys \X Dests |-> IF e[1] = key THEN None ELSE dests[e]]
               /\ backends' = [r \in RsIDs |-> IF r \in mine THEN None ELSE backends[r]]
               /\ stopped' = stopped \cup {backends[r].monitor : r \in mine}
<1>. DEFINE vs   == services[v]
            key  == SvcKey(vs.opts)
            mine == {r \in Backends : Entry(backends[r])[1] = key}
<1>1. v \in Registered
  BY DEF RemoveService, Registered
<1>2. DelServiceOK(vs.opts, down)
  BY <1>1, RegisteredType DEF ReliableInv, Reliable, Outages, RegisteredInKernel, DelServiceOK
<1>3. BackendsOf(vs) = mine
  <2>1. ASSUME NEW r \in BackendsOf(vs) PROVE r \in mine
    BY <1>1, <2>1 DEF BackendsOf, ReliableInv, PtrsConsistent, Entry
  <2>2. ASSUME NEW r \in mine PROVE r \in BackendsOf(vs)
    <3>1. PICK w \in Registered : backends[r].service = services[w]
      BY <2>2 DEF ReliableInv, BackendsServed
    <3>2. SvcKey(services[w].opts) = key
      BY <2>2, <3>1 DEF Entry
    <3>3. w = v
      BY <1>1, <3>2 DEF ReliableInv, RegisteredInKernel
    <3>. QED
      BY <2>2, <3>1, <3>3 DEF BackendsOf
  <2>. QED
    BY <2>1, <2>2
<1>4. {r \in BackendsOf(vs) : backends[r].monitor \in stopped} = {}
  BY DEF BackendsOf, ReliableInv, PulsesAlive
<1>5. /\ services' = [services EXCEPT ![v] = None]
      /\ virtuals' = [virtuals EXCEPT ![key] = None]
      /\ dests' = [e \in Keys \X Dests |-> IF e[1] = key THEN None ELSE dests[e]]
      /\ CleanUp(BackendsOf(vs), down)
  BY <1>2, <1>4 DEF RemoveService
<1>. QED
  BY <1>1, <1>3, <1>5 DEF CleanUp

\* removeBackend stops a pulse that runs, and the kernel has the destination.
LEMMA RemoveBackendEffect ==
    ASSUME Reliable, ReliableInv, NEW r \in RsIDs, NEW down \in Outages, RemoveBackend(r, down)
    PROVE  /\ r \in Backends
           /\ UNCHANGED <<services, virtuals>>
           /\ dests' = [dests EXCEPT ![Entry(backends[r])] = None]
           /\ backends' = [backends EXCEPT ![r] = None]
           /\ stopped' = stopped \cup {backends[r].monitor}
<1>1. r \in Backends
  BY DEF RemoveBackend, Backends
<1>2. backends[r].monitor \notin stopped
  BY <1>1 DEF ReliableInv, PulsesAlive
<1>3. DelDestPortOK(backends[r], down)
  BY <1>1, BackendsType DEF ReliableInv, Reliable, Outages, BackendsInKernel, DelDestPortOK
<1>. QED
  BY <1>1, <1>2, <1>3 DEF RemoveBackend

-----------------------------------------------------------------------------
(* The invariant is inductive *)

\* The parts of ReliableInv that ContextProofs does not cover.
ServedInv == MonitorsDistinct /\ BackendsServed /\ BackendsInKernel /\ PulsesAlive

LEMMA CreateServiceServed ==
    ASSUME ReliableInv, NEW v \in VsIDs, NEW o \in ServiceInputs,
           NEW p \in SvcPtrs, NEW down, CreateService(v, o, p, down)
    PROVE  ServedInv'
<1>. USE DEF ReliableInv
<1>1. UNCHANGED <<backends, stopped, dests>>
  BY CreateServiceEffect
<1>2. MonitorsDistinct' /\ BackendsInKernel' /\ PulsesAlive'
  BY <1>1 DEF MonitorsDistinct, BackendsInKernel, PulsesAlive, Backends
<1>3. \A w \in Registered : w \in Registered' /\ services'[w] = services[w]
  BY CreateServiceEffect DEF Registered
<1>4. BackendsServed'
  BY <1>1, <1>3 DEF BackendsServed, Backends
<1>. QED
  BY <1>2, <1>4 DEF ServedInv

LEMMA CreateBackendServed ==
    ASSUME ReliableInv, NEW v \in VsIDs, NEW r \in RsIDs, NEW o \in BackendInputs,
           NEW q \in FreePulses, NEW down, CreateBackend(v, r, o, q, down)
    PROVE  ServedInv'
<1>. USE DEF ReliableInv
<1>1. CASE UNCHANGED <<backends, stopped, dests>>
  <2>1. services' = services
    BY CreateBackendEffect
  <2>. QED
    BY <1>1, <2>1 DEF ServedInv, MonitorsDistinct, BackendsServed, BackendsInKernel, PulsesAlive,
                Backends, Registered
<1>2. CASE ~UNCHANGED <<backends, stopped, dests>>
  <2>. DEFINE b == backends'[r]
  <2>1. /\ services' = services /\ v \in Registered /\ backends[r] = None
        /\ b \in Backend /\ b.service = services[v] /\ b.monitor = q
        /\ \A s \in RsIDs : s # r => backends'[s] = backends[s]
        /\ stopped' = stopped \ {q}
        /\ dests[Entry(b)] = None
        /\ dests' = [dests EXCEPT ![Entry(b)] = b.weight]
    BY <1>2, CreateBackendEffect
  <2>. HIDE DEF b
  <2>2. \A s \in Backends' : \/ s = r /\ backends'[s] = b
                             \/ s \in Backends /\ s # r /\ backends'[s] = backends[s]
    BY <2>1 DEF Backends, b
  <2>3. \A s \in Backends : backends[s].monitor # q
    BY DEF FreePulses
  <2>4. MonitorsDistinct' /\ PulsesAlive'
    BY <2>1, <2>2, <2>3 DEF MonitorsDistinct, PulsesAlive
  <2>5. BackendsServed'
    BY <2>1, <2>2 DEF BackendsServed, Registered
  <2>6. /\ Entry(b) \in Keys \X Dests
        /\ dests'[Entry(b)] = b.weight
        /\ \A e \in Keys \X Dests : e # Entry(b) => dests'[e] = dests[e]
    BY <2>1, EntryOfBackend DEF TypeOK
  <2>7. \A s \in Backends : Entry(backends[s]) # Entry(b)
    BY <2>1, BackendsType DEF BackendsInKernel
  <2>8. BackendsInKernel'
    BY <2>2, <2>6, <2>7, BackendsType DEF BackendsInKernel
  <2>. QED
    BY <2>4, <2>5, <2>8 DEF ServedInv
<1>. QED
  BY <1>1, <1>2

LEMMA UpdateBackendServed ==
    ASSUME ReliableInv, NEW r \in RsIDs, NEW w \in Nat, NEW down, UpdateBackend(r, w, down)
    PROVE  ServedInv'
<1>. USE DEF ReliableInv
<1>1. \A s \in Backends' : /\ s \in Backends
                           /\ backends'[s].service = backends[s].service
                           /\ backends'[s].monitor = backends[s].monitor
                           /\ Entry(backends'[s]) = Entry(backends[s])
                           /\ s # r => backends'[s].weight = backends[s].weight
  BY UpdateBackendEffect DEF Backends
<1>2. /\ UNCHANGED <<services, stopped>> /\ r \in Backends
      /\ backends'[r].weight = w
      /\ dests' = [dests EXCEPT ![Entry(backends[r])] = w]
  BY UpdateBackendEffect
<1>3. MonitorsDistinct' /\ PulsesAlive' /\ BackendsServed'
  BY <1>1, <1>2 DEF MonitorsDistinct, PulsesAlive, BackendsServed, Registered
<1>4. dests'[Entry(backends[r])] = w
      /\ \A e \in Keys \X Dests : e # Entry(backends[r]) => dests'[e] = dests[e]
  BY <1>2, BackendsType DEF TypeOK
<1>5. BackendsInKernel'
  BY <1>1, <1>2, <1>4, BackendsType DEF BackendsInKernel
<1>. QED
  BY <1>3, <1>5 DEF ServedInv

LEMMA RemoveServiceServed ==
    ASSUME Reliable, ReliableInv, NEW v \in VsIDs, NEW down \in Outages, RemoveService(v, down)
    PROVE  ServedInv'
<1>. USE DEF ReliableInv
<1>. DEFINE key  == SvcKey(services[v].opts)
            mine == {r \in Backends : Entry(backends[r])[1] = key}
<1>1. /\ v \in Registered
      /\ services' = [services EXCEPT ![v] = None]
      /\ dests' = [e \in Keys \X Dests |-> IF e[1] = key THEN None ELSE dests[e]]
      /\ backends' = [r \in RsIDs |-> IF r \in mine THEN None ELSE backends[r]]
      /\ stopped' = stopped \cup {backends[r].monitor : r \in mine}
  BY RemoveServiceEffect
<1>2. \A r \in Backends' : r \in Backends \ mine /\ backends'[r] = backends[r]
  BY <1>1 DEF Backends
<1>3. MonitorsDistinct' /\ PulsesAlive'
  BY <1>1, <1>2 DEF MonitorsDistinct, PulsesAlive
<1>4. \A w \in Registered : w # v => w \in Registered' /\ services'[w] = services[w]
  BY <1>1 DEF Registered, TypeOK
<1>5. \A r \in Backends \ mine : backends[r].service # services[v]
  BY DEF Entry
<1>6. BackendsServed'
  BY <1>2, <1>4, <1>5 DEF BackendsServed
<1>7. BackendsInKernel'
  BY <1>1, <1>2, BackendsType DEF BackendsInKernel
<1>. QED
  BY <1>3, <1>6, <1>7 DEF ServedInv

LEMMA RemoveBackendServed ==
    ASSUME Reliable, ReliableInv, NEW r \in RsIDs, NEW down \in Outages, RemoveBackend(r, down)
    PROVE  ServedInv'
<1>. USE DEF ReliableInv
<1>1. /\ r \in Backends /\ services' = services
      /\ dests' = [dests EXCEPT ![Entry(backends[r])] = None]
      /\ backends' = [backends EXCEPT ![r] = None]
      /\ stopped' = stopped \cup {backends[r].monitor}
  BY RemoveBackendEffect
<1>2. \A s \in Backends' : s \in Backends /\ s # r /\ backends'[s] = backends[s]
  BY <1>1 DEF Backends, TypeOK
<1>3. MonitorsDistinct' /\ PulsesAlive' /\ BackendsServed'
  BY <1>1, <1>2 DEF MonitorsDistinct, PulsesAlive, BackendsServed, Registered
<1>4. \A e \in Keys \X Dests : e # Entry(backends[r]) => dests'[e] = dests[e]
  BY <1>1 DEF TypeOK
<1>5. BackendsInKernel'
  BY <1>1, <1>2, <1>4, BackendsType DEF BackendsInKernel
<1>. QED
  BY <1>3, <1>5 DEF ServedInv

LEMMA ServedInductive ==
    ASSUME Reliable, ReliableInv, [Operation]_ctxVars
    PROVE  ServedInv'
<1>1. CASE AnyCreateService
  BY <1>1, CreateServiceServed DEF AnyCreateService, FreePtrs
<1>2. CASE ServiceUpdateHandler
  BY <1>2 DEF ServiceUpdateHandler, Reliable
<1>3. CASE AnyCreateBackend
  BY <1>3, CreateBackendServed DEF AnyCreateBackend
<1>4. CASE AnyUpdateBackend
  BY <1>4, UpdateBackendServed DEF AnyUpdateBackend
<1>5. CASE ServiceRemoveHandler
  BY <1>5, RemoveServiceServed DEF ServiceRemoveHandler
<1>6. CASE BackendRemoveHandler
  BY <1>6, RemoveBackendServed DEF BackendRemoveHandler
<1>7. CASE UNCHANGED ctxVars
  BY <1>7 DEF ctxVars, registry, kernel, ReliableInv, ServedInv, MonitorsDistinct, BackendsServed,
              BackendsInKernel, PulsesAlive, Backends, Registered
<1>. QED
  BY <1>1, <1>2, <1>3, <1>4, <1>5, <1>6, <1>7 DEF Operation

LEMMA ReliableInductive ==
    ASSUME Reliable
    PROVE  ReliableInv /\ [Operation]_ctxVars => ReliableInv'
  BY ServedInductive, TypeInductive, KernelInductive, PtrsInductive DEF ReliableInv, ServedInv

LEMMA ReliableInit == Init => ReliableInv
<1>1. Init => TypeOK /\ RegisteredInKernel
  BY DEF Init, TypeOK, RegisteredInKernel, Registered
<1>2. Init => PtrsConsistent /\ ServedInv
  BY DEF Init, PtrsConsistent, ServedInv, MonitorsDistinct, BackendsServed, BackendsInKernel,
         PulsesAlive, Registered, Backends
<1>. QED
  BY <1>1, <1>2 DEF ReliableInv, ServedInv

LEMMA ReliableInvariant ==
    ASSUME Reliable
    PROVE  Spec => []ReliableInv
  BY ReliableInit, ReliableInductive, HandlersOperate, PTL DEF Spec

-----------------------------------------------------------------------------
(* The guarantees *)

\* Every backend in ctx.backends has a destination of its own in the kernel, with the
\* weight the registry records, after any sequence of requests.
THEOREM BackendsAgree ==
    ASSUME Reliable
    PROVE  Spec => []BackendsInKernel
<1>1. ReliableInv => BackendsInKernel
  BY DEF ReliableInv
<1>. QED
  BY <1>1, ReliableInvariant, PTL

\* Every registered backend is health-checked: removeBackend and the loop of
\* removeService stop no pulse of a backend that stays, and never stop one twice.
THEOREM PulsesStayAlive ==
    ASSUME Reliable
    PROVE  Spec => []PulsesAlive
<1>1. ReliableInv => PulsesAlive
  BY DEF ReliableInv
<1>. QED
  BY <1>1, ReliableInvariant, PTL

\* A name leaves ctx.services only in removeService.
LEMMA NameLeaves ==
    ASSUME Reliable, TypeOK, [Next]_ctxVars, NEW v \in Registered, services'[v] = None
    PROVE  \E down \in Outages : RemoveService(v, down)
<1>1. v \in VsIDs /\ services[v] # None
  BY DEF Registered
<1>2. ~ServiceCreateHandler
  <2>1. SUFFICES ASSUME NEW w \in VsIDs, NEW o \in ServiceInputs, NEW p \in SvcPtrs,
                        NEW down, CreateService(w, o, p, down)
                 PROVE  FALSE
    BY DEF ServiceCreateHandler, FreePtrs, ServiceInputs
  <2>2. services' = services \/ (services'[w] \in Service /\ services[w] = None)
    BY <2>1, CreateServiceEffect
  <2>3. \A x \in VsIDs : x # w => services'[x] = services[x]
    BY <2>1, CreateServiceEffect
  <2>. QED
    BY <1>1, <2>2, <2>3, NoneAssumption
<1>3. ~ServiceUpdateHandler
  BY DEF ServiceUpdateHandler, Reliable
<1>4. ~(services' = services)
  BY <1>1
<1>5. PICK w \in VsIDs, down \in Outages : RemoveService(w, down)
  <2>1. ~BackendCreateHandler
    BY <1>4, CreateBackendEffect DEF BackendCreateHandler, BackendInputs
  <2>2. ~BackendUpdateHandler
    BY <1>4 DEF BackendUpdateHandler, UpdateBackend
  <2>3. ~BackendRemoveHandler
    BY <1>4 DEF BackendRemoveHandler, RemoveBackend
  <2>4. ~UNCHANGED ctxVars
    BY <1>4 DEF ctxVars, registry
  <2>. QED
    BY <1>2, <1>3, <2>1, <2>2, <2>3, <2>4 DEF Next, ServiceRemoveHandler
<1>6. services' = [services EXCEPT ![w] = None]
  BY <1>5 DEF RemoveService
<1>7. w = v
  BY <1>1, <1>6 DEF TypeOK
<1>. QED
  BY <1>5, <1>7

\* DELETE removes the virtual service and all its backends.
THEOREM DeleteComplete ==
    ASSUME Reliable
    PROVE  Spec => DeleteIsComplete
<1>. DEFINE D == \A v \in Registered : services'[v] = None =>
                    \A r \in RsIDs : backends'[r] # None =>
                        SvcKey(backends'[r].service.opts) # SvcKey(services[v].opts)
<1>1. ReliableInv /\ [Next]_ctxVars => [D]_ctxVars
  <2>. SUFFICES ASSUME ReliableInv, [Next]_ctxVars, NEW v \in Registered, services'[v] = None,
                       NEW r \in RsIDs, backends'[r] # None
                PROVE  SvcKey(backends'[r].service.opts) # SvcKey(services[v].opts)
    OBVIOUS
  <2>1. PICK down \in Outages : RemoveService(v, down)
    BY NameLeaves DEF ReliableInv
  <2>2. v \in VsIDs
    BY DEF Registered
  <2>3. r \in Backends /\ backends'[r] = backends[r]
        /\ ~(Entry(backends[r])[1] = SvcKey(services[v].opts))
    BY <2>1, <2>2, RemoveServiceEffect DEF Backends
  <2>. QED
    BY <2>3 DEF Entry
<1>. QED
  BY <1>1, ReliableInvariant, PTL DEF Spec, DeleteIsComplete

-----------------------------------------------------------------------------
(* The refinement: every operation is a request of LoadBalancer or a stutter. *)

\* What the mapping makes of names that are registered.
LEMMA Mapped ==
    /\ \A v \in VsIDs : tableBar[v] = IF services[v] = None THEN None ELSE SvcKey(services[v].opts)
    /\ \A r \in RsIDs : poolBar[r] = IF backends[r] = None THEN None ELSE Entry(backends[r])
    /\ \A v \in VsIDs :
          tableBar'[v] = IF services'[v] = None THEN None ELSE SvcKey(services'[v].opts)
    /\ \A r \in RsIDs : poolBar'[r] = IF backends'[r] = None THEN None ELSE Entry(backends'[r])
  BY DEF tableBar, poolBar

\* A mapped table is updated at one name, or not at all.
LEMMA TableStep ==
    ASSUME NEW v \in VsIDs, \A w \in VsIDs : w # v => services'[w] = services[w]
    PROVE  tableBar' = [tableBar EXCEPT ![v] = tableBar'[v]]
  BY DEF tableBar

LEMMA PoolStep ==
    ASSUME NEW r \in RsIDs, \A s \in RsIDs : s # r => backends'[s] = backends[s]
    PROVE  poolBar' = [poolBar EXCEPT ![r] = poolBar'[r]]
  BY DEF poolBar

\* The mapping of a registered name, or of a registered backend, is never nil.
LEMMA MappedType ==
    ASSUME TypeOK
    PROVE  /\ \A v \in Registered : tableBar[v] \in Keys /\ tableBar[v] # None
           /\ \A r \in Backends : poolBar[r] \in Keys \X Dests /\ poolBar[r] # None
<1>1. ASSUME NEW v \in Registered
      PROVE  tableBar[v] \in Keys /\ tableBar[v] # None
  <2>1. tableBar[v] = SvcKey(services[v].opts)
    BY Mapped DEF Registered
  <2>2. services[v].opts \in FilledServices
    BY RegisteredType DEF Service
  <2>. QED
    BY <2>1, <2>2, KeysOfFilled, NoneAssumption
<1>2. ASSUME NEW r \in Backends
      PROVE  poolBar[r] \in Keys \X Dests /\ poolBar[r] # None
  <2>1. poolBar[r] = Entry(backends[r])
    BY Mapped DEF Backends
  <2>. QED
    BY <2>1, BackendsType, NoneAssumption
<1>. QED
  BY <1>1, <1>2

LEMMA CreateServiceStep ==
    ASSUME ReliableInv, NEW v \in VsIDs, NEW o \in ServiceInputs,
           NEW p \in SvcPtrs, NEW down, CreateService(v, o, p, down)
    PROVE  [LB!Next]_LB!lbVars
<1>. DEFINE opts == services'[v].opts
<1>1. UNCHANGED <<backends, dests>>
  BY CreateServiceEffect DEF ReliableInv
<1>2. poolBar' = poolBar
  BY <1>1 DEF poolBar
<1>3. CASE UNCHANGED <<services, virtuals>>
  BY <1>1, <1>2, <1>3 DEF LB!lbVars, tableBar
<1>4. CASE ~UNCHANGED <<services, virtuals>>
  <2>1. /\ services[v] = None /\ services'[v] \in Service
        /\ \A w \in VsIDs : w # v => services'[w] = services[w]
        /\ virtuals[SvcKey(opts)] = None
        /\ virtuals' = [virtuals EXCEPT ![SvcKey(opts)] = Sched(opts)]
    BY <1>4, CreateServiceEffect DEF ReliableInv
  <2>2. opts \in FilledServices /\ SvcKey(opts) \in Keys /\ Sched(opts) \in Scheds
    BY <2>1, KeysOfFilled DEF Service
  <2>3. tableBar[v] = None /\ tableBar'[v] = SvcKey(opts)
    BY <2>1, Mapped, NoneAssumption
  <2>4. tableBar' = [tableBar EXCEPT ![v] = SvcKey(opts)]
    BY <2>1, <2>3, TableStep
  <2>5. LB!AddService(v, SvcKey(opts), Sched(opts))
    BY <1>1, <1>2, <2>1, <2>3, <2>4 DEF LB!AddService
  <2>. QED
    BY <2>2, <2>5 DEF LB!Next
<1>. QED
  BY <1>3, <1>4

LEMMA CreateBackendStep ==
    ASSUME ReliableInv, NEW v \in VsIDs, NEW r \in RsIDs, NEW o \in BackendInputs,
           NEW q \in FreePulses, NEW down, CreateBackend(v, r, o, q, down)
    PROVE  [LB!Next]_LB!lbVars
<1>. DEFINE b == backends'[r]
            d == DestKey(b.opts)
<1>1. UNCHANGED <<services, virtuals>> /\ v \in Registered /\ backends[r] = None
  BY CreateBackendEffect DEF ReliableInv
<1>2. tableBar' = tableBar
  BY <1>1 DEF tableBar
<1>3. CASE UNCHANGED <<backends, stopped, dests>>
  BY <1>1, <1>2, <1>3 DEF LB!lbVars, poolBar
<1>4. CASE ~UNCHANGED <<backends, stopped, dests>>
  <2>1. /\ b \in Backend /\ b.service = services[v]
        /\ b.opts = FillBackend(o) /\ b.weight = FillBackend(o).Weight
        /\ \A s \in RsIDs : s # r => backends'[s] = backends[s]
        /\ dests[Entry(b)] = None
        /\ dests' = [dests EXCEPT ![Entry(b)] = b.weight]
    BY <1>4, CreateBackendEffect DEF ReliableInv
  <2>2. b.opts \in FilledBackends /\ d \in Dests /\ b.weight \in Weights
    BY <2>1 DEF Backend, Dests, Weights
  <2>3. tableBar[v] = SvcKey(services[v].opts)
    BY <1>1, Mapped DEF Registered
  <2>4. Entry(b) = <<tableBar[v], d>>
    BY <2>1, <2>3 DEF Entry
  <2>5. poolBar[r] = None /\ poolBar'[r] = Entry(b)
    BY <1>1, <2>1, Mapped, NoneAssumption
  <2>6. poolBar' = [poolBar EXCEPT ![r] = Entry(b)]
    BY <2>1, <2>5, PoolStep
  <2>7. tableBar[v] # None
    BY <1>1, MappedType DEF ReliableInv
  <2>8. LB!AddBackend(v, r, d, b.weight)
    BY <1>1, <1>2, <2>1, <2>4, <2>5, <2>6, <2>7 DEF LB!AddBackend, LB!CanAttach
  <2>. QED
    BY <2>2, <2>8 DEF LB!Next
<1>. QED
  BY <1>3, <1>4

LEMMA UpdateBackendStep ==
    ASSUME ReliableInv, NEW r \in RsIDs, NEW w \in WeightPatches, NEW down,
           UpdateBackend(r, w, down)
    PROVE  [LB!Next]_LB!lbVars
<1>1. w \in Nat /\ w \in Weights
  BY RequestAssumption DEF Weights
<1>2. /\ UNCHANGED <<services, virtuals>> /\ r \in Backends
      /\ Entry(backends'[r]) = Entry(backends[r])
      /\ backends'[r] \in Backend
      /\ \A s \in RsIDs : s # r => backends'[s] = backends[s]
      /\ dests' = [dests EXCEPT ![Entry(backends[r])] = w]
  BY <1>1, UpdateBackendEffect DEF ReliableInv
<1>3. r \in RsIDs /\ backends[r] # None /\ backends'[r] # None
  BY <1>2, NoneAssumption DEF Backends
<1>4. poolBar[r] = Entry(backends[r]) /\ poolBar' = poolBar
  BY <1>2, <1>3 DEF poolBar
<1>5. tableBar' = tableBar
  BY <1>2 DEF tableBar
<1>6. poolBar[r] # None
  BY <1>2, MappedType DEF ReliableInv
<1>7. LB!SetWeight(r, w)
  BY <1>2, <1>4, <1>5, <1>6 DEF LB!SetWeight
<1>. QED
  BY <1>1, <1>7 DEF LB!Next

LEMMA RemoveServiceStep ==
    ASSUME Reliable, ReliableInv, NEW v \in VsIDs, NEW down \in Outages, RemoveService(v, down)
    PROVE  [LB!Next]_LB!lbVars
<1>. DEFINE key  == SvcKey(services[v].opts)
            mine == {r \in Backends : Entry(backends[r])[1] = key}
<1>1. /\ v \in Registered
      /\ services' = [services EXCEPT ![v] = None]
      /\ virtuals' = [virtuals EXCEPT ![key] = None]
      /\ dests' = [e \in Keys \X Dests |-> IF e[1] = key THEN None ELSE dests[e]]
      /\ backends' = [r \in RsIDs |-> IF r \in mine THEN None ELSE backends[r]]
  BY RemoveServiceEffect
<1>2. tableBar[v] = key /\ tableBar[v] # None
  BY <1>1, Mapped, MappedType DEF Registered, ReliableInv
<1>3. tableBar' = [tableBar EXCEPT ![v] = None]
  <2>1. services'[v] = None /\ \A w \in VsIDs : w # v => services'[w] = services[w]
    BY <1>1 DEF ReliableInv, TypeOK
  <2>2. tableBar'[v] = None
    BY <2>1, Mapped
  <2>. QED
    BY <2>1, <2>2, TableStep
<1>4. poolBar' = [r \in RsIDs |->
                     IF poolBar[r] # None /\ poolBar[r][1] = key THEN None ELSE poolBar[r]]
  <2>1. ASSUME NEW r \in RsIDs
        PROVE  poolBar'[r] = IF poolBar[r] # None /\ poolBar[r][1] = key
                               THEN None ELSE poolBar[r]
    <3>1. backends'[r] = IF r \in mine THEN None ELSE backends[r]
      BY <1>1
    <3>2. CASE r \in Backends
      <4>1. poolBar[r] = Entry(backends[r]) /\ poolBar[r] # None
        BY <3>2, Mapped, MappedType DEF Backends, ReliableInv
      <4>2. r \in mine <=> poolBar[r][1] = key
        BY <3>2, <4>1
      <4>. QED
        BY <3>1, <3>2, <4>1, <4>2, Mapped DEF Backends
    <3>3. CASE r \notin Backends
      BY <3>1, <3>3, Mapped DEF Backends
    <3>. QED
      BY <3>2, <3>3
  <2>. QED
    BY <2>1 DEF poolBar
<1>5. LB!DeleteService(v)
  BY <1>1, <1>2, <1>3, <1>4 DEF LB!DeleteService
<1>. QED
  BY <1>5 DEF LB!Next

LEMMA RemoveBackendStep ==
    ASSUME Reliable, ReliableInv, NEW r \in RsIDs, NEW down \in Outages, RemoveBackend(r, down)
    PROVE  [LB!Next]_LB!lbVars
<1>1. /\ r \in Backends /\ UNCHANGED <<services, virtuals>>
      /\ dests' = [dests EXCEPT ![Entry(backends[r])] = None]
      /\ backends' = [backends EXCEPT ![r] = None]
  BY RemoveBackendEffect
<1>2. tableBar' = tableBar
  BY <1>1 DEF tableBar
<1>3. poolBar[r] = Entry(backends[r]) /\ poolBar[r] # None
  BY <1>1, Mapped, MappedType DEF Backends, ReliableInv
<1>4. backends'[r] = None /\ \A s \in RsIDs : s # r => backends'[s] = backends[s]
  BY <1>1 DEF ReliableInv, TypeOK
<1>5. poolBar' = [poolBar EXCEPT ![r] = None]
  <2>1. poolBar'[r] = None
    BY <1>4, Mapped
  <2>. QED
    BY <1>4, <2>1, PoolStep
<1>6. LB!DeleteBackend(r)
  BY <1>1, <1>2, <1>3, <1>5 DEF LB!DeleteBackend
<1>. QED
  BY <1>6 DEF LB!Next

\* Every operation of Context is one request of LoadBalancer, carried out in registry
\* and kernel alike, or changes neither.
THEOREM ContextImplements ==
    ASSUME Reliable
    PROVE  Spec => Implements
<1>1. Init => LB!Init
  BY DEF Init, LB!Init, tableBar, poolBar
<1>2. ReliableInv /\ [Next]_ctxVars => [LB!Next]_LB!lbVars
  <2>. SUFFICES ASSUME ReliableInv, [Next]_ctxVars PROVE [LB!Next]_LB!lbVars
    OBVIOUS
  <2>1. CASE ServiceCreateHandler
    BY <2>1, CreateServiceStep DEF ServiceCreateHandler, FreePtrs, ServiceInputs
  <2>2. CASE ServiceUpdateHandler
    BY <2>2 DEF ServiceUpdateHandler, Reliable
  <2>3. CASE BackendCreateHandler
    BY <2>3, CreateBackendStep DEF BackendCreateHandler, BackendInputs
  <2>4. CASE BackendUpdateHandler
    BY <2>4, UpdateBackendStep DEF BackendUpdateHandler
  <2>5. CASE ServiceRemoveHandler
    BY <2>5, RemoveServiceStep DEF ServiceRemoveHandler
  <2>6. CASE BackendRemoveHandler
    BY <2>6, RemoveBackendStep DEF BackendRemoveHandler
  <2>7. CASE UNCHANGED ctxVars
    BY <2>7 DEF ctxVars, registry, kernel, LB!lbVars, tableBar, poolBar
  <2>. QED
    BY <2>1, <2>2, <2>3, <2>4, <2>5, <2>6, <2>7 DEF Next
<1>. QED
  BY <1>1, <1>2, ReliableInvariant, PTL DEF Spec, Implements, LB!Spec
=============================================================================
