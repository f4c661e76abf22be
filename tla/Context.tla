------------------------------ MODULE Context ------------------------------
(***************************************************************************)
(* core.Context: the registry of virtual services and backends, and the    *)
(* four systems every operation drives: the kernel's IPVS tables, the      *)
(* interface that carries the VIPs, the discovery catalog and the external *)
(* store.                                                                  *)
(*                                                                         *)
(* Every operation runs under ctx.mutex, so one operation is one action.   *)
(* Its parameter down is the set of systems that refuse the calls of this  *)
(* operation. Early returns that change nothing are stuttering steps: the  *)
(* conditions that avoid them are the guards.                              *)
(***************************************************************************)
EXTENDS Options

CONSTANTS
    VsIDs, RsIDs,       \* names of virtual services and of backends
    SvcPtrs,            \* addresses of service structs
    Pulses,             \* addresses of pulse.Pulse structs
    ServiceRequests,    \* bodies of PUT /service/<vs>
    ServicePatches,     \* bodies of PATCH /service/<vs>
    BackendRequests,    \* bodies of PUT /service/<vs>/<rs>
    WeightPatches,      \* weights of PATCH /service/<vs>/<rs>
    HasStore,           \* -store was given
    HasVip,             \* -vipi was given
    ForeignAddrs,       \* addresses on the VIP interface that are not GORB's
    MayFail,            \* the systems that may refuse a call for reasons of
                        \* their own: a subset of Systems
    Extensions          \* pairs of names whose first is a prefix of the second,
                        \* if the store deletes by prefix (Consul, BoltDB)

VARIABLES
    services,           \* ctx.services
    backends,           \* ctx.backends
    stopped,            \* the pulses whose stopCh is closed
    virtuals, dests,    \* kernel: scheduler of each virtual service, weight of
                        \* each destination of a virtual service
    addrs,              \* addresses on the VIP interface
    catalog,            \* discovery: the address each name is registered with
    storedServices, storedBackends  \* the external store

registry == <<services, backends, stopped>>
kernel   == <<virtuals, dests>>
stored   == <<storedServices, storedBackends>>
ctxVars  == <<registry, kernel, addrs, catalog, stored>>

Systems == {"ipvs", "store", "vip", "disco"}

\* What JSON decoding into the option structs guarantees of the requests.
ASSUME RequestAssumption ==
    /\ ServiceRequests \cup ServicePatches \subseteq ServiceOptions
    /\ BackendRequests \subseteq BackendOptions
    /\ WeightPatches \subseteq Nat
    /\ MayFail \subseteq Systems

-----------------------------------------------------------------------------
(* Data *)

\* The options Fill accepts, as it leaves them.
FilledServices ==
    {FillService(o) : o \in {x \in ServiceRequests \cup ServicePatches : ServiceValid(x)}}
FilledBackends ==
    {FillBackend(o) : o \in {x \in BackendRequests : BackendValid(x)}}

\* A service struct. It is immutable once registered, so a copy of the record
\* stands for the pointer: ptr tells the structs apart.
Service == [ptr : SvcPtrs, opts : FilledServices, delIfAddr : BOOLEAN]

\* A backend struct. opts keeps the options it was created with; weight is the
\* field options.Weight, the only one that changes later.
Backend == [service : Service, opts : FilledBackends, weight : Nat, monitor : Pulses]

\* createSvcKey: how the kernel identifies a virtual service.
SvcKey(o) == <<ServiceHost(o), o.Port, o.Protocol>>

Sched(o) == <<o.Method, o.Flags>>

\* createDest: how the kernel identifies a destination of a virtual service.
DestKey(o) == <<Lookup[o.Host], o.Port>>

\* The kernel entry of a backend.
Entry(b) == <<SvcKey(b.service.opts), DestKey(b.opts)>>

Keys   == {SvcKey(o) : o \in FilledServices}
Scheds == {Sched(o) : o \in FilledServices}
Dests  == {DestKey(o) : o \in FilledBackends}
Hosts  == {ServiceHost(o) : o \in FilledServices}

\* What Expose registers for a service.
Exposure(o) == <<ServiceHost(o), o.Port>>

\* The JSON of a backend in the store: its options and the service's name.
StoredBackend == [opts : FilledBackends, VsID : VsIDs]

\* None is the value of what does not exist.
ASSUME NoneAssumption ==
    /\ None \notin Service /\ None \notin Backend
    /\ None \notin Scheds /\ None \notin Nat
    /\ None \notin FilledServices /\ None \notin StoredBackend
    /\ None \notin Keys /\ None \notin Keys \X Dests

TypeOK ==
    /\ services \in [VsIDs -> Service \cup {None}]
    /\ backends \in [RsIDs -> Backend \cup {None}]
    /\ stopped \subseteq Pulses
    /\ virtuals \in [Keys -> Scheds \cup {None}]
    /\ dests \in [Keys \X Dests -> Nat \cup {None}]
    /\ addrs \subseteq ForeignAddrs \cup Hosts
    /\ catalog \in [VsIDs -> {Exposure(o) : o \in FilledServices} \cup {None}]
    /\ storedServices \in [VsIDs -> FilledServices \cup {None}]
    /\ storedBackends \in [RsIDs -> StoredBackend \cup {None}]

Registered  == {v \in VsIDs : services[v] # None}
Backends    == {r \in RsIDs : backends[r] # None}

NoBackendsOf(vs) == {}  \* mutant of BackendsOf: the clean-up loop is skipped

\* The backends whose service field is the struct vs.
BackendsOf(vs) == {r \in Backends : backends[r].service.ptr = vs.ptr}

\* Structs nothing refers to: the allocator may return any of them.
FreePtrs   == SvcPtrs \ ({services[v].ptr : v \in Registered}
                         \cup {backends[r].service.ptr : r \in Backends})
FreePulses == Pulses \ {backends[r].monitor : r \in Backends}

-----------------------------------------------------------------------------
(* The systems an operation calls. OK: the call returns no error. *)

\* mutant of AddServiceOK: a service that exists is taken for success
AddServiceOKExists(o, down) == "ipvs" \notin down

\* The shim hands each call to the kernel, which refuses a virtual service or
\* destination that already exists, or that does not exist.
AddServiceOK(o, down)    == "ipvs" \notin down /\ virtuals[SvcKey(o)] = None
UpdateServiceOK(o, down) == "ipvs" \notin down /\ virtuals[SvcKey(o)] # None
DelServiceOK(o, down)    == "ipvs" \notin down /\ virtuals[SvcKey(o)] # None

AddDestPortOK(b, down) ==
    /\ "ipvs" \notin down
    /\ virtuals[SvcKey(b.service.opts)] # None
    /\ dests[Entry(b)] = None
UpdateDestPortOK(b, down) == "ipvs" \notin down /\ dests[Entry(b)] # None
DelDestPortOK(b, down)    == "ipvs" \notin down /\ dests[Entry(b)] # None

\* netlink.AddrAdd fails on an address the interface already has.
AddrAddOK(host, down) == HasVip /\ "vip" \notin down /\ host \notin addrs

\* Store calls succeed trivially when there is no store.
StoreOK(down) == ~HasStore \/ "store" \notin down

\* mutant of Put: the sense of the existence check is inverted
PutInverted(table, id, value, overwrite, down) ==
    IF HasStore /\ StoreOK(down) /\ (table[id] # None \/ overwrite)
      THEN [table EXCEPT ![id] = value]
      ELSE table

\* Store.put: writes the key if it is missing or overwrite is set.
Put(table, id, value, overwrite, down) ==
    IF HasStore /\ StoreOK(down) /\ (table[id] = None \/ overwrite)
      THEN [table EXCEPT ![id] = value]
      ELSE table

\* What DeleteTree of the keys of ids takes along.
Tree(ids) == ids \cup {i \in VsIDs \cup RsIDs : \E j \in ids : <<j, i>> \in Extensions}

\* DeleteTree of each of ids; an outage may spare any of them.
DeleteTree(table, ids, down) ==
    IF HasStore
      THEN {[i \in DOMAIN table |-> IF i \in Tree(gone) THEN None ELSE table[i]] :
               gone \in IF StoreOK(down) THEN {ids} ELSE SUBSET ids}
      ELSE {table}

\* mutant of Expose: the port is forgotten
ExposeHost(v, o, down) == [catalog EXCEPT ![v] = ServiceHost(o)]

\* mutant of Expose: a name already in the catalog is not registered again
ExposeOnce(v, o, down) ==
    IF catalog[v] # None THEN catalog ELSE [catalog EXCEPT ![v] = Exposure(o)]

\* disco.Expose; its errors are only logged.
Expose(v, o, down) ==
    IF "disco" \in down THEN catalog ELSE [catalog EXCEPT ![v] = Exposure(o)]

-----------------------------------------------------------------------------
(* Operations *)

AnyName(v) == TRUE  \* mutant of NameFree: the existence check is dropped

NameFree(v) == services[v] = None

CreateService(v, o, p, down) ==
    LET opts  == FillService(o)
        host  == ServiceHost(o)
        added == AddrAddOK(host, down)
    IN
    /\ ServiceValid(o)
    /\ NameFree(v)
    /\ addrs' = IF added THEN addrs \cup {host} ELSE addrs
    /\ storedServices' = Put(storedServices, v, opts, FALSE, down)
    /\ \/ /\ StoreOK(down) /\ AddServiceOK(opts, down)
          /\ virtuals' = [virtuals EXCEPT ![SvcKey(opts)] = Sched(opts)]
          /\ services' = [services EXCEPT ![v] =
                              [ptr |-> p, opts |-> opts, delIfAddr |-> added]]
          /\ catalog' = Expose(v, opts, down)
       \/ /\ ~(StoreOK(down) /\ AddServiceOK(opts, down))
          /\ UNCHANGED <<virtuals, services, catalog>>
    /\ UNCHANGED <<backends, stopped, dests, storedBackends>>

AnyEndpoint(old, opts) == TRUE  \* mutant of SameEndpoint: the check is dropped

\* The check that host, port and protocol stay what they were.
SameEndpoint(old, opts) == SvcKey(old.opts) = SvcKey(opts)

\* Replaces the service struct, so backends keep pointing to the old one.
UpdateService(v, o, p, down) ==
    LET opts == FillService(o) IN
    \/ services[v] = None /\ CreateService(v, o, p, down)
    \/ /\ ServiceValid(o)
       /\ services[v] # None
       /\ SameEndpoint(services[v], opts)
       /\ storedServices' = Put(storedServices, v, opts, TRUE, down)
       /\ \/ /\ StoreOK(down) /\ UpdateServiceOK(opts, down)
             /\ virtuals' = [virtuals EXCEPT ![SvcKey(opts)] = Sched(opts)]
             /\ services' = [services EXCEPT ![v] =
                                 [ptr |-> p, opts |-> opts, delIfAddr |-> FALSE]]
             /\ catalog' = Expose(v, opts, down)
          \/ /\ ~(StoreOK(down) /\ UpdateServiceOK(opts, down))
             /\ UNCHANGED <<virtuals, services, catalog>>
       /\ UNCHANGED <<backends, stopped, dests, addrs, storedBackends>>

CreateBackend(v, r, o, q, down) ==
    LET opts == FillBackend(o)
        vs   == services[v]
        b    == [service |-> vs, opts |-> opts, weight |-> opts.Weight, monitor |-> q]
    IN
    /\ BackendValid(o)
    /\ backends[r] = None
    /\ vs # None
    /\ AddrFamily(Lookup[o.Host]) = AddrFamily(ServiceHost(vs.opts))
    /\ storedBackends' = Put(storedBackends, r, [opts |-> opts, VsID |-> v], FALSE, down)
    /\ \/ /\ StoreOK(down) /\ AddDestPortOK(b, down)
          /\ dests' = [dests EXCEPT ![Entry(b)] = opts.Weight]
          /\ backends' = [backends EXCEPT ![r] = b]
          /\ stopped' = stopped \ {q}
       \/ /\ ~(StoreOK(down) /\ AddDestPortOK(b, down))
          /\ UNCHANGED <<dests, backends, stopped>>
    /\ UNCHANGED <<services, virtuals, addrs, catalog, storedServices>>

\* mutant of UpdateBackend: the new weight is not recorded
UpdateBackendUnrecorded(r, w, down) ==
    /\ backends[r] # None
    /\ UpdateDestPortOK(backends[r], down)
    /\ dests' = [dests EXCEPT ![Entry(backends[r])] = w]
    /\ UNCHANGED <<registry, virtuals, addrs, catalog, stored>>

\* updateBackend returned no error; the service's name only appears in logs.
UpdateBackend(r, w, down) ==
    /\ backends[r] # None
    /\ UpdateDestPortOK(backends[r], down)
    /\ dests' = [dests EXCEPT ![Entry(backends[r])] = w]
    /\ backends' = [backends EXCEPT ![r].weight = w]
    /\ UNCHANGED <<services, stopped, virtuals, addrs, catalog, stored>>

\* mutant of CleanUp: the pulses are stopped but the entries stay
CleanUpPulses(ids, down) ==
    /\ stopped' = stopped \cup {backends[r].monitor : r \in ids}
    /\ storedBackends' \in DeleteTree(storedBackends, ids, down)
    /\ UNCHANGED backends

\* mutant of CleanUp: the entries go, their pulses are not stopped
CleanUpEntries(ids, down) ==
    /\ backends' = [r \in RsIDs |-> IF r \in ids THEN None ELSE backends[r]]
    /\ storedBackends' \in DeleteTree(storedBackends, ids, down)
    /\ UNCHANGED stopped

\* The loop of removeService over the backends it has reached: ids.
CleanUp(ids, down) ==
    /\ backends' = [r \in RsIDs |-> IF r \in ids THEN None ELSE backends[r]]
    /\ stopped' = stopped \cup {backends[r].monitor : r \in ids}
    /\ storedBackends' \in DeleteTree(storedBackends, ids, down)

RemovesAnyAddr(vs, down) == HasVip  \* mutant of RemovesAddr: delIfAddr is ignored

\* Whether the VIP is taken off the interface with its service.
RemovesAddr(vs, down) == HasVip /\ vs.delIfAddr /\ "vip" \notin down

\* The name is forgotten before the kernel is asked, so a refusal leaves the
\* virtual service in the kernel and its backends in the registry. Stopping a
\* pulse twice closes a closed channel: the handler panics at some point of the
\* loop, net/http recovers and the deferred Unlock runs.
RemoveService(v, down) ==
    LET vs   == services[v]
        mine == BackendsOf(vs)
        dead == {r \in mine : backends[r].monitor \in stopped}
    IN
    /\ vs # None
    /\ services' = [services EXCEPT ![v] = None]
    /\ addrs' = IF RemovesAddr(vs, down) THEN addrs \ {ServiceHost(vs.opts)} ELSE addrs
    /\ \/ /\ ~DelServiceOK(vs.opts, down)
          /\ UNCHANGED <<backends, stopped, kernel, catalog, stored>>
       \/ /\ DelServiceOK(vs.opts, down)
          /\ virtuals' = [virtuals EXCEPT ![SvcKey(vs.opts)] = None]
          /\ dests' = [e \in Keys \X Dests |->
                          IF e[1] = SvcKey(vs.opts) THEN None ELSE dests[e]]
          /\ storedServices' \in DeleteTree(storedServices, {v}, down)
          /\ \/ /\ dead = {}
                /\ CleanUp(mine, down)
                /\ catalog' = IF "disco" \in down THEN catalog
                                                   ELSE [catalog EXCEPT ![v] = None]
             \/ /\ dead # {}
                /\ \E reached \in SUBSET (mine \ dead) : CleanUp(reached, down)
                /\ UNCHANGED catalog

\* The pulse is stopped before the kernel is asked: a refusal leaves the backend
\* registered with a dead pulse, and removing it again panics in Stop.
RemoveBackend(r, down) ==
    LET b == backends[r] IN
    /\ b # None
    /\ storedBackends' \in DeleteTree(storedBackends, {r}, down)
    /\ \/ /\ b.monitor \in stopped
          /\ UNCHANGED <<backends, stopped, dests>>
       \/ /\ b.monitor \notin stopped
          /\ stopped' = stopped \cup {b.monitor}
          /\ \/ /\ DelDestPortOK(b, down)
                /\ dests' = [dests EXCEPT ![Entry(b)] = None]
                /\ backends' = [backends EXCEPT ![r] = None]
             \/ /\ ~DelDestPortOK(b, down)
                /\ UNCHANGED <<dests, backends>>
    /\ UNCHANGED <<services, virtuals, addrs, catalog, storedServices>>

-----------------------------------------------------------------------------
(* The REST handlers, each calling one operation. *)

Outages == SUBSET MayFail

ServiceCreateHandler ==
    \E v \in VsIDs, o \in ServiceRequests, p \in FreePtrs, down \in Outages :
        CreateService(v, o, p, down)

ServiceUpdateHandler ==
    \E v \in VsIDs, o \in ServicePatches, p \in FreePtrs, down \in Outages :
        UpdateService(v, o, p, down)

BackendCreateHandler ==
    \E v \in VsIDs, r \in RsIDs, o \in BackendRequests, q \in FreePulses, down \in Outages :
        CreateBackend(v, r, o, q, down)

BackendUpdateHandler ==
    \E r \in RsIDs, w \in WeightPatches, down \in Outages : UpdateBackend(r, w, down)

ServiceRemoveHandler == \E v \in VsIDs, down \in Outages : RemoveService(v, down)

BackendRemoveHandler == \E r \in RsIDs, down \in Outages : RemoveBackend(r, down)

\* NewContext on a kernel whose pools are empty (or flushed with -f), and a
\* store that holds nothing yet. That it exposes the REST API itself in discovery,
\* under the name "gorb", is left out: the catalog is that of the services.
Init ==
    /\ services = [v \in VsIDs |-> None]
    /\ backends = [r \in RsIDs |-> None]
    /\ stopped = {}
    /\ virtuals = [k \in Keys |-> None]
    /\ dests = [e \in Keys \X Dests |-> None]
    /\ addrs = ForeignAddrs
    /\ catalog = [v \in VsIDs |-> None]
    /\ storedServices = [v \in VsIDs |-> None]
    /\ storedBackends = [r \in RsIDs |-> None]

Next ==
    \/ ServiceCreateHandler
    \/ ServiceUpdateHandler
    \/ BackendCreateHandler
    \/ BackendUpdateHandler
    \/ ServiceRemoveHandler
    \/ BackendRemoveHandler

Spec == Init /\ [][Next]_ctxVars

-----------------------------------------------------------------------------
(* Properties *)

\* A name in ctx.services stands for a virtual service the kernel has, with the
\* scheduler last asked for, and no two names stand for the same one: whatever
\* operations fail half-way, in createService, updateService or removeService.
RegisteredInKernel ==
    /\ \A v \in Registered :
          virtuals[SvcKey(services[v].opts)] = Sched(services[v].opts)
    /\ \A v, w \in Registered :
          SvcKey(services[v].opts) = SvcKey(services[w].opts) => v = w

\* The kernel sends traffic only where ctx.backends says: every destination
\* belongs to a registered backend that records the weight the kernel uses,
\* across refused calls, patched services and orphaned backends.
WeightsAccounted ==
    \A e \in Keys \X Dests : dests[e] # None =>
        \E r \in Backends : Entry(backends[r]) = e /\ backends[r].weight = dests[e]

\* Every backend in ctx.backends has a destination of its own in the kernel, with
\* the weight the registry records. Needs services never to be patched (updateService
\* replaces the struct the backends point to) and the kernel not to refuse (the panic
\* on a dead pulse cuts the clean-up loop of removeService short).
BackendsInKernel ==
    /\ \A r \in Backends : dests[Entry(backends[r])] = backends[r].weight
    /\ \A r, s \in Backends : Entry(backends[r]) = Entry(backends[s]) => r = s

\* A virtual service GORB put into the kernel can be named, hence removed, through
\* the API. Needs the kernel not to refuse: removeService forgets the name first.
KernelOwned ==
    \A k \in Keys : virtuals[k] # None =>
        \E v \in Registered : SvcKey(services[v].opts) = k

\* A registered backend is being health-checked: its pulse has not been stopped, so
\* removeBackend can stop it without closing a closed channel.
PulsesAlive == \A r \in Backends : backends[r].monitor \notin stopped

\* "removes the specified virtual service and all its backends": when a name leaves
\* ctx.services, no backend of its virtual service stays in ctx.backends.
DeleteIsComplete ==
    [][\A v \in Registered : services'[v] = None =>
          \A r \in RsIDs : backends'[r] # None =>
              SvcKey(backends'[r].service.opts) # SvcKey(services[v].opts)]_ctxVars

\* A service that is registered is in the external store, so the next Sync of this
\* or another instance does not remove it, whatever calls failed on the way. Needs
\* names that do not extend one another where the store deletes by prefix.
RegisteredIsStored ==
    HasStore => \A v \in Registered : storedServices[v] # None

\* A registered service is in the discovery catalog at its address.
RegisteredIsExposed ==
    \A v \in Registered : catalog[v] = Exposure(services[v].opts)

\* An address that was on the interface before GORB added VIPs to it stays there:
\* what delIfAddr is for.
ForeignAddrsKept == ForeignAddrs \subseteq addrs

-----------------------------------------------------------------------------
(* What the registry and the kernel implement together *)

Weights == {o.Weight : o \in FilledBackends} \cup WeightPatches

\* The refinement mapping: the address a name stands for is the key of its options, or
\* of the service struct a backend points to.
tableBar == [v \in VsIDs |-> IF services[v] = None THEN None ELSE SvcKey(services[v].opts)]
poolBar  == [r \in RsIDs |-> IF backends[r] = None THEN None ELSE Entry(backends[r])]

LB == INSTANCE LoadBalancer WITH table <- tableBar, pool <- poolBar

\* Every operation of Context is one request of LoadBalancer, carried out in the
\* registry and in the kernel alike, or changes neither. Needs what BackendsInKernel
\* and KernelOwned need: no PATCH of a service, and a kernel that does not refuse.
Implements == LB!Spec
=============================================================================
