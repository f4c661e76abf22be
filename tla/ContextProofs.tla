--------------------------- MODULE ContextProofs ---------------------------
(***************************************************************************)
(* Theorems about Context, for every set of names, requests and addresses, *)
(* and whatever systems may refuse calls.                                  *)
(***************************************************************************)
EXTENDS Context, TLAPS

-----------------------------------------------------------------------------
(* The operators the operations are built from *)

\* Options createService and createBackend get: bodies of requests, and what the store
\* gives back, which is what Fill left of earlier requests.
ServiceInputs == ServiceRequests \cup ServicePatches \cup FilledServices
BackendInputs == BackendRequests \cup FilledBackends

\* Fill accepts what it left, leaves it as it is, and keeps the host, hence the address.
LEMMA ServiceFillAgain ==
    ASSUME NEW o, ServiceValid(o)
    PROVE  /\ FillService(FillService(o)) = FillService(o)
           /\ ServiceHost(FillService(o)) = ServiceHost(o)
<1>. DEFINE p == ToLower(OrElse(o.Protocol, "tcp"))
            m == OrElse(o.Method, "wrr")
            f == [Host |-> o.Host, Port |-> o.Port, Flags |-> o.Flags, Protocol |-> p, Method |-> m]
<1>1. FillService(o) = f
  BY DEF FillService
<1>2. p \in {"tcp", "udp"}
  BY DEF ServiceValid, ValidProtocol, FillService
<1>3. OrElse(m, "wrr") = m
  BY DEF OrElse
<1>. HIDE DEF p, m
<1>4. OrElse(p, "tcp") = p /\ ToLower(p) = p
  <2>1. OrElse(p, "tcp") = p
    BY <1>2 DEF OrElse
  <2>2. ToLower(p) = p
    BY <1>2 DEF ToLower
  <2>. QED
    BY <2>1, <2>2
<1>5. FillService(f) = f
  BY <1>3, <1>4 DEF FillService
<1>6. ServiceHost(f) = ServiceHost(o)
  BY DEF ServiceHost
<1>. QED
  BY <1>1, <1>5, <1>6

LEMMA ServiceFill ==
    ASSUME NEW o \in ServiceInputs, ServiceValid(o)
    PROVE  /\ FillService(o) \in FilledServices
           /\ ServiceHost(FillService(o)) = ServiceHost(o)
<1>1. CASE o \in ServiceRequests \cup ServicePatches
  BY <1>1, ServiceFillAgain DEF FilledServices
<1>2. CASE o \in FilledServices
  <2>1. PICK x : ServiceValid(x) /\ o = FillService(x)
    BY <1>2 DEF FilledServices
  <2>2. FillService(o) = o
    BY <2>1, ServiceFillAgain
  <2>. QED
    BY <1>2, <2>2, ServiceFillAgain
<1>. QED
  BY <1>1, <1>2 DEF ServiceInputs

\* The same for backends; and Validate leaves a Pulse type that pulse.New has a driver for.
LEMMA BackendFillAgain ==
    ASSUME NEW o, o.Weight \in Nat, BackendValid(o)
    PROVE  /\ FillBackend(FillBackend(o)) = FillBackend(o)
           /\ FillBackend(o).Weight \in Nat /\ FillBackend(o).Weight > 0
           /\ FillBackend(o).Pulse.Type \in {"tcp", "http", "none"}
<1>. DEFINE w == IF o.Weight <= 0 THEN DefaultWeight ELSE o.Weight
            m == ToLower(OrElse(o.Method, "nat"))
            t == ToLower(OrElse(o.Pulse.Type, "tcp"))
            i == OrElse(o.Pulse.Interval, "1m")
            u == [Type |-> t, Interval |-> i]
            f == [Host |-> o.Host, Port |-> o.Port, Weight |-> w, Method |-> m, Pulse |-> u]
<1>1. FillBackend(o) = f
  BY DEF FillBackend, FillPulse
<1>2. m \in {"dr", "nat", "tunnel", "ipip"}
  <2>1. FillBackend(o).Method = m
    BY DEF FillBackend
  <2>. HIDE DEF m
  <2>. QED
    BY <2>1 DEF BackendValid, ValidForwarding
<1>3. t \in {"tcp", "http", "none"}
  BY DEF BackendValid, PulseValid, FillPulse
<1>4. w \in Nat /\ w > 0
  BY DEF DefaultWeight
<1>5. OrElse(i, "1m") = i
  BY DEF OrElse
<1>. HIDE DEF w, m, t, i
<1>6. OrElse(m, "nat") = m /\ OrElse(t, "tcp") = t
  BY <1>2, <1>3 DEF OrElse
<1>7. ToLower(m) = m
  BY <1>2 DEF ToLower
<1>8. ToLower(t) = t
  BY <1>3 DEF ToLower
<1>9. FillPulse(u) = u
  BY <1>5, <1>6, <1>8 DEF FillPulse
<1>. HIDE DEF u
<1>10. FillBackend(f) = f
  BY <1>4, <1>6, <1>7, <1>9 DEF FillBackend
<1>. QED
  BY <1>1, <1>3, <1>4, <1>10 DEF u

LEMMA BackendFill ==
    ASSUME NEW o \in BackendInputs, BackendValid(o)
    PROVE  /\ FillBackend(o) \in FilledBackends
           /\ FillBackend(o).Weight \in Nat /\ FillBackend(o).Weight > 0
           /\ FillBackend(o).Pulse.Type \in {"tcp", "http", "none"}
<1>1. CASE o \in BackendRequests
  BY <1>1, RequestAssumption, BackendFillAgain DEF FilledBackends, BackendOptions
<1>2. CASE o \in FilledBackends
  <2>1. PICK x \in BackendRequests : BackendValid(x) /\ o = FillBackend(x)
    BY <1>2 DEF FilledBackends
  <2>2. x.Weight \in Nat
    BY RequestAssumption DEF BackendOptions
  <2>. QED
    BY <1>2, <2>1, <2>2, BackendFillAgain
<1>. QED
  BY <1>1, <1>2 DEF BackendInputs

\* The keys of accepted options are keys of the tables.
LEMMA KeysOfFilled ==
    ASSUME NEW o \in FilledServices
    PROVE  /\ SvcKey(o) \in Keys
           /\ Sched(o) \in Scheds
           /\ ServiceHost(o) \in Hosts
  BY DEF Keys, Scheds, Hosts

LEMMA EntryOfBackend ==
    ASSUME NEW b \in Backend
    PROVE  Entry(b) \in Keys \X Dests
  BY DEF Backend, Service, Entry, Keys, Dests

\* Put and DeleteTree keep a table's type.
LEMMA PutType ==
    ASSUME NEW I, NEW V, NEW table \in [I -> V \cup {None}], NEW id \in I, NEW value \in V,
           NEW overwrite, NEW down
    PROVE  Put(table, id, value, overwrite, down) \in [I -> V \cup {None}]
  BY DEF Put

LEMMA DeleteTreeType ==
    ASSUME NEW I, NEW V, NEW table \in [I -> V \cup {None}], NEW ids, NEW down,
           NEW t \in DeleteTree(table, ids, down)
    PROVE  t \in [I -> V \cup {None}]
  BY DEF DeleteTree

LEMMA ExposeType ==
    ASSUME TypeOK, NEW v \in VsIDs, NEW o \in FilledServices, NEW down
    PROVE  Expose(v, o, down) \in [VsIDs -> {Exposure(x) : x \in FilledServices} \cup {None}]
  BY DEF Expose, TypeOK

-----------------------------------------------------------------------------
(* Type correctness *)

\* Every way this development calls an operation of Context: the handlers, Synchronize
\* with options from the store, and the notification loop with weights of its own.
AnyCreateService ==
    \E v \in VsIDs, o \in ServiceInputs, p \in FreePtrs, down \in Outages :
        CreateService(v, o, p, down)
AnyCreateBackend ==
    \E v \in VsIDs, r \in RsIDs, o \in BackendInputs, q \in FreePulses, down \in Outages :
        CreateBackend(v, r, o, q, down)
AnyUpdateBackend == \E r \in RsIDs, w \in Nat, down \in Outages : UpdateBackend(r, w, down)

Operation ==
    \/ AnyCreateService
    \/ ServiceUpdateHandler
    \/ AnyCreateBackend
    \/ AnyUpdateBackend
    \/ ServiceRemoveHandler
    \/ BackendRemoveHandler

LEMMA HandlersOperate == [Next]_ctxVars => [Operation]_ctxVars
<1>1. ServiceCreateHandler => AnyCreateService
  BY DEF ServiceCreateHandler, AnyCreateService, ServiceInputs
<1>2. BackendCreateHandler => AnyCreateBackend
  BY DEF BackendCreateHandler, AnyCreateBackend, BackendInputs
<1>3. BackendUpdateHandler => AnyUpdateBackend
  BY RequestAssumption DEF BackendUpdateHandler, AnyUpdateBackend
<1>. QED
  BY <1>1, <1>2, <1>3 DEF Next, Operation

LEMMA CreateServiceType ==
    ASSUME TypeOK,
           NEW v \in VsIDs, NEW o \in ServiceInputs,
           NEW p \in SvcPtrs, NEW down, CreateService(v, o, p, down)
    PROVE  TypeOK'
<1>. DEFINE opts == FillService(o)
            host == ServiceHost(o)
            new  == [ptr |-> p, opts |-> opts, delIfAddr |-> AddrAddOK(host, down)]
<1>0. /\ opts \in FilledServices /\ SvcKey(opts) \in Keys /\ Sched(opts) \in Scheds
      /\ host \in Hosts
  BY ServiceFill, KeysOfFilled DEF CreateService
<1>1. addrs' \subseteq ForeignAddrs \cup Hosts
  BY <1>0 DEF CreateService, TypeOK
<1>2. storedServices' \in [VsIDs -> FilledServices \cup {None}]
  BY <1>0, PutType DEF CreateService, TypeOK
<1>3. new \in Service
  <2>1. AddrAddOK(host, down) \in BOOLEAN
    BY DEF AddrAddOK
  <2>. QED
    BY <1>0, <2>1 DEF Service
<1>4. services' \in [VsIDs -> Service \cup {None}]
  BY <1>3 DEF CreateService, TypeOK
<1>5. virtuals' \in [Keys -> Scheds \cup {None}]
  BY <1>0 DEF CreateService, TypeOK
<1>6. catalog' \in [VsIDs -> {Exposure(x) : x \in FilledServices} \cup {None}]
  BY <1>0, ExposeType DEF CreateService, TypeOK
<1>. QED
  BY <1>1, <1>2, <1>4, <1>5, <1>6 DEF CreateService, TypeOK

LEMMA UpdateServiceType ==
    ASSUME TypeOK,
           NEW v \in VsIDs, NEW o \in ServiceInputs,
           NEW p \in SvcPtrs, NEW down, UpdateService(v, o, p, down)
    PROVE  TypeOK'
<1>. DEFINE opts == FillService(o)
            new  == [ptr |-> p, opts |-> opts, delIfAddr |-> FALSE]
<1>1. CASE CreateService(v, o, p, down)
  BY <1>1, CreateServiceType
<1>2. CASE ~CreateService(v, o, p, down)
  <2>0. /\ opts \in FilledServices /\ SvcKey(opts) \in Keys /\ Sched(opts) \in Scheds
    BY <1>2, ServiceFill, KeysOfFilled DEF UpdateService
  <2>1. storedServices' \in [VsIDs -> FilledServices \cup {None}]
    <3>1. storedServices' = Put(storedServices, v, opts, TRUE, down)
      BY <1>2 DEF UpdateService
    <3>. QED
      BY <2>0, <3>1, PutType DEF TypeOK
  <2>2. new \in Service
    BY <2>0 DEF Service
  <2>3. services' \in [VsIDs -> Service \cup {None}]
    BY <1>2, <2>2 DEF UpdateService, TypeOK
  <2>4. virtuals' \in [Keys -> Scheds \cup {None}]
    BY <1>2, <2>0 DEF UpdateService, TypeOK
  <2>5. catalog' \in [VsIDs -> {Exposure(x) : x \in FilledServices} \cup {None}]
    <3>1. catalog' = Expose(v, opts, down) \/ catalog' = catalog
      BY <1>2 DEF UpdateService
    <3>. QED
      BY <2>0, <3>1, ExposeType DEF TypeOK
  <2>. QED
    BY <1>2, <2>1, <2>3, <2>4, <2>5 DEF UpdateService, TypeOK
<1>. QED
  BY <1>1, <1>2

LEMMA CreateBackendType ==
    ASSUME TypeOK,
           NEW v \in VsIDs, NEW r \in RsIDs, NEW o \in BackendInputs,
           NEW q \in Pulses, NEW down, CreateBackend(v, r, o, q, down)
    PROVE  TypeOK'
<1>. DEFINE opts == FillBackend(o)
            vs   == services[v]
            b    == [service |-> vs, opts |-> opts, weight |-> opts.Weight, monitor |-> q]
<1>0. opts \in FilledBackends /\ opts.Weight \in Nat
  BY BackendFill DEF CreateBackend
<1>1. b \in Backend
  BY <1>0 DEF CreateBackend, TypeOK, Backend
<1>2. Entry(b) \in Keys \X Dests
  BY <1>1, EntryOfBackend
<1>3. storedBackends' \in [RsIDs -> StoredBackend \cup {None}]
  <2>1. [opts |-> opts, VsID |-> v] \in StoredBackend
    BY <1>0 DEF StoredBackend
  <2>2. storedBackends' = Put(storedBackends, r, [opts |-> opts, VsID |-> v], FALSE, down)
    BY DEF CreateBackend
  <2>. QED
    BY <2>1, <2>2, PutType DEF TypeOK
<1>4. dests' \in [Keys \X Dests -> Nat \cup {None}]
  BY <1>0, <1>2 DEF CreateBackend, TypeOK
<1>5. backends' \in [RsIDs -> Backend \cup {None}]
  BY <1>1 DEF CreateBackend, TypeOK
<1>. QED
  BY <1>3, <1>4, <1>5 DEF CreateBackend, TypeOK

LEMMA UpdateBackendType ==
    ASSUME TypeOK, NEW r \in RsIDs, NEW w \in Nat, NEW down, UpdateBackend(r, w, down)
    PROVE  TypeOK'
<1>1. backends[r] \in Backend
  BY DEF UpdateBackend, TypeOK
<1>2. [backends[r] EXCEPT !.weight = w] \in Backend
  BY <1>1 DEF Backend
<1>3. backends' \in [RsIDs -> Backend \cup {None}]
  BY <1>2 DEF UpdateBackend, TypeOK
<1>4. dests' \in [Keys \X Dests -> Nat \cup {None}]
  BY <1>1, EntryOfBackend DEF UpdateBackend, TypeOK
<1>. QED
  BY <1>3, <1>4 DEF UpdateBackend, TypeOK, stored

LEMMA CleanUpType ==
    ASSUME TypeOK, NEW ids \in SUBSET Backends, NEW down, CleanUp(ids, down)
    PROVE  /\ backends' \in [RsIDs -> Backend \cup {None}]
           /\ stopped' \subseteq Pulses
           /\ storedBackends' \in [RsIDs -> StoredBackend \cup {None}]
<1>1. \A r \in ids : backends[r].monitor \in Pulses
  BY DEF Backends, TypeOK, Backend
<1>2. storedBackends' \in [RsIDs -> StoredBackend \cup {None}]
  <2>1. storedBackends' \in DeleteTree(storedBackends, ids, down)
    BY DEF CleanUp
  <2>. QED
    BY <2>1, DeleteTreeType DEF TypeOK
<1>. QED
  BY <1>1, <1>2 DEF CleanUp, TypeOK

LEMMA RemoveServiceType ==
    ASSUME TypeOK, NEW v \in VsIDs, NEW down, RemoveService(v, down)
    PROVE  TypeOK'
<1>. DEFINE vs   == services[v]
            mine == BackendsOf(vs)
<1>1. services' \in [VsIDs -> Service \cup {None}]
  BY DEF RemoveService, TypeOK
<1>2. addrs' \subseteq ForeignAddrs \cup Hosts
  BY DEF RemoveService, TypeOK
<1>3. CASE ~DelServiceOK(vs.opts, down)
  BY <1>1, <1>2, <1>3 DEF RemoveService, TypeOK, kernel, stored
<1>4. CASE DelServiceOK(vs.opts, down)
  <2>1. virtuals' \in [Keys -> Scheds \cup {None}]
    BY <1>4 DEF RemoveService, TypeOK
  <2>2. dests' \in [Keys \X Dests -> Nat \cup {None}]
    BY <1>4 DEF RemoveService, TypeOK
  <2>3. storedServices' \in [VsIDs -> FilledServices \cup {None}]
    <3>1. storedServices' \in DeleteTree(storedServices, {v}, down)
      BY <1>4 DEF RemoveService
    <3>. QED
      BY <3>1, DeleteTreeType DEF TypeOK
  <2>4. catalog' \in [VsIDs -> {Exposure(x) : x \in FilledServices} \cup {None}]
    BY <1>4 DEF RemoveService, TypeOK
  <2>5. PICK ids \in SUBSET Backends : CleanUp(ids, down)
    BY <1>4 DEF RemoveService, BackendsOf
  <2>. QED
    BY <1>1, <1>2, <2>1, <2>2, <2>3, <2>4, <2>5, CleanUpType DEF TypeOK
<1>. QED
  BY <1>3, <1>4

LEMMA RemoveBackendType ==
    ASSUME TypeOK, NEW r \in RsIDs, NEW down, RemoveBackend(r, down)
    PROVE  TypeOK'
<1>1. backends[r] \in Backend
  BY DEF RemoveBackend, TypeOK
<1>2. Entry(backends[r]) \in Keys \X Dests /\ backends[r].monitor \in Pulses
  BY <1>1, EntryOfBackend DEF Backend
<1>3. storedBackends' \in [RsIDs -> StoredBackend \cup {None}]
  <2>1. storedBackends' \in DeleteTree(storedBackends, {r}, down)
    BY DEF RemoveBackend
  <2>. QED
    BY <2>1, DeleteTreeType DEF TypeOK
<1>4. dests' \in [Keys \X Dests -> Nat \cup {None}]
  BY <1>2 DEF RemoveBackend, TypeOK
<1>. QED
  BY <1>2, <1>3, <1>4 DEF RemoveBackend, TypeOK

LEMMA TypeInductive == TypeOK /\ [Operation]_ctxVars => TypeOK'
<1>. SUFFICES ASSUME TypeOK, [Operation]_ctxVars PROVE TypeOK'
  OBVIOUS
<1>1. CASE AnyCreateService
  BY <1>1, CreateServiceType DEF AnyCreateService, FreePtrs
<1>2. CASE ServiceUpdateHandler
  BY <1>2, UpdateServiceType DEF ServiceUpdateHandler, FreePtrs, ServiceInputs
<1>3. CASE AnyCreateBackend
  BY <1>3, CreateBackendType DEF AnyCreateBackend, FreePulses
<1>4. CASE AnyUpdateBackend
  BY <1>4, UpdateBackendType DEF AnyUpdateBackend
<1>5. CASE ServiceRemoveHandler
  BY <1>5, RemoveServiceType DEF ServiceRemoveHandler
<1>6. CASE BackendRemoveHandler
  BY <1>6, RemoveBackendType DEF BackendRemoveHandler
<1>7. CASE UNCHANGED ctxVars
  BY <1>7 DEF ctxVars, registry, kernel, stored, TypeOK
<1>. QED
  BY <1>1, <1>2, <1>3, <1>4, <1>5, <1>6, <1>7 DEF Operation

\* Every state of the registry, the kernel tables, the interface, the catalog and the
\* store has the type Context gives it, whatever fails.
THEOREM TypeCorrect == Spec => []TypeOK
<1>1. Init => TypeOK
  BY DEF Init, TypeOK
<1>. QED
  BY <1>1, TypeInductive, HandlersOperate, PTL DEF Spec

-----------------------------------------------------------------------------
(* The registry and the kernel agree on the virtual services *)

\* What is registered is a service struct.
LEMMA RegisteredType ==
    ASSUME TypeOK, NEW v \in Registered
    PROVE  /\ services[v] \in Service
           /\ services[v].opts \in FilledServices
           /\ SvcKey(services[v].opts) \in Keys
           /\ Sched(services[v].opts) # None
<1>1. services[v] \in Service
  BY DEF Registered, TypeOK
<1>2. services[v].opts \in FilledServices
  BY <1>1 DEF Service
<1>. QED
  BY <1>1, <1>2, KeysOfFilled, NoneAssumption

LEMMA CreateServiceKernel ==
    ASSUME TypeOK, RegisteredInKernel,
           NEW v \in VsIDs, NEW o \in ServiceInputs,
           NEW p \in SvcPtrs, NEW down, CreateService(v, o, p, down)
    PROVE  RegisteredInKernel'
<1>. DEFINE opts == FillService(o)
            new  == [ptr |-> p, opts |-> opts,
                     delIfAddr |-> AddrAddOK(ServiceHost(o), down)]
<1>1. CASE ~(StoreOK(down) /\ AddServiceOK(opts, down))
  BY <1>1 DEF CreateService, RegisteredInKernel, Registered
<1>2. CASE StoreOK(down) /\ AddServiceOK(opts, down)
  <2>1. opts \in FilledServices /\ SvcKey(opts) \in Keys /\ Sched(opts) \in Scheds
    BY ServiceFill, KeysOfFilled DEF CreateService
  <2>2. /\ services' = [services EXCEPT ![v] = new]
        /\ virtuals' = [virtuals EXCEPT ![SvcKey(opts)] = Sched(opts)]
    BY <1>2 DEF CreateService
  <2>3. \A w \in Registered : SvcKey(services[w].opts) # SvcKey(opts)
    BY <1>2, RegisteredType DEF RegisteredInKernel, AddServiceOK
  <2>4. \A w \in Registered' : w = v \/ (w \in Registered /\ services'[w] = services[w])
    BY <2>2 DEF Registered, TypeOK
  <2>5. services'[v] = new /\ new.opts = opts
    BY <2>2 DEF TypeOK
  <2>6. /\ virtuals'[SvcKey(opts)] = Sched(opts)
        /\ \A k \in Keys : k # SvcKey(opts) => virtuals'[k] = virtuals[k]
    BY <2>1, <2>2 DEF TypeOK
  <2>. QED
    BY <2>3, <2>4, <2>5, <2>6, RegisteredType DEF RegisteredInKernel
<1>. QED
  BY <1>1, <1>2

LEMMA UpdateServiceKernel ==
    ASSUME TypeOK, RegisteredInKernel,
           NEW v \in VsIDs, NEW o \in ServiceInputs,
           NEW p \in SvcPtrs, NEW down, UpdateService(v, o, p, down)
    PROVE  RegisteredInKernel'
<1>. DEFINE opts == FillService(o)
            new  == [ptr |-> p, opts |-> opts, delIfAddr |-> FALSE]
<1>1. CASE CreateService(v, o, p, down)
  BY <1>1, CreateServiceKernel
<1>2. CASE ~CreateService(v, o, p, down) /\ ~(StoreOK(down) /\ UpdateServiceOK(opts, down))
  BY <1>2 DEF UpdateService, RegisteredInKernel, Registered
<1>3. CASE ~CreateService(v, o, p, down) /\ StoreOK(down) /\ UpdateServiceOK(opts, down)
  <2>1. opts \in FilledServices /\ SvcKey(opts) \in Keys
    BY <1>3, ServiceFill, KeysOfFilled DEF UpdateService
  <2>2. /\ v \in Registered
        /\ SvcKey(services[v].opts) = SvcKey(opts)
        /\ services' = [services EXCEPT ![v] = new]
        /\ virtuals' = [virtuals EXCEPT ![SvcKey(opts)] = Sched(opts)]
    BY <1>3 DEF UpdateService, SameEndpoint, Registered
  <2>3. \A w \in Registered : w # v => SvcKey(services[w].opts) # SvcKey(opts)
    BY <2>2 DEF RegisteredInKernel
  <2>4. \A w \in Registered' : w = v \/ (w \in Registered /\ services'[w] = services[w])
    BY <2>2 DEF Registered, TypeOK
  <2>5. services'[v] = new /\ new.opts = opts
    BY <2>2 DEF TypeOK
  <2>6. /\ virtuals'[SvcKey(opts)] = Sched(opts)
        /\ \A k \in Keys : k # SvcKey(opts) => virtuals'[k] = virtuals[k]
    BY <2>1, <2>2 DEF TypeOK
  <2>. QED
    BY <2>3, <2>4, <2>5, <2>6, RegisteredType DEF RegisteredInKernel
<1>. QED
  BY <1>1, <1>2, <1>3

LEMMA RemoveServiceKernel ==
    ASSUME TypeOK, RegisteredInKernel, NEW v \in VsIDs, NEW down, RemoveService(v, down)
    PROVE  RegisteredInKernel'
<1>. DEFINE key == SvcKey(services[v].opts)
<1>1. v \in Registered /\ services' = [services EXCEPT ![v] = None]
  BY DEF RemoveService, Registered
<1>2. \A w \in Registered' : w \in Registered /\ w # v /\ services'[w] = services[w]
  BY <1>1 DEF Registered, TypeOK
<1>3. \A w \in Registered' : SvcKey(services[w].opts) # key
  BY <1>1, <1>2 DEF RegisteredInKernel
<1>4. \A k \in Keys : k # key => virtuals'[k] = virtuals[k]
  BY DEF RemoveService, TypeOK, kernel
<1>. QED
  BY <1>2, <1>3, <1>4, RegisteredType DEF RegisteredInKernel

LEMMA KernelInductive == TypeOK /\ RegisteredInKernel /\ [Operation]_ctxVars => RegisteredInKernel'
<1>. SUFFICES ASSUME TypeOK, RegisteredInKernel, [Operation]_ctxVars
              PROVE  RegisteredInKernel'
  OBVIOUS
<1>1. CASE AnyCreateService
  BY <1>1, CreateServiceKernel DEF AnyCreateService, FreePtrs
<1>2. CASE ServiceUpdateHandler
  BY <1>2, UpdateServiceKernel DEF ServiceUpdateHandler, FreePtrs, ServiceInputs
<1>3. CASE AnyCreateBackend
  BY <1>3 DEF AnyCreateBackend, CreateBackend, RegisteredInKernel, Registered
<1>4. CASE AnyUpdateBackend
  BY <1>4 DEF AnyUpdateBackend, UpdateBackend, RegisteredInKernel, Registered
<1>5. CASE ServiceRemoveHandler
  BY <1>5, RemoveServiceKernel DEF ServiceRemoveHandler
<1>6. CASE BackendRemoveHandler
  BY <1>6 DEF BackendRemoveHandler, RemoveBackend, RegisteredInKernel, Registered
<1>7. CASE UNCHANGED ctxVars
  BY <1>7 DEF ctxVars, registry, kernel, RegisteredInKernel, Registered
<1>. QED
  BY <1>1, <1>2, <1>3, <1>4, <1>5, <1>6, <1>7 DEF Operation

\* createService, updateService and removeService keep the registry and the kernel in
\* step on virtual services, whatever calls fail half-way: a registered name is a
\* kernel service with the scheduler last asked for, and no two names share one.
THEOREM KernelAgrees == Spec => []RegisteredInKernel
<1>1. Init => RegisteredInKernel
  BY DEF Init, RegisteredInKernel, Registered
<1>. QED
  BY <1>1, KernelInductive, HandlersOperate, TypeCorrect, PTL DEF Spec

-----------------------------------------------------------------------------
(* Destinations belong to registered backends *)

\* Struct addresses identify structs: the loop of removeService, which compares
\* addresses, finds only backends of the service it removes.
PtrsConsistent ==
    /\ \A v, w \in Registered : services[v].ptr = services[w].ptr => v = w
    /\ \A v \in Registered, r \in Backends :
          backends[r].service.ptr = services[v].ptr => backends[r].service = services[v]

\* Registering a struct at an unused address keeps addresses apart.
LEMMA FreshPtr ==
    ASSUME TypeOK, PtrsConsistent, NEW v \in VsIDs, NEW p \in FreePtrs, NEW new,
           new.ptr = p, services' = [services EXCEPT ![v] = new], backends' = backends
    PROVE  PtrsConsistent'
<1>1. \A w \in Registered' : w = v \/ (w \in Registered /\ services'[w] = services[w])
  BY DEF Registered, TypeOK
<1>2. services'[v] = new
  BY DEF TypeOK
<1>3. /\ \A w \in Registered : services[w].ptr # p
      /\ \A r \in Backends : backends[r].service.ptr # p
  BY DEF FreePtrs
<1>4. Backends' = Backends
  BY DEF Backends
<1>. QED
  BY <1>1, <1>2, <1>3, <1>4 DEF PtrsConsistent

\* Dropping structs from the registry keeps addresses apart.
LEMMA FewerPtrs ==
    ASSUME PtrsConsistent,
           \A w \in Registered' : w \in Registered /\ services'[w] = services[w],
           \A r \in Backends' : r \in Backends /\ backends'[r].service = backends[r].service
    PROVE  PtrsConsistent'
  BY DEF PtrsConsistent

LEMMA PtrsInductive == TypeOK /\ PtrsConsistent /\ [Operation]_ctxVars => PtrsConsistent'
<1>. SUFFICES ASSUME TypeOK, PtrsConsistent, [Operation]_ctxVars PROVE PtrsConsistent'
  OBVIOUS
<1>0. ASSUME services' = services, backends' = backends PROVE PtrsConsistent'
  BY <1>0, FewerPtrs DEF Registered, Backends
<1>1. ASSUME NEW v \in VsIDs, NEW o, NEW p \in FreePtrs, NEW down,
             CreateService(v, o, p, down)
      PROVE  PtrsConsistent'
  <2>. DEFINE new == [ptr |-> p, opts |-> FillService(o),
                      delIfAddr |-> AddrAddOK(ServiceHost(o), down)]
  <2>1. /\ backends' = backends
        /\ services' = services \/ services' = [services EXCEPT ![v] = new]
    BY <1>1 DEF CreateService
  <2>2. new.ptr = p
    OBVIOUS
  <2>. HIDE DEF new
  <2>. QED
    BY <1>0, <2>1, <2>2, FreshPtr
<1>2. ASSUME NEW v \in VsIDs, NEW o, NEW p \in FreePtrs, NEW down,
             UpdateService(v, o, p, down), ~CreateService(v, o, p, down)
      PROVE  PtrsConsistent'
  <2>. DEFINE new == [ptr |-> p, opts |-> FillService(o), delIfAddr |-> FALSE]
  <2>1. /\ backends' = backends
        /\ services' = services \/ services' = [services EXCEPT ![v] = new]
    BY <1>2 DEF UpdateService
  <2>2. new.ptr = p
    OBVIOUS
  <2>. HIDE DEF new
  <2>. QED
    BY <1>0, <2>1, <2>2, FreshPtr
<1>3. ASSUME NEW v \in VsIDs, NEW r \in RsIDs, NEW o, NEW q, NEW down,
             CreateBackend(v, r, o, q, down)
      PROVE  PtrsConsistent'
  <2>. DEFINE b == [service |-> services[v], opts |-> FillBackend(o),
                    weight |-> FillBackend(o).Weight, monitor |-> q]
  <2>1. /\ services' = services /\ v \in Registered
        /\ backends' = backends \/ backends' = [backends EXCEPT ![r] = b]
    BY <1>3 DEF CreateBackend, Registered
  <2>2. b.service = services[v]
    OBVIOUS
  <2>. HIDE DEF b
  <2>3. \A s \in Backends' : \/ s \in Backends /\ backends'[s] = backends[s]
                             \/ backends'[s].service = services[v]
    BY <2>1, <2>2 DEF Backends, TypeOK
  <2>. QED
    BY <2>1, <2>3 DEF PtrsConsistent, Registered
<1>4. ASSUME NEW r \in RsIDs, NEW w, NEW down, UpdateBackend(r, w, down)
      PROVE  PtrsConsistent'
  <2>1. backends[r] \in Backend
    BY <1>4 DEF UpdateBackend, TypeOK
  <2>2. [backends[r] EXCEPT !.weight = w].service = backends[r].service
    BY <2>1 DEF Backend
  <2>3. \A s \in Backends' : s \in Backends /\ backends'[s].service = backends[s].service
    BY <1>4, <2>2 DEF UpdateBackend, Backends, TypeOK
  <2>. QED
    BY <1>4, <2>3, FewerPtrs DEF UpdateBackend, Registered
<1>5. ASSUME NEW v \in VsIDs, NEW down, RemoveService(v, down)
      PROVE  PtrsConsistent'
  <2>1. \A w \in Registered' : w \in Registered /\ services'[w] = services[w]
    BY <1>5 DEF RemoveService, Registered, TypeOK
  <2>2. \A r \in Backends' : r \in Backends /\ backends'[r] = backends[r]
    BY <1>5 DEF RemoveService, CleanUp, Backends
  <2>. QED
    BY <2>1, <2>2, FewerPtrs
<1>6. ASSUME NEW r \in RsIDs, NEW down, RemoveBackend(r, down)
      PROVE  PtrsConsistent'
  <2>1. \A s \in Backends' : s \in Backends /\ backends'[s] = backends[s]
    BY <1>6 DEF RemoveBackend, Backends, TypeOK
  <2>. QED
    BY <1>6, <2>1, FewerPtrs DEF RemoveBackend, Registered
<1>7. CASE UNCHANGED ctxVars
  BY <1>0, <1>7 DEF ctxVars, registry
<1>. QED
  BY <1>1, <1>2, <1>3, <1>4, <1>5, <1>6, <1>7
  DEF Operation, AnyCreateService, ServiceUpdateHandler, AnyCreateBackend,
      AnyUpdateBackend, ServiceRemoveHandler, BackendRemoveHandler

LEMMA CreateBackendWeights ==
    ASSUME TypeOK, WeightsAccounted,
           NEW v \in VsIDs, NEW r \in RsIDs, NEW o \in BackendInputs,
           NEW q \in Pulses, NEW down, CreateBackend(v, r, o, q, down)
    PROVE  WeightsAccounted'
<1>. DEFINE opts == FillBackend(o)
            b    == [service |-> services[v], opts |-> opts, weight |-> opts.Weight,
                     monitor |-> q]
<1>1. CASE ~(StoreOK(down) /\ AddDestPortOK(b, down))
  BY <1>1 DEF CreateBackend, WeightsAccounted, Backends
<1>2. CASE StoreOK(down) /\ AddDestPortOK(b, down)
  <2>1. /\ dests' = [dests EXCEPT ![Entry(b)] = opts.Weight]
        /\ backends' = [backends EXCEPT ![r] = b]
        /\ backends[r] = None
    BY <1>2 DEF CreateBackend
  <2>2. b \in Backend
    BY BackendFill DEF CreateBackend, TypeOK, Backend
  <2>3. b.weight = opts.Weight /\ b # None
    BY <2>2, NoneAssumption
  <2>. HIDE DEF b
  <2>4. r \in Backends' /\ backends'[r] = b
    BY <2>1, <2>3 DEF TypeOK, Backends
  <2>5. \A s \in Backends : s \in Backends' /\ backends'[s] = backends[s]
    BY <2>1 DEF TypeOK, Backends
  <2>6. /\ dests'[Entry(b)] = opts.Weight
        /\ \A e \in Keys \X Dests : e # Entry(b) => dests'[e] = dests[e]
    BY <2>1, <2>2, EntryOfBackend DEF TypeOK
  <2>. QED
    BY <2>3, <2>4, <2>5, <2>6 DEF WeightsAccounted
<1>. QED
  BY <1>1, <1>2

LEMMA UpdateBackendWeights ==
    ASSUME TypeOK, WeightsAccounted, NEW r \in RsIDs, NEW w \in Nat, NEW down,
           UpdateBackend(r, w, down)
    PROVE  WeightsAccounted'
<1>. DEFINE new == [backends[r] EXCEPT !.weight = w]
<1>1. backends[r] \in Backend
  BY DEF UpdateBackend, TypeOK
<1>2. new \in Backend /\ new.weight = w /\ Entry(new) = Entry(backends[r])
  BY <1>1 DEF Backend, Entry
<1>3. /\ backends' = [backends EXCEPT ![r] = new]
      /\ dests' = [dests EXCEPT ![Entry(backends[r])] = w]
  BY DEF UpdateBackend
<1>4. r \in Backends' /\ backends'[r] = new
  BY <1>2, <1>3, NoneAssumption DEF TypeOK, Backends
<1>5. \A s \in Backends : s # r => s \in Backends' /\ backends'[s] = backends[s]
  BY <1>3 DEF TypeOK, Backends
<1>6. /\ dests'[Entry(backends[r])] = w
      /\ \A e \in Keys \X Dests : e # Entry(backends[r]) => dests'[e] = dests[e]
  BY <1>1, <1>3, EntryOfBackend DEF TypeOK
<1>. HIDE DEF new
<1>. QED
  BY <1>2, <1>4, <1>5, <1>6 DEF WeightsAccounted

\* Here the loop of removeService must remove no backend of another service: that is
\* what PtrsConsistent is for.
LEMMA RemoveServiceWeights ==
    ASSUME TypeOK, PtrsConsistent, WeightsAccounted, NEW v \in VsIDs, NEW down,
           RemoveService(v, down)
    PROVE  WeightsAccounted'
<1>. DEFINE vs   == services[v]
            mine == BackendsOf(vs)
            key  == SvcKey(vs.opts)
<1>1. CASE ~DelServiceOK(vs.opts, down)
  BY <1>1 DEF RemoveService, WeightsAccounted, Backends, kernel
<1>2. CASE DelServiceOK(vs.opts, down)
  <2>1. v \in Registered
    BY DEF RemoveService, Registered
  <2>2. \A r \in mine : Entry(backends[r])[1] = key
    BY <2>1 DEF BackendsOf, PtrsConsistent, Entry
  <2>3. PICK ids \in SUBSET mine : CleanUp(ids, down)
    BY <1>2 DEF RemoveService
  <2>4. \A r \in Backends \ ids : r \in Backends' /\ backends'[r] = backends[r]
    BY <2>3 DEF CleanUp, Backends
  <2>5. \A e \in Keys \X Dests : dests'[e] = IF e[1] = key THEN None ELSE dests[e]
    BY <1>2 DEF RemoveService
  <2>. QED
    BY <2>2, <2>3, <2>4, <2>5 DEF WeightsAccounted
<1>. QED
  BY <1>1, <1>2

LEMMA RemoveBackendWeights ==
    ASSUME TypeOK, WeightsAccounted, NEW r \in RsIDs, NEW down, RemoveBackend(r, down)
    PROVE  WeightsAccounted'
<1>1. CASE dests' = dests /\ backends' = backends
  BY <1>1 DEF WeightsAccounted, Backends
<1>2. CASE ~(dests' = dests /\ backends' = backends)
  <2>1. /\ dests' = [dests EXCEPT ![Entry(backends[r])] = None]
        /\ backends' = [backends EXCEPT ![r] = None]
    BY <1>2 DEF RemoveBackend
  <2>2. \A s \in Backends : s # r => s \in Backends' /\ backends'[s] = backends[s]
    BY <2>1 DEF TypeOK, Backends
  <2>3. \A e \in Keys \X Dests :
           dests'[e] = IF e = Entry(backends[r]) THEN None ELSE dests[e]
    BY <2>1 DEF TypeOK
  <2>. QED
    BY <2>2, <2>3 DEF WeightsAccounted
<1>. QED
  BY <1>1, <1>2

LEMMA WeightsInductive ==
    TypeOK /\ PtrsConsistent /\ WeightsAccounted /\ [Operation]_ctxVars => WeightsAccounted'
<1>. SUFFICES ASSUME TypeOK, PtrsConsistent, WeightsAccounted, [Operation]_ctxVars
              PROVE  WeightsAccounted'
  OBVIOUS
<1>0. ASSUME dests' = dests, backends' = backends PROVE WeightsAccounted'
  BY <1>0 DEF WeightsAccounted, Backends
<1>1. CASE AnyCreateService
  BY <1>0, <1>1 DEF AnyCreateService, CreateService
<1>2. CASE ServiceUpdateHandler
  <2>1. PICK v \in VsIDs, o \in ServicePatches, p \in FreePtrs, down \in Outages :
           UpdateService(v, o, p, down)
    BY <1>2 DEF ServiceUpdateHandler
  <2>2. CASE CreateService(v, o, p, down)
    BY <1>0, <2>2 DEF CreateService
  <2>3. CASE ~CreateService(v, o, p, down)
    BY <1>0, <2>1, <2>3 DEF UpdateService
  <2>. QED
    BY <2>2, <2>3
<1>3. CASE AnyCreateBackend
  BY <1>3, CreateBackendWeights DEF AnyCreateBackend, FreePulses
<1>4. CASE AnyUpdateBackend
  BY <1>4, UpdateBackendWeights DEF AnyUpdateBackend
<1>5. CASE ServiceRemoveHandler
  BY <1>5, RemoveServiceWeights DEF ServiceRemoveHandler
<1>6. CASE BackendRemoveHandler
  BY <1>6, RemoveBackendWeights DEF BackendRemoveHandler
<1>7. CASE UNCHANGED ctxVars
  BY <1>0, <1>7 DEF ctxVars, registry, kernel
<1>. QED
  BY <1>1, <1>2, <1>3, <1>4, <1>5, <1>6, <1>7 DEF Operation

\* The kernel balances to no destination that ctx.backends does not list with the
\* kernel's weight, even when services are patched and calls are refused.
THEOREM WeightsCorrect == Spec => []WeightsAccounted
<1>1. Init => PtrsConsistent /\ WeightsAccounted
  BY DEF Init, PtrsConsistent, WeightsAccounted, Registered, Backends
<1>. QED
  BY <1>1, WeightsInductive, HandlersOperate, TypeCorrect, PtrsInductive, PTL DEF Spec

-----------------------------------------------------------------------------
(* Registered services are in the store and in the catalog *)

\* DeleteTree touches only the keys it is given, if no name extends another.
LEMMA DeleteTreeKeeps ==
    ASSUME Extensions = {}, NEW I, NEW V, NEW table \in [I -> V \cup {None}], NEW ids, NEW down,
           NEW t \in DeleteTree(table, ids, down)
    PROVE  \A i \in I : i \notin ids => t[i] = table[i]
<1>1. Tree(ids) = ids /\ \A gone \in SUBSET ids : Tree(gone) \subseteq ids
  BY DEF Tree
<1>. QED
  BY <1>1 DEF DeleteTree

\* What createService and updateService do to the registry and the store.
LEMMA WriteService ==
    ASSUME TypeOK,
           NEW v \in VsIDs, NEW o \in ServiceInputs,
           NEW p \in SvcPtrs, NEW down,
           CreateService(v, o, p, down) \/ UpdateService(v, o, p, down)
    PROVE  /\ \A w \in VsIDs : w # v => services'[w] = services[w]
           /\ \A w \in VsIDs : storedServices[w] # None => storedServices'[w] # None
           /\ services' # services /\ HasStore => storedServices'[v] # None
<1>1. CASE CreateService(v, o, p, down)
  <2>1. FillService(o) \in FilledServices
    BY <1>1, ServiceFill DEF CreateService
  <2>2. storedServices' = Put(storedServices, v, FillService(o), FALSE, down)
    BY <1>1 DEF CreateService
  <2>3. services' # services => StoreOK(down)
    BY <1>1 DEF CreateService
  <2>4. \A w \in VsIDs : w # v => services'[w] = services[w]
    BY <1>1 DEF CreateService, TypeOK
  <2>5. storedServices \in [VsIDs -> FilledServices \cup {None}]
    BY DEF TypeOK
  <2>6. /\ \A w \in VsIDs : storedServices[w] # None => storedServices'[w] # None
        /\ HasStore /\ StoreOK(down) => storedServices'[v] # None
    BY <2>1, <2>2, <2>5, NoneAssumption DEF Put
  <2>. QED
    BY <2>3, <2>4, <2>6
<1>2. CASE ~CreateService(v, o, p, down)
  <2>1. FillService(o) \in FilledServices
    BY <1>2, ServiceFill DEF UpdateService
  <2>2. storedServices' = Put(storedServices, v, FillService(o), TRUE, down)
    BY <1>2 DEF UpdateService
  <2>3. services' # services => StoreOK(down)
    BY <1>2 DEF UpdateService
  <2>4. \A w \in VsIDs : w # v => services'[w] = services[w]
    BY <1>2 DEF UpdateService, TypeOK
  <2>5. storedServices \in [VsIDs -> FilledServices \cup {None}]
    BY DEF TypeOK
  <2>6. /\ \A w \in VsIDs : storedServices[w] # None => storedServices'[w] # None
        /\ HasStore /\ StoreOK(down) => storedServices'[v] # None
    BY <2>1, <2>2, <2>5, NoneAssumption DEF Put
  <2>. QED
    BY <2>3, <2>4, <2>6
<1>. QED
  BY <1>1, <1>2

LEMMA StoredInductive ==
    ASSUME Extensions = {}
    PROVE  TypeOK /\ RegisteredIsStored /\ [Operation]_ctxVars => RegisteredIsStored'
<1>. SUFFICES ASSUME TypeOK, RegisteredIsStored, [Operation]_ctxVars
              PROVE  RegisteredIsStored'
  OBVIOUS
<1>0. ASSUME services' = services, storedServices' = storedServices
      PROVE  RegisteredIsStored'
  BY <1>0 DEF RegisteredIsStored, Registered
<1>1. CASE AnyCreateService
  BY <1>1, WriteService DEF AnyCreateService, FreePtrs, RegisteredIsStored, Registered
<1>2. CASE ServiceUpdateHandler
  BY <1>2, WriteService
  DEF ServiceUpdateHandler, FreePtrs, ServiceInputs, RegisteredIsStored, Registered
<1>3. CASE AnyCreateBackend
  BY <1>0, <1>3 DEF AnyCreateBackend, CreateBackend
<1>4. CASE AnyUpdateBackend
  BY <1>0, <1>4 DEF AnyUpdateBackend, UpdateBackend, stored
<1>5. ASSUME NEW v \in VsIDs, NEW down, RemoveService(v, down)
      PROVE  RegisteredIsStored'
  <2>1. services' = [services EXCEPT ![v] = None]
    BY <1>5 DEF RemoveService
  <2>2. \/ storedServices' = storedServices
        \/ storedServices' \in DeleteTree(storedServices, {v}, down)
    BY <1>5 DEF RemoveService, stored
  <2>3. \A w \in VsIDs : w # v => storedServices'[w] = storedServices[w]
    <3>1. storedServices \in [VsIDs -> FilledServices \cup {None}]
      BY DEF TypeOK
    <3>. QED
      BY <2>2, <3>1, DeleteTreeKeeps
  <2>. QED
    BY <2>1, <2>3 DEF RegisteredIsStored, Registered, TypeOK
<1>6. CASE BackendRemoveHandler
  BY <1>0, <1>6 DEF BackendRemoveHandler, RemoveBackend
<1>7. CASE UNCHANGED ctxVars
  BY <1>0, <1>7 DEF ctxVars, registry, stored
<1>. QED
  BY <1>1, <1>2, <1>3, <1>4, <1>5, <1>6, <1>7 DEF Operation, ServiceRemoveHandler

\* A registered service has its key in the external store: createService writes the key
\* before it registers, and removeService forgets the name before it deletes the key.
\* The keys of other names stay unless the store deletes by prefix.
THEOREM StoreCorrect ==
    ASSUME Extensions = {}
    PROVE  Spec => []RegisteredIsStored
<1>1. Init => RegisteredIsStored
  BY DEF Init, RegisteredIsStored, Registered
<1>. QED
  BY <1>1, StoredInductive, HandlersOperate, TypeCorrect, PTL DEF Spec

-----------------------------------------------------------------------------
(* Addresses *)

\* GORB takes off the interface only what it put there.
OwnAddrs ==
    \A v \in Registered :
        services[v].delIfAddr => ServiceHost(services[v].opts) \notin ForeignAddrs

LEMMA CreateServiceAddrs ==
    ASSUME TypeOK, ForeignAddrsKept, OwnAddrs,
           NEW v \in VsIDs, NEW o \in ServiceInputs,
           NEW p, NEW down, CreateService(v, o, p, down)
    PROVE  ForeignAddrsKept' /\ OwnAddrs'
<1>. DEFINE new == [ptr |-> p, opts |-> FillService(o),
                    delIfAddr |-> AddrAddOK(ServiceHost(o), down)]
<1>1. ForeignAddrsKept'
  BY DEF CreateService, ForeignAddrsKept
<1>2. new.delIfAddr => ServiceHost(new.opts) \notin ForeignAddrs
  BY ServiceFill DEF CreateService, AddrAddOK, ForeignAddrsKept
<1>3. services' = services \/ services' = [services EXCEPT ![v] = new]
  BY DEF CreateService
<1>. HIDE DEF new
<1>. QED
  BY <1>1, <1>2, <1>3 DEF OwnAddrs, Registered, TypeOK

\* An address the interface had before GORB added VIPs to it is never taken off it,
\* however services are created, patched and removed: what delIfAddr is for.
THEOREM AddrsCorrect == Spec => []ForeignAddrsKept
<1>1. Init => ForeignAddrsKept /\ OwnAddrs
  BY DEF Init, ForeignAddrsKept, OwnAddrs, Registered
<1>2. TypeOK /\ ForeignAddrsKept /\ OwnAddrs /\ [Operation]_ctxVars
         => ForeignAddrsKept' /\ OwnAddrs'
  <2>. SUFFICES ASSUME TypeOK, ForeignAddrsKept, OwnAddrs, [Operation]_ctxVars
                PROVE  ForeignAddrsKept' /\ OwnAddrs'
    OBVIOUS
  <2>0. ASSUME services' = services, addrs' = addrs
        PROVE  ForeignAddrsKept' /\ OwnAddrs'
    BY <2>0 DEF ForeignAddrsKept, OwnAddrs, Registered
  <2>1. CASE AnyCreateService
    BY <2>1, CreateServiceAddrs DEF AnyCreateService
  <2>2. ASSUME NEW v \in VsIDs, NEW o \in ServicePatches, NEW p, NEW down,
               UpdateService(v, o, p, down)
        PROVE  ForeignAddrsKept' /\ OwnAddrs'
    <3>. DEFINE new == [ptr |-> p, opts |-> FillService(o), delIfAddr |-> FALSE]
    <3>1. CASE CreateService(v, o, p, down)
      BY <3>1, CreateServiceAddrs DEF ServiceInputs
    <3>2. CASE ~CreateService(v, o, p, down)
      <4>1. /\ addrs' = addrs
            /\ services' = services \/ services' = [services EXCEPT ![v] = new]
        BY <2>2, <3>2 DEF UpdateService
      <4>2. new.delIfAddr = FALSE
        OBVIOUS
      <4>. HIDE DEF new
      <4>. QED
        BY <4>1, <4>2 DEF ForeignAddrsKept, OwnAddrs, Registered, TypeOK
    <3>. QED
      BY <3>1, <3>2
  <2>3. CASE AnyCreateBackend
    BY <2>0, <2>3 DEF AnyCreateBackend, CreateBackend
  <2>4. CASE AnyUpdateBackend
    BY <2>0, <2>4 DEF AnyUpdateBackend, UpdateBackend
  <2>5. ASSUME NEW v \in VsIDs, NEW down, RemoveService(v, down)
        PROVE  ForeignAddrsKept' /\ OwnAddrs'
    <3>1. v \in Registered /\ services' = [services EXCEPT ![v] = None]
      BY <2>5 DEF RemoveService, Registered
    <3>2. ForeignAddrsKept'
      BY <2>5, <3>1 DEF RemoveService, RemovesAddr, ForeignAddrsKept, OwnAddrs
    <3>. QED
      BY <3>1, <3>2 DEF OwnAddrs, Registered, TypeOK
  <2>6. CASE BackendRemoveHandler
    BY <2>0, <2>6 DEF BackendRemoveHandler, RemoveBackend
  <2>7. CASE UNCHANGED ctxVars
    BY <2>0, <2>7 DEF ctxVars, registry
  <2>. QED
    BY <2>1, <2>2, <2>3, <2>4, <2>5, <2>6, <2>7
    DEF Operation, ServiceUpdateHandler, ServiceRemoveHandler
<1>. QED
  BY <1>1, <1>2, HandlersOperate, TypeCorrect, PTL DEF Spec

-----------------------------------------------------------------------------
(* What needs a system not to refuse calls *)

\* If the discovery agent answers, a registered service is in its catalog at its
\* address: Expose follows every registration, and a failed operation exposes nothing.
THEOREM CatalogCorrect ==
    ASSUME "disco" \notin MayFail
    PROVE  Spec => []RegisteredIsExposed
<1>1. Init => RegisteredIsExposed
  BY DEF Init, RegisteredIsExposed, Registered
<1>2. TypeOK /\ RegisteredIsExposed /\ [Operation]_ctxVars => RegisteredIsExposed'
  <2>. SUFFICES ASSUME TypeOK, RegisteredIsExposed, [Operation]_ctxVars
                PROVE  RegisteredIsExposed'
    OBVIOUS
  <2>0. ASSUME services' = services, catalog' = catalog PROVE RegisteredIsExposed'
    BY <2>0 DEF RegisteredIsExposed, Registered
  <2>1. ASSUME NEW v \in VsIDs, NEW new, services' = [services EXCEPT ![v] = new],
               catalog' = [catalog EXCEPT ![v] = Exposure(new.opts)]
        PROVE  RegisteredIsExposed'
    BY <2>1 DEF RegisteredIsExposed, Registered, TypeOK
  <2>2. \A v, o, down : down \in Outages =>
           Expose(v, o, down) = [catalog EXCEPT ![v] = Exposure(o)]
    BY DEF Outages, Expose
  <2>3. ASSUME NEW v \in VsIDs, NEW o, NEW p, NEW down \in Outages,
               CreateService(v, o, p, down)
        PROVE  RegisteredIsExposed'
    <3>. DEFINE new == [ptr |-> p, opts |-> FillService(o),
                        delIfAddr |-> AddrAddOK(ServiceHost(o), down)]
    <3>1. CASE UNCHANGED <<services, catalog>>
      BY <2>0, <3>1
    <3>2. CASE ~UNCHANGED <<services, catalog>>
      <4>1. /\ services' = [services EXCEPT ![v] = new]
            /\ catalog' = Expose(v, FillService(o), down)
        BY <2>3, <3>2 DEF CreateService
      <4>2. new.opts = FillService(o)
        OBVIOUS
      <4>. HIDE DEF new
      <4>. QED
        BY <2>1, <2>2, <4>1, <4>2
    <3>. QED
      BY <3>1, <3>2
  <2>4. ASSUME NEW v \in VsIDs, NEW o, NEW p, NEW down \in Outages,
               UpdateService(v, o, p, down), ~CreateService(v, o, p, down)
        PROVE  RegisteredIsExposed'
    <3>. DEFINE new == [ptr |-> p, opts |-> FillService(o), delIfAddr |-> FALSE]
    <3>1. CASE UNCHANGED <<services, catalog>>
      BY <2>0, <3>1
    <3>2. CASE ~UNCHANGED <<services, catalog>>
      <4>1. /\ services' = [services EXCEPT ![v] = new]
            /\ catalog' = Expose(v, FillService(o), down)
        BY <2>4, <3>2 DEF UpdateService
      <4>2. new.opts = FillService(o)
        OBVIOUS
      <4>. HIDE DEF new
      <4>. QED
        BY <2>1, <2>2, <4>1, <4>2
    <3>. QED
      BY <3>1, <3>2
  <2>5. ASSUME NEW v \in VsIDs, NEW down, RemoveService(v, down)
        PROVE  RegisteredIsExposed'
    <3>1. services' = [services EXCEPT ![v] = None]
      BY <2>5 DEF RemoveService
    <3>2. \A w \in VsIDs : w # v => catalog'[w] = catalog[w]
      BY <2>5 DEF RemoveService, TypeOK
    <3>. QED
      BY <3>1, <3>2 DEF RegisteredIsExposed, Registered, TypeOK
  <2>6. CASE AnyCreateBackend
    BY <2>0, <2>6 DEF AnyCreateBackend, CreateBackend
  <2>7. CASE AnyUpdateBackend
    BY <2>0, <2>7 DEF AnyUpdateBackend, UpdateBackend
  <2>8. CASE BackendRemoveHandler
    BY <2>0, <2>8 DEF BackendRemoveHandler, RemoveBackend
  <2>9. CASE UNCHANGED ctxVars
    BY <2>0, <2>9 DEF ctxVars, registry
  <2>. QED
    BY <2>3, <2>4, <2>5, <2>6, <2>7, <2>8, <2>9
    DEF Operation, AnyCreateService, ServiceUpdateHandler, ServiceRemoveHandler
<1>. QED
  BY <1>1, <1>2, HandlersOperate, TypeCorrect, PTL DEF Spec

\* If the kernel does not refuse, every virtual service in it has a name in
\* ctx.services: removeService, which forgets the name first, always gets to the
\* deletion, because RegisteredInKernel says there is something to delete.
THEOREM KernelIsOwned ==
    ASSUME "ipvs" \notin MayFail
    PROVE  Spec => []KernelOwned
<1>1. Init => KernelOwned
  BY DEF Init, KernelOwned
<1>2. TypeOK /\ RegisteredInKernel /\ KernelOwned /\ [Operation]_ctxVars => KernelOwned'
  <2>. SUFFICES ASSUME TypeOK, RegisteredInKernel, KernelOwned, [Operation]_ctxVars
                PROVE  KernelOwned'
    OBVIOUS
  <2>0. ASSUME services' = services, virtuals' = virtuals PROVE KernelOwned'
    BY <2>0 DEF KernelOwned, Registered
  <2>1. ASSUME NEW v \in VsIDs, NEW new, NEW sched, new # None,
               services[v] # None => SvcKey(services[v].opts) = SvcKey(new.opts),
               services' = [services EXCEPT ![v] = new],
               virtuals' = [virtuals EXCEPT ![SvcKey(new.opts)] = sched]
        PROVE  KernelOwned'
    <3>1. v \in Registered' /\ services'[v] = new
      BY <2>1 DEF Registered, TypeOK
    <3>2. \A w \in Registered : w # v => w \in Registered' /\ services'[w] = services[w]
      BY <2>1 DEF Registered, TypeOK
    <3>3. \A k \in Keys : k # SvcKey(new.opts) => virtuals'[k] = virtuals[k]
      BY <2>1 DEF TypeOK
    <3>. QED
      BY <2>1, <3>1, <3>2, <3>3 DEF KernelOwned, Registered
  <2>2. ASSUME NEW v \in VsIDs, NEW o \in ServiceInputs,
               NEW p \in SvcPtrs, NEW down, CreateService(v, o, p, down)
        PROVE  KernelOwned'
    <3>. DEFINE new == [ptr |-> p, opts |-> FillService(o),
                        delIfAddr |-> AddrAddOK(ServiceHost(o), down)]
    <3>1. CASE UNCHANGED <<services, virtuals>>
      BY <2>0, <3>1
    <3>2. CASE ~UNCHANGED <<services, virtuals>>
      <4>1. /\ services' = [services EXCEPT ![v] = new]
            /\ virtuals' = [virtuals EXCEPT ![SvcKey(FillService(o))] = Sched(FillService(o))]
            /\ services[v] = None
        BY <2>2, <3>2 DEF CreateService, NameFree
      <4>2. new \in Service
        <5>1. AddrAddOK(ServiceHost(o), down) \in BOOLEAN
          BY DEF AddrAddOK
        <5>. QED
          BY <2>2, <5>1, ServiceFill DEF CreateService, Service
      <4>3. new.opts = FillService(o) /\ new # None
        BY <4>2, NoneAssumption
      <4>. HIDE DEF new
      <4>. QED
        BY <2>1, <4>1, <4>3
    <3>. QED
      BY <3>1, <3>2
  <2>3. ASSUME NEW v \in VsIDs, NEW o \in ServiceInputs,
               NEW p \in SvcPtrs, NEW down,
               UpdateService(v, o, p, down), ~CreateService(v, o, p, down)
        PROVE  KernelOwned'
    <3>. DEFINE new == [ptr |-> p, opts |-> FillService(o), delIfAddr |-> FALSE]
    <3>1. CASE UNCHANGED <<services, virtuals>>
      BY <2>0, <3>1
    <3>2. CASE ~UNCHANGED <<services, virtuals>>
      <4>1. /\ services' = [services EXCEPT ![v] = new]
            /\ virtuals' = [virtuals EXCEPT ![SvcKey(FillService(o))] = Sched(FillService(o))]
            /\ SvcKey(services[v].opts) = SvcKey(FillService(o))
        BY <2>3, <3>2 DEF UpdateService, SameEndpoint
      <4>2. new \in Service
        BY <2>3, ServiceFill DEF UpdateService, Service
      <4>3. new.opts = FillService(o) /\ new # None
        BY <4>2, NoneAssumption
      <4>. HIDE DEF new
      <4>. QED
        BY <2>1, <4>1, <4>3
    <3>. QED
      BY <3>1, <3>2
  <2>4. ASSUME NEW v \in VsIDs, NEW down \in Outages, RemoveService(v, down)
        PROVE  KernelOwned'
    <3>. DEFINE key == SvcKey(services[v].opts)
    <3>1. v \in Registered /\ services' = [services EXCEPT ![v] = None]
      BY <2>4 DEF RemoveService, Registered
    <3>2. DelServiceOK(services[v].opts, down)
      BY <3>1, RegisteredType DEF DelServiceOK, RegisteredInKernel, Outages
    <3>3. virtuals' = [virtuals EXCEPT ![key] = None]
      BY <2>4, <3>2 DEF RemoveService
    <3>4. \A w \in Registered : w # v => w \in Registered' /\ services'[w] = services[w]
      BY <3>1 DEF Registered, TypeOK
    <3>. QED
      BY <3>3, <3>4 DEF KernelOwned, TypeOK
  <2>5. CASE AnyCreateBackend
    BY <2>0, <2>5 DEF AnyCreateBackend, CreateBackend
  <2>6. CASE AnyUpdateBackend
    BY <2>0, <2>6 DEF AnyUpdateBackend, UpdateBackend
  <2>7. CASE BackendRemoveHandler
    BY <2>0, <2>7 DEF BackendRemoveHandler, RemoveBackend
  <2>8. CASE UNCHANGED ctxVars
    BY <2>0, <2>8 DEF ctxVars, registry, kernel
  <2>. QED
    BY <2>2, <2>3, <2>4, <2>5, <2>6, <2>7, <2>8
    DEF Operation, AnyCreateService, ServiceUpdateHandler, ServiceRemoveHandler, FreePtrs,
        ServiceInputs
<1>. QED
  BY <1>1, <1>2, HandlersOperate, TypeCorrect, KernelAgrees, PTL DEF Spec
=============================================================================
