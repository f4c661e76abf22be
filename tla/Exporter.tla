------------------------------ MODULE Exporter ------------------------------
(***************************************************************************)
(* The Prometheus exporter next to the operations of Context: collect()    *)
(* holds ctx.mutex for reading and calls GetService and GetBackend, which  *)
(* take it for reading again.                                              *)
(*                                                                         *)
(* ctx.mutex is a sync.RWMutex: a writer that waits keeps new readers out, *)
(* and a writer that unlocks lets in all readers that wait.                *)
(***************************************************************************)
EXTENDS Context

CONSTANTS
    Scrapes,    \* goroutines that serve GET /metrics
    Writers     \* goroutines that run operations of Context

VARIABLES
    pc,             \* of each scrape: where its collect is
    ranged,         \* the services it has still to look up
    at, listed,     \* the service it is at, and which backends of it are left
    serviceGauges, backendGauges,   \* the labels this collect has set gauges for
    held,           \* how many read locks each scrape holds
    queued,         \* scrapes blocked in RLock
    pending         \* the writer that called Lock, ahead of new readers, or None

cursor == <<ranged, at, listed, serviceGauges, backendGauges>>
mutex  == <<held, queued, pending>>
exporterVars == <<ctxVars, pc, cursor, mutex>>

ExporterTypeOK ==
    /\ pc \in [Scrapes -> {"idle", "lock", "range", "service", "backend"}]
    /\ ranged \in [Scrapes -> SUBSET VsIDs]
    /\ at \in [Scrapes -> VsIDs \cup {None}]
    /\ listed \in [Scrapes -> SUBSET RsIDs]
    /\ serviceGauges \in [Scrapes -> SUBSET VsIDs]
    /\ backendGauges \in [Scrapes -> SUBSET (VsIDs \X RsIDs)]
    /\ held \in [Scrapes -> 0 .. 2]
    /\ queued \subseteq Scrapes
    /\ pending \in Writers \cup {None}

-----------------------------------------------------------------------------
(* sync.RWMutex *)

RLock(s) ==
    /\ IF pending = None THEN held' = [held EXCEPT ![s] = @ + 1] /\ UNCHANGED queued
                         ELSE queued' = queued \cup {s} /\ UNCHANGED held
    /\ UNCHANGED pending

RUnlock(s) ==
    /\ held' = [held EXCEPT ![s] = @ - 1]
    /\ UNCHANGED <<queued, pending>>

\* Lock announces the writer. It returns once no reader is left.
Lock(w) ==
    /\ pending = None
    /\ pending' = w
    /\ UNCHANGED <<ctxVars, pc, cursor, held, queued>>

Locked(w) == pending = w /\ \A s \in Scrapes : held[s] = 0

Unlock(w) ==
    /\ pending' = None
    /\ held' = [s \in Scrapes |-> IF s \in queued THEN held[s] + 1 ELSE held[s]]
    /\ queued' = {}

-----------------------------------------------------------------------------
(* The operations of Context *)

\* mutant of Operate: the operation does not wait for readers
OperateUnlocked(w) ==
    /\ pending = w
    /\ Next \/ UNCHANGED ctxVars
    /\ Unlock(w)
    /\ UNCHANGED <<pc, cursor>>

\* An operation, or an early return that changes nothing.
Operate(w) ==
    /\ Locked(w)
    /\ Next \/ UNCHANGED ctxVars
    /\ Unlock(w)
    /\ UNCHANGED <<pc, cursor>>

-----------------------------------------------------------------------------
(* Exporter.collect *)

Collect(s) ==
    /\ pc[s] = "idle"
    /\ pc' = [pc EXCEPT ![s] = "lock"]
    /\ RLock(s)
    /\ UNCHANGED <<ctxVars, cursor>>

\* The outer lock is held: range over ctx.services.
Range(s) ==
    /\ pc[s] = "lock" /\ s \notin queued
    /\ pc' = [pc EXCEPT ![s] = "range"]
    /\ ranged' = [ranged EXCEPT ![s] = Registered]
    /\ UNCHANGED <<ctxVars, at, listed, serviceGauges, backendGauges, mutex>>

\* GetBackend of a backend that GetService listed, if any is left, else GetService of
\* the next service: either begins with RLock.
Get(s) ==
    /\ pc[s] = "range"
    /\ \/ listed[s] # {} /\ pc' = [pc EXCEPT ![s] = "backend"]
       \/ listed[s] = {} /\ ranged[s] # {} /\ pc' = [pc EXCEPT ![s] = "service"]
    /\ RLock(s)
    /\ UNCHANGED <<ctxVars, cursor>>

AnyListing(v) == Backends    \* mutant of Listing: the comparison of structs is dropped

\* What GetService lists: the backends that point to the struct the name stands for.
Listing(v) == BackendsOf(services[v])

\* The nested lock is held: the service is looked up and its backends are listed, then
\* its gauges are set. A name that is missing is an error and ends collect.
GetService(s) ==
    \E v \in ranged[s] :
        /\ pc[s] = "service" /\ s \notin queued
        /\ pc' = [pc EXCEPT ![s] = "range"]
        /\ \/ /\ services[v] # None
              /\ ranged' = [ranged EXCEPT ![s] = @ \ {v}]
              /\ at' = [at EXCEPT ![s] = v]
              /\ listed' = [listed EXCEPT ![s] = Listing(v)]
              /\ serviceGauges' = [serviceGauges EXCEPT ![s] = @ \cup {v}]
           \/ /\ services[v] = None
              /\ ranged' = [ranged EXCEPT ![s] = {}]
              /\ UNCHANGED <<at, listed, serviceGauges>>
        /\ RUnlock(s)
        /\ UNCHANGED <<ctxVars, backendGauges>>

\* The same for a backend of that service.
GetBackend(s) ==
    \E r \in listed[s] :
        /\ pc[s] = "backend" /\ s \notin queued
        /\ pc' = [pc EXCEPT ![s] = "range"]
        /\ \/ /\ backends[r] # None
              /\ listed' = [listed EXCEPT ![s] = @ \ {r}]
              /\ backendGauges' = [backendGauges EXCEPT ![s] = @ \cup {<<at[s], r>>}]
              /\ UNCHANGED ranged
           \/ /\ backends[r] = None
              /\ listed' = [listed EXCEPT ![s] = {}]
              /\ ranged' = [ranged EXCEPT ![s] = {}]
              /\ UNCHANGED backendGauges
        /\ RUnlock(s)
        /\ UNCHANGED <<ctxVars, at, serviceGauges>>

\* mutant of Return: the deferred RUnlock is missing
ReturnLocked(s) ==
    /\ pc[s] = "range" /\ ranged[s] = {} /\ listed[s] = {}
    /\ pc' = [pc EXCEPT ![s] = "idle"]
    /\ at' = [at EXCEPT ![s] = None]
    /\ serviceGauges' = [serviceGauges EXCEPT ![s] = {}]
    /\ backendGauges' = [backendGauges EXCEPT ![s] = {}]
    /\ UNCHANGED <<ctxVars, ranged, listed, mutex>>

\* collect returns, and unlocks.
Return(s) ==
    /\ pc[s] = "range" /\ ranged[s] = {} /\ listed[s] = {}
    /\ pc' = [pc EXCEPT ![s] = "idle"]
    /\ at' = [at EXCEPT ![s] = None]
    /\ serviceGauges' = [serviceGauges EXCEPT ![s] = {}]
    /\ backendGauges' = [backendGauges EXCEPT ![s] = {}]
    /\ RUnlock(s)
    /\ UNCHANGED <<ctxVars, ranged, listed>>

ExporterInit ==
    /\ Init
    /\ pc = [s \in Scrapes |-> "idle"]
    /\ ranged = [s \in Scrapes |-> {}]
    /\ at = [s \in Scrapes |-> None]
    /\ listed = [s \in Scrapes |-> {}]
    /\ serviceGauges = [s \in Scrapes |-> {}]
    /\ backendGauges = [s \in Scrapes |-> {}]
    /\ held = [s \in Scrapes |-> 0]
    /\ queued = {}
    /\ pending = None

ExporterNext ==
    \/ \E w \in Writers : Lock(w) \/ Operate(w)
    \/ \E s \in Scrapes :
          Collect(s) \/ Range(s) \/ Get(s) \/ GetService(s) \/ GetBackend(s) \/ Return(s)

ExporterSpec == ExporterInit /\ [][ExporterNext]_exporterVars

\* A goroutine that can run does run; when requests come is up to the clients.
FairExporterSpec ==
    /\ ExporterSpec
    /\ \A w \in Writers : WF_exporterVars(Operate(w))
    /\ \A s \in Scrapes :
          WF_exporterVars(Range(s) \/ Get(s) \/ GetService(s) \/ GetBackend(s) \/ Return(s))

-----------------------------------------------------------------------------
(* Properties *)

\* What collect ranges over stays registered until it has looked it up, so that it
\* never reports "error getting service": no operation slips in between.
LookupsSucceed ==
    \A s \in Scrapes : pc[s] # "idle" =>
        ranged[s] \subseteq Registered /\ listed[s] \subseteq Backends

\* A scrape shows one state of the registry: when collect is through, it has set the
\* gauges of the services registered now, and of the backends that point to one of
\* their structs, under that service's name, and no others. A backend whose service
\* was PATCHed after it was created is not among them, though it is registered.
ScrapeComplete ==
    \A s \in Scrapes : pc[s] = "range" /\ ranged[s] = {} /\ listed[s] = {} =>
        /\ serviceGauges[s] = Registered
        /\ backendGauges[s] =
              UNION {{v} \X BackendsOf(services[v]) : v \in Registered}

\* A collect that is through has set the gauges of every registered backend. This
\* needs a kernel that does not refuse, and no PATCH: GetService does not list the
\* backends that point to a struct updateService has replaced.
NoneLeftOut ==
    \A s \in Scrapes : pc[s] = "range" /\ ranged[s] = {} /\ listed[s] = {} =>
        \A r \in Backends : \E v \in Registered : <<v, r>> \in backendGauges[s]

\* A collect that has begun returns.
CollectReturns == \A s \in Scrapes : (pc[s] = "lock") ~> (pc[s] = "idle")
=============================================================================
