# A TLA+ verification of GORB

GORB is a daemon that drives the Linux kernel's IPVS load balancer from a REST
API, checks the health of the backends and adjusts their weights. This directory
holds TLA+ models of it, TLC configurations that check them on small instances,
and TLAPS proofs. `PROJECT.json` maps every definition to the lines it models.

    tlc -config ctx_patch.cfg MCExporter    # any run of the table below
    tlapm ContextProofs.tla                 # any module of proofs: *Proofs.tla

## Inventory of the system

| Part | State | Operations | Module |
|---|---|---|---|
| Context (`core/context.go`) | `services`, `backends` under one RWMutex | create, update, remove of services and backends, `Synchronize`, `Close`, readers | `Context`; `Close` in `Runtime`, `Synchronize` in `Store`, readers in `Exporter` |
| Options (`core/options.go`, `pulse/options.go`, name tables of `ipvs-shim`) | none | `Fill`, `Validate`, `CompareStoreOptions` | `Options` |
| IPVS shim (`ipvs-shim`) and the kernel | virtual services and destinations | add, update, delete | part of `Context`, kernel external |
| VIP interface (netlink) | addresses | add, delete | part of `Context`, external |
| Discovery (`disco`) | Consul's catalog | `Expose`, `Remove` | part of `Context` |
| Store (`core/store.go`) | keys in consul, etcd, zookeeper or boltdb, shared by instances | `put`, `DeleteTree`, periodic `Sync` | writes in `Context`, `Sync` in `Store` |
| Pulse (`pulse`) | a goroutine, its record of results and a stop channel per backend | `Loop`, `Stop`, `Metrics.Update`, a `Check` per driver | `Runtime` |
| Notification loop (`core/runtime.go`) | the stash of weights to restore | `run`, `processPulseUpdate` | `Runtime` |
| REST handlers (`http.go`) | none | nine routes, six of which change state | disjuncts of `Next` in `Context`; status codes in `DockerLink` |
| Prometheus exporter (`core/prometheus_exporter.go`) | gauges | `collect` | `Exporter` |
| Docker link (`gorb-docker-link`) | cache of exposed services | existing containers, container started, container killed | `DockerLink` |
| Daemon start-up (`main.go`) | none | new Context, first Sync, serve | `StoreInit` and `Restart` of `Store` |

How they interact. Every operation of Context runs under `ctx.mutex` and calls, in
this order, the VIP interface, the store, the kernel, and discovery; an error of
the store or the kernel ends the operation where it is. Nothing is rolled back.
Creating a backend starts its Pulse goroutine. All goroutines send their results
over one unbuffered channel to the notification loop, which takes the mutex twice
per update: once to record the metrics, once (in `UpdateBackend`) to change the
weight. A Pulse is stopped by closing its channel and says good-bye with a
`Removed` update. With a store, a ticker lists its contents (services, then
backends) without the mutex, and `Synchronize` then applies the listing under it
with the same operations that serve clients, store writes included. The Docker
link is a process of its own: it talks to GORB over HTTP and to Docker over an
event stream.

What is hard to get right: operations that fail half-way; structs replaced while
others point to them; results that arrive after the backend they are about has
gone; a weight that is changed by clients and by the notification loop; nested
read locks; snapshots of the store that are stale when applied; restarts. The
list with lines and properties is under `hazards` in `PROJECT.json`.

What makes each part correct:

- Context: what is registered is in the kernel, the store and the catalog; the
  kernel balances only to registered backends; everything in the kernel can be
  named; a DELETE leaves nothing behind; foreign addresses stay.
- Runtime: no weight is lost; a failing backend is drained and gets its weight
  back; goroutines end; the stash does not leak.
- Exporter: a scrape shows one state of the registry, and returns.
- Store: instances converge to what the store holds, after restarts too; a Sync
  never undoes what was acknowledged, and never loses keys.
- Docker link: once it has caught up, GORB has the backends of the containers that
  run, or an error was logged.

## Modules

- `Options`: an options record is what the JSON body held. `FillService`,
  `FillBackend`, `FillPulse` are the normalised records, `ServiceValid` and
  `BackendValid` the conditions under which `Fill` (and `pulse.New`) return no
  error. Name resolution is the constant `Lookup`.
- `Context`: one action per operation (`CreateService`, `UpdateService`,
  `CreateBackend`, `UpdateBackend`, `RemoveService`, `RemoveBackend`), one
  disjunct of `Next` per REST handler. A service struct is a record with a tag
  `ptr`, its address, because the code compares pointers: PATCH makes a new
  struct. `virtuals` and `dests` are the kernel tables, `addrs` the interface,
  `catalog` discovery, `storedServices` and `storedBackends` the store, `stopped`
  the pulses whose channel is closed. The parameter `down` of an operation is the
  set of systems that refuse its calls for reasons of their own; the kernel also
  refuses what exists already or does not exist. Early returns that change
  nothing are stuttering steps. Closing a closed channel panics; net/http
  recovers, so the operation ends there with its deferred unlock, and
  `RemoveService` and `RemoveBackend` model this.
- `Runtime` extends `Context` with `loop` (the goroutines), `runner` and `stash`
  (the notification loop), `metrics`, and `closed`. Sending on `pulseCh` is one
  step of two processes (`Deliver`). `Examine` is the section under the mutex,
  `Reweigh` what follows it; handlers run in between. Health is a pair of counts,
  and `RelativeWeight` the truncated product, one less where floating point may
  fall short of a whole number. `asked` is a history variable: the weight clients
  last asked for. A goroutine knows its driver; `get` is the table of drivers, each of which says
  Up or Down to no answer, an unexpected one or the expected one.
- `Exporter` extends `Context` with scrapes and Go's `sync.RWMutex`. `collect` ranges
  over the services (`ranged`), looks one up under a second read lock, and then each
  backend that `GetService` listed (`listed`), which are those that point to the struct
  the name stands for: a backend whose service was PATCHed after it was created is not
  visited. `serviceGauges` and `backendGauges` are the labels the collect under way has
  set; values are left out. A writer runs an operation of `Context` once it has the
  mutex. If a lookup fails, collect ends; `LookupsSucceed` says that none does.
- `LoadBalancer`: the abstract specification, what the REST API promises. Names stand
  for addresses in the kernel, a request is carried out as a whole or not at all.
  `Context!Implements` is the refinement: the kernel tables are themselves, the
  address of a name is the key of its registered options, that of a backend the key
  of the service struct it points to with its own host and port.
- `Store` extends `Context` with `sync` (where `Store.Sync` is, its two listings, the
  names the current loop of `Synchronize` has still to visit), `visiting` (the name it
  has removed and creates anew next, before it comes to another) and `serving` (whether
  `main` has come to `ListenAndServe`). A listing is one step, taking the mutex
  another; under the mutex each operation of `Context` is a step, so that peers write
  and the daemon crashes in between. Handlers wait for the mutex. `Restart` empties
  the registry, and the kernel with `-f`. A panic, harmless in a handler, ends the
  process here. `dirty` is a history variable: the keys that clients or peers wrote
  since the Sync under way listed them. `Extensions` (in `Context`) are the pairs of
  names of which one is a prefix of the other, where the store deletes trees by
  prefix, as some libkv backends do.
- `DockerLink` extends `LoadBalancer`, the server it talks to: each request is one step
  of it, and other clients' requests come in between. Docker, which is external,
  starts, signals, kills and ends containers at any time and appends to `events`;
  the link inspects a container when it gets to its event, as the code does. Requests
  and answers may be lost, and the link may be started again. `astray` is a history
  variable: the names for which the link met an error, which it logs, or was told
  nothing, too late or wrongly. A name leaves it when the last binding of that name is
  dealt with and GORB has what it should: a port that is published on two addresses
  has one name, so that one of its two bindings always meets an error.
- `MCContext`, `MCExporter`, `MCRuntime`, `MCStore`, `MCDockerLink`: values for TLC.
- Theorems: `ContextProofs`, `ReliableProofs` (what holds of `Context` where the kernel
  is reliable), `RuntimeProofs`, `ExporterProofs`, `StoreProofs`, `DockerLinkProofs`.

Operators whose comment begins with "mutant of" are not part of the model: each is
a definition with a plausible bug put in, which some property must catch.

## Runs

| Run | Checks | Bounds | Shows |
|---|---|---|---|
| `ctx_patch` | `TypeOK`, `RegisteredInKernel`, `WeightsAccounted`, `ForeignAddrsKept`, `RegisteredIsExposed`, `ExporterTypeOK`, `LookupsSucceed`, `ScrapeComplete` | 2 names each, 2 addresses of which one is foreign; kernel and interface may refuse; 1 scrape, 1 writer | registry, kernel and catalog agree through refusals and PATCHes; `delIfAddr` protects foreign addresses; a scrape shows one state, with the backends that point to a registered struct |
| `ctx_reliable` | `KernelOwned`, `BackendsInKernel`, `PulsesAlive`, `NoneLeftOut`, `DeleteIsComplete`, `Implements` | 2 names each, 2 scrapes, 1 writer; the kernel refuses nothing, discovery may, no PATCH of services, no store | the guarantees clients expect, under the conditions they need: `Context` implements `LoadBalancer`, a scrape shows every backend |
| `rt_live` | `WeightRemembered`, `DownIsReduced`, `EventuallyRestored`, `StoppedPulseReturns` | 2 backends (one checked over TCP, one not at all), record of 2, patient clients | failing and recovering loses no weight, weights come back, goroutines end |
| `rt_race` | `RuntimeTypeOK`, `StashReclaimed`, `MonitorRuns` | 1 backend, 2 pulses, record of 1, everything else allowed | no leak of stash entries or goroutines |
| `store_sync` | `PulsesAlive`, `OnlyStaleUndone`, `SyncKeepsStore`, `EventuallyConverged` | 2 services on one address, 2 schedulers, 1 backend; peers, clients, crashes; nothing refused | a Sync undoes only what was written meanwhile, loses no key, and registry and kernel come to what the store says |
| `store_faults` | `StoreTypeOK`, `RegisteredInKernel`, `RegisteredIsStored` | 2 services on one address, a backend with 2 forwarding methods; kernel and store may refuse, crashes | registry, kernel and store stay consistent when Syncs fail half-way |
| `docker_link` | `LinkTypeOK`, `QuietInStep`, `RemovedThenRestored` | 2 containers of an image, 2 public ports of which one is published on 2 addresses, 2 events waiting; lost answers, other clients with a service of their own, restarts | every difference between Docker and GORB is one the link logged or was not told of |

Two names of each kind are enough for every conflict the code can have (two names
on one kernel service, one name used twice, two services on one address); two
pulses are enough for a backend and its predecessor; three service structs for two
registered ones and one that only backends point to. The record of results is 100
long in the code: its limit matters in that failures fall out of it, which a
record of one or two shows. `rt_live` assumes `PatientClients`: a name is used again
only when the removed backend's last update has been dealt with. `viol_recreate`
shows why. In `store_sync` the two service names always collide in the kernel, so
that what a Sync can register depends on the order it goes in; one backend may belong
to either. Without PATCHes two struct addresses are enough for two names. `MaxEvents`
= 2 holds a kill and the start that follows it, which is the case where late
inspection matters; more events delay it only (the theorems hold for any number). A
port may be published by either container, and a container may come back with another
one; both are backends of one service, whose address another client may have taken.

Runs that end in a violation show where the code departs from its own
documentation; `findings` in `PROJECT.json` quotes it.

| Run | Property | What happens |
|---|---|---|
| `viol_patch_delete` | `DeleteIsComplete` | backends created before a PATCH survive the DELETE of their service |
| `viol_recreate` | `EventuallyRestored` | late updates of a removed backend hit its successor |
| `viol_refail` | `DownIsDrained` | a backend that fails again while it recovers keeps the part of its weight it got back |
| `viol_scrape` | `CollectReturns` | nested read locks deadlock with a waiting writer |
| `viol_stale_sync` | `SyncFollowsStore` | a service created while Sync lists the store is removed, from the store too |

The conditions of the passing runs point to further departures, which TLC shows as
soon as the condition is lifted in the cfg:

- `ctx_reliable` with `"ipvs"` in `MayFail`: `KernelOwned` fails, because
  `removeService` deletes the name before it asks the kernel; `PulsesAlive` fails,
  because `removeBackend` stops the pulse first.
- `ctx_reliable` with a PATCH in `ServicePatches`: `Implements` fails as
  `viol_patch_delete` does, and so does `NoneLeftOut`: the older backends of a service
  that is PATCHed have no gauges, and `service_backends` ("Number of backends in the load
  balancer service") does not count them. `ScrapeComplete` of `ctx_patch` says which
  backends have gauges then: those that `GetService` lists.
- `ctx_reliable` with a store and `Extensions` the set of the pair `<<"v1", "v2">>`:
  `RegisteredIsStored` fails, because deleting `services/v1` by prefix deletes
  `services/v2` too. (Not with the requests of `store_faults`, of whose two names the
  kernel takes one at a time.)
- `store_sync` with `Flush = FALSE`: `EventuallyConverged` fails, because after a
  restart the kernel refuses the services it still has, and nothing adopts them.
- `store_sync` with `"ipvs"` in `MayFail`: `PulsesAlive` fails as in `ctx_reliable`.
  `SyncKeepsStore` still holds, because `createService` writes the key before it asks
  the kernel. Without its exception for backends that nothing can attach (`Attachable`:
  no service, or one of another address family) it fails, in `store_sync` as it is: a
  service that is created after services were listed and before backends are, together
  with a backend, is removed with the backend's key, and the backend, which is in the
  listing, has no service to be created for.
- `rt_live` with a weight in `WeightPatches`: `EventuallyRestored` fails, because
  recovery overwrites a weight PATCHed while the backend was Down.
- `rt_live` with `MayClose`: `StoppedPulseReturns` fails, because the `Removed`
  update has no receiver once the notification loop has returned. This concerns
  `Context.Close` as an operation of the package: the daemon's own deferred Close is
  never reached, because `main` ends in `log.Fatal`.

Two more departures are not stated as properties. A VIP that GORB added goes with the
service that added it, though others use it, and stays for ever once that service is
PATCHed. And the option `expect` of an HTTP check, given as a number as in
`src/README.md:58`, panics in `pulse/http.go:68`; arguments of drivers are not modelled.

Deadlock is checked everywhere but in the runs with scrapes, `ctx_patch`, `ctx_reliable`
and `viol_scrape`, where the system really can stop, which is what `viol_scrape` is
about. The theorem `ScrapesOnlyRead` says that these runs show behaviours of `Context`.

## Fairness

`FairSpec` of `Runtime`: a timer fires and a goroutine that can run does (weak
fairness of `Check`, `ConsumerStopped`, `Examine`, `Reweigh`). Strong fairness of
`Deliver`, `StopSeen` and `RunnerReturns`: Go queues senders on a channel in FIFO
order, and a select chooses at random among the cases that are ready. Clients are
never obliged to act, and checks may fail for ever unless the property says
otherwise. That a check ends is the 5 s timeout of both drivers. `FairExporterSpec`:
writers and scrapes that can go on do. `FairStoreSpec` of `Store`: weak fairness of
`SyncStep`, because the ticker of `NewStore` fires for ever and the mutex is free again
and again; clients, peers and crashes are not obliged to stop, `EventuallyConverged`
speaks of the behaviours in which they do. `DockerLink` has safety properties only: its
HTTP client has no timeout, so nothing obliges a request to end.

## Proofs

`ContextProofs` proves, for all sets of names, requests and addresses and any
subset of systems that may fail:

- `TypeCorrect`: `Spec => []TypeOK`. One lemma per operation, resting on lemmas
  about `Fill`, `Put`, `DeleteTree` and `Expose`.
- `KernelAgrees`: `RegisteredInKernel`, inductive relative to `TypeOK`: a create
  succeeds only on a key the kernel does not have, hence on one no name has; an
  update keeps the key; a removal frees a key only its own name has.
- `WeightsCorrect`: `WeightsAccounted`. Not inductive: `removeService` compares
  struct addresses, and must not drop a backend whose destination it leaves in the
  kernel. `PtrsConsistent` says that equal addresses mean the same struct, and is
  proved invariant from the freshness of new structs.
- `StoreCorrect`: `RegisteredIsStored`, from what `Put` and `DeleteTree` keep, if
  `Extensions` is empty. No one else writes the store in `Context`.
- `AddrsCorrect`: `ForeignAddrsKept`, strengthened by `OwnAddrs`: `delIfAddr` is
  set only for addresses that were not on the interface.
- `CatalogCorrect`: `RegisteredIsExposed`, if discovery does not fail.
- `KernelIsOwned`: `KernelOwned`, if the kernel does not refuse, PATCHes included.

`ReliableProofs` assumes `Reliable`: the kernel refuses no call for reasons of its own,
and services are not patched. These are the conditions of `ctx_reliable`, and the list
above says what fails without them; discovery, the store and the interface may fail.

- `BackendsAgree` and `PulsesStayAlive`: `BackendsInKernel` and `PulsesAlive`, neither
  inductive by itself. `ReliableInv` adds that the struct a backend points to is
  registered (`BackendsServed`, without which removing a service leaves backends whose
  destinations the kernel dropped) and that no two backends share a pulse
  (`MonitorsDistinct`, without which stopping one stops another).
- `DeleteComplete`: the action property `DeleteIsComplete`.
- `ContextImplements`: `Spec => Implements`, the refinement of `LoadBalancer`. One lemma
  per operation: it is the abstract request of the same name, or leaves registry and
  kernel as they are. The deletion of a service needs `ReliableInv`: the kernel drops
  the destinations of the address, the registry those backends that point to the
  struct, and only the invariant says that these are the same.

`RuntimeProofs` is about `RuntimeSpec`. A step of a handler is a step of `Context`, the
notification loop's change of a weight is an `UpdateBackend`; `Operation` (in
`ContextProofs`) is what they have in common, so that the lemmas about `Context` serve
for `Runtime` and `Store` as well.

- `RuntimeTypes`, `MonitorsRun`, `StashBounded` hold whatever fails and however names are
  used again. `RuntimeInv` adds that a goroutine that sends has a result to send, that
  the notification loop has an update in hand exactly between its select and the end of
  `processPulseUpdate`, and `SenderRuns`: the goroutine of that update still runs, since
  on an unbuffered channel its last update waits. That is why the stash is cleared.
- `RuntimeKernelAgrees`: `RegisteredInKernel` and `WeightsAccounted` with the
  notification loop at work.
- `WeightsRemembered` and `DownReduced` assume `Patient`: `Reliable`, no PATCH of a
  weight, and `PatientClients`, as `rt_live` does. `PatientPart` adds `OneLoop` (one
  goroutine per name, which is what impatient clients break), `Farewell` (the last
  update finds its backend gone), `MetricsCurrent` (what the loop acts on after it let go
  of the mutex is still what it recorded), `DownKept` and `AskedPositive` (no client asks
  for weight zero, since `Fill` replaces it, so that a stashed weight is one that can be
  reduced).

`ExporterProofs` is about `ExporterSpec`, for any number of scrapes and writers.

- `ScrapesOnlyRead`: `ExporterSpec => Spec`, so that what is proved of `Context` holds next
  to scrapes.
- `ExporterTypes`, `CollectFinds`, `CollectComplete` (`ScrapeComplete`). `LocksBalanced` ties where a scrape is
  to the locks it holds or is queued for; `AtRest` says that an idle scrape has nothing
  left to look up; `ServicesShown` and `BackendsShown`, that what is registered has its
  gauge or is still to be looked up. An operation could break these only with the lock.
- `CollectLeavesNoneOut`: `NoneLeftOut`. It assumes `Reliable`: then the struct a backend points to is
  registered (`BackendsServed`), and every registered backend has its gauges.

`StoreProofs` is about `StoreSpec`: Syncs, handlers, peers, crashes.

- `StoreTypes` rests on `TodoListed`, that a loop visits names of its own listing.
- `SyncKernelAgrees`: `RegisteredInKernel`, restarts on a filled kernel included.
  `SyncStoreCorrect`: `RegisteredIsStored` of an instance alone on its store, with
  `Extensions` empty. `SyncPulsesAlive` and `SyncSurvives` assume `Reliable`: the
  goroutine of Sync, where nothing recovers a panic, never closes a closed channel.
- `OnlyStale`: `OnlyStaleUndone`, without assumptions. `StaleInv` relates the listing of
  the Sync under way to the store: they agree on every key that is not `dirty`, except
  those the Sync itself has deleted.
- `SyncKeeps`: `SyncKeepsStore`, if kernel and store do not fail. `KeptInv` says for each
  key of the listing that the store has it, or the loops still come to it, or it is
  `dirty`, or nothing can attach it.

`DockerLinkProofs` is about `LinkSpec`, for any containers, images and bindings, ports
published several times included, and any number of waiting events.

- `LinkTypes`, and `CaughtUpInStep`: `QuietInStep`. The invariant has to say of each name
  that is not astray why it will be right in the end. `WantedComes`: what a running
  container publishes GORB has, or a creation is in hand, or the start is waiting.
  `UnwantedGoes`: what no container publishes GORB neither has nor will get, or a
  removal is in hand, or the kill is waiting. What is in hand may be late:
  `RemovalStale` and `CreationFresh` say that then the start is waiting. The link
  inspects a container when it gets to an event, so these need the order of the
  events: behind a kill of a container that runs waits its start (`KillThenStart`), and
  behind the start of one that is ending its kill (`StartThenKill`).
- `RemovalsRestored`: the action property `RemovedThenRestored`, from the same invariant.

TLC checked each of these inductive invariants, on the instance of a run, before it was
proved.

Assumptions on constants, each evaluated by TLC in the runs of the module's MC module:
`RequestAssumption` (requests are option records, weights are naturals, what may fail is
one of the systems), `NoneAssumption` (nil is none of the values it stands beside),
`RuntimeAssumption` (the record of results has room for one), `StoreAssumption` (there
is a store), `LinkAssumption` (the names and addresses of the bindings are among those
the model of GORB knows).

Only model-checked: `EventuallyRestored`, `StoppedPulseReturns` and
`EventuallyConverged`, which are liveness under fairness and out of the prover's reach.
Every invariant and action property of a passing run is proved.

## Not modelled

- JSON, URLs and HTTP details, logging, flags, the parsing of addresses and intervals
  (a table of the values the models use); arguments of drivers and their types.
- `Persistent`, which is stored and compared only; uptime; the values of gauges.
- The two calls of this instance's own `put` (`Exists`, then `Put`) are one step; peers'
  writes may come before or after it.
- Reconnecting of the Docker client library; the Pulse options the link sends for UDP.
- Pulses in `Store`: `stopped` is kept, the goroutines are those of `Runtime`, which does
  not have the store. A Sync acts on pulses only through operations of `Context` that
  `Runtime` has as handlers.

`Init` of `Context` starts from an empty kernel, as with `-f`, and an empty store;
`Restart` of `Store` reaches the other starting points. That `NewContext` exposes the REST
API itself in discovery, under the name `gorb` (`core/context.go:106`), is left out: the
catalog of the model is that of the services.

## Plan

What is left are proofs about combinations the runs do not ask for: the invariants of
`ReliableProofs` for `RuntimeSpec` as named theorems, `BackendsInKernel` for `StoreSpec`
with `Flush`, and `RegisteredIsExposed` and `ForeignAddrsKept` under Syncs. `Runtime`
and `Store` are separate extensions of `Context`; a module with both would show a Sync
among the updates of the goroutines it stops.
