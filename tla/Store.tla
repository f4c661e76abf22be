------------------------------- MODULE Store -------------------------------
(***************************************************************************)
(* The external store (core/store.go) and Context.Synchronize: every       *)
(* instance of GORB that shares the store lists it from time to time and   *)
(* makes its registry follow the listing. One instance is Context, with    *)
(* all it does; the others are Peers, seen through what they write.        *)
(*                                                                         *)
(* Store.Sync lists services, then backends, and only then takes           *)
(* ctx.mutex: handlers and peers run in between. Under the mutex it        *)
(* performs operations of Context one by one. Peers do not wait for the    *)
(* mutex, and the daemon may crash between any two of them.                *)
(***************************************************************************)
EXTENDS Context

CONSTANTS
    Flush,      \* -f: NewContext empties the kernel's tables
    HasPeers,   \* other instances write to the store
    MayCrash    \* the daemon may be killed and started again

VARIABLES
    sync,       \* Store.Sync: where it is, the listings, what its loop has left
    visiting,   \* the name it has removed in order to create it anew, or None
    serving,    \* main has reached ListenAndServe
    dirty       \* history: the keys others wrote since the Sync listed them

storeVars == <<ctxVars, sync, visiting, serving, dirty>>

ASSUME StoreAssumption == HasStore

-----------------------------------------------------------------------------
(* Data *)

\* The loops of Synchronize, which run under ctx.mutex.
Loops == {"dropServices", "addServices", "dropBackends", "addBackends"}

\* listed: services are listed; read: backends too; panicked: the process is dying.
\* todo: the names the current loop has still to visit.
Sync == [pc : {"idle", "listed", "read", "panicked"} \cup Loops,
         services : [VsIDs -> FilledServices \cup {None}],
         backends : [RsIDs -> StoredBackend \cup {None}],
         todo : SUBSET (VsIDs \cup RsIDs)]

NotSyncing == [pc |-> "idle", services |-> [v \in VsIDs |-> None],
               backends |-> [r \in RsIDs |-> None], todo |-> {}]

ServiceKey(v) == <<"services", v>>
BackendKey(r) == <<"backends", r>>
StoreKeys == {ServiceKey(v) : v \in VsIDs} \cup {BackendKey(r) : r \in RsIDs}

StoreTypeOK ==
    /\ sync \in Sync
    /\ sync.pc \in {"dropServices", "addServices"} => sync.todo \subseteq VsIDs
    /\ sync.pc \in {"dropBackends", "addBackends"} => sync.todo \subseteq RsIDs
    /\ visiting \in VsIDs \cup RsIDs \cup {None}
    /\ serving \in BOOLEAN
    /\ dirty \subseteq StoreKeys

\* The keys a step writes.
Written ==
    {ServiceKey(v) : v \in {x \in VsIDs : storedServices'[x] # storedServices[x]}}
    \cup {BackendKey(r) : r \in {x \in RsIDs : storedBackends'[x] # storedBackends[x]}}

\* Stop of a pulse that is stopped closes a closed channel. In removeService this
\* is in the loop over the backends, after the kernel has removed the service.
ServiceStopPanics(v, down) ==
    /\ DelServiceOK(services[v].opts, down)
    /\ \E r \in BackendsOf(services[v]) : backends[r].monitor \in stopped
BackendStopPanics(r) == backends[r].monitor \in stopped

\* Goes on with the names in todo; nothing recovers a panic in this goroutine.
Continue(todo, panics) ==
    sync' = IF panics THEN [NotSyncing EXCEPT !.pc = "panicked"]
                      ELSE [sync EXCEPT !.todo = todo]

\* A name that was removed is created before the loop comes to another one.
Visit(id) == visiting \in {None, id}

-----------------------------------------------------------------------------
(* Store.Sync *)

\* getExternalServices
ListServices ==
    /\ sync.pc = "idle"
    /\ sync' = [NotSyncing EXCEPT !.pc = "listed", !.services = storedServices]
    /\ UNCHANGED <<ctxVars, visiting, serving, dirty>>

\* mutant of ListBackends: a listing that cannot be read is taken for an empty one
ListNoBackends ==
    /\ sync.pc = "listed"
    /\ sync' = [sync EXCEPT !.pc = "read"]
    /\ dirty' = dirty \ {BackendKey(r) : r \in RsIDs}
    /\ UNCHANGED <<ctxVars, visiting, serving>>

\* getExternalBackends
ListBackends ==
    /\ sync.pc = "listed"
    /\ sync' = [sync EXCEPT !.pc = "read", !.backends = storedBackends]
    /\ dirty' = dirty \ {BackendKey(r) : r \in RsIDs}
    /\ UNCHANGED <<ctxVars, visiting, serving>>

\* Either listing fails: the error is logged. NewStore goes on after its first Sync
\* whatever came of it, and main starts to serve.
ListFails ==
    /\ "store" \in MayFail
    /\ sync.pc \in {"idle", "listed"}
    /\ sync' = NotSyncing
    /\ serving' = TRUE
    /\ dirty' = {}
    /\ UNCHANGED <<ctxVars, visiting>>

-----------------------------------------------------------------------------
(* Context.Synchronize *)

\* Takes the mutex and starts on the services that are not in the listing.
Synchronize ==
    /\ sync.pc = "read"
    /\ sync' = [sync EXCEPT !.pc = "dropServices",
                            !.todo = {v \in Registered : sync.services[v] = None}]
    /\ UNCHANGED <<ctxVars, visiting, serving, dirty>>

DropService ==
    \E v \in sync.todo, down \in Outages :
        /\ sync.pc = "dropServices"
        /\ RemoveService(v, down)
        /\ Continue(sync.todo \ {v}, ServiceStopPanics(v, down))
        /\ UNCHANGED <<visiting, serving, dirty>>

\* A service that is as the listing has it.
KeepService ==
    \E v \in sync.todo :
        /\ sync.pc = "addServices" /\ visiting = None
        /\ services[v] # None
        /\ CompareServiceOptions(services[v].opts, sync.services[v])
        /\ Continue(sync.todo \ {v}, FALSE)
        /\ UNCHANGED <<ctxVars, visiting, serving, dirty>>

\* mutant of ReplaceService: it is not created again
ReplaceServiceOnly ==
    \E v \in sync.todo, down \in Outages :
        /\ sync.pc = "addServices" /\ visiting = None
        /\ services[v] # None
        /\ ~CompareServiceOptions(services[v].opts, sync.services[v])
        /\ RemoveService(v, down)
        /\ Continue(sync.todo \ {v}, ServiceStopPanics(v, down))
        /\ UNCHANGED <<visiting, serving, dirty>>

\* One that is not is removed, from the store too, and created in the next step.
ReplaceService ==
    \E v \in sync.todo, down \in Outages :
        /\ sync.pc = "addServices" /\ visiting = None
        /\ services[v] # None
        /\ ~CompareServiceOptions(services[v].opts, sync.services[v])
        /\ RemoveService(v, down)
        /\ Continue(sync.todo, ServiceStopPanics(v, down))
        /\ visiting' = v
        /\ UNCHANGED <<serving, dirty>>

AddService ==
    \E v \in sync.todo, p \in FreePtrs, down \in Outages :
        /\ sync.pc = "addServices" /\ Visit(v)
        /\ CreateService(v, sync.services[v], p, down)
        /\ Continue(sync.todo \ {v}, FALSE)
        /\ visiting' = None
        /\ UNCHANGED <<serving, dirty>>

DropBackend ==
    \E r \in sync.todo, down \in Outages :
        /\ sync.pc = "dropBackends"
        /\ RemoveBackend(r, down)
        /\ Continue(sync.todo \ {r}, BackendStopPanics(r))
        /\ UNCHANGED <<visiting, serving, dirty>>

KeepBackend ==
    \E r \in sync.todo :
        /\ sync.pc = "addBackends" /\ visiting = None
        /\ backends[r] # None
        /\ CompareBackendOptions(backends[r].opts, sync.backends[r].opts)
        /\ Continue(sync.todo \ {r}, FALSE)
        /\ UNCHANGED <<ctxVars, visiting, serving, dirty>>

\* If the kernel refuses, the name stays and createBackend finds that it exists.
ReplaceBackend ==
    \E r \in sync.todo, down \in Outages :
        /\ sync.pc = "addBackends" /\ visiting = None
        /\ backends[r] # None
        /\ ~CompareBackendOptions(backends[r].opts, sync.backends[r].opts)
        /\ RemoveBackend(r, down)
        /\ Continue(IF backends'[r] = None THEN sync.todo ELSE sync.todo \ {r},
                    BackendStopPanics(r))
        /\ visiting' = IF backends'[r] = None THEN r ELSE None
        /\ UNCHANGED <<serving, dirty>>

AddBackend ==
    \E r \in sync.todo, q \in FreePulses, down \in Outages :
        /\ sync.pc = "addBackends" /\ Visit(r)
        /\ CreateBackend(sync.backends[r].VsID, r, sync.backends[r].opts, q, down)
        /\ Continue(sync.todo \ {r}, FALSE)
        /\ visiting' = None
        /\ UNCHANGED <<serving, dirty>>

\* createBackend finds the service of that name, and it has the same address family.
Attachable(b) ==
    LET vs == services[b.VsID] IN
    vs # None /\ AddrFamily(Lookup[b.opts.Host]) = AddrFamily(ServiceHost(vs.opts))

\* It does not: the error is logged.
SkipBackend ==
    \E r \in sync.todo :
        /\ sync.pc = "addBackends" /\ Visit(r)
        /\ backends[r] = None
        /\ ~Attachable(sync.backends[r])
        /\ Continue(sync.todo \ {r}, FALSE)
        /\ visiting' = None
        /\ UNCHANGED <<ctxVars, serving, dirty>>

\* mutant of NextLoop: the loop that drops backends ranges over services
NextLoopServices ==
    /\ sync.todo = {}
    /\ \/ /\ sync.pc = "dropServices"
          /\ sync' = [sync EXCEPT !.pc = "addServices",
                                  !.todo = {v \in VsIDs : sync.services[v] # None}]
       \/ /\ sync.pc = "addServices"
          /\ sync' = [sync EXCEPT !.pc = "dropBackends", !.todo = Registered]
    /\ UNCHANGED <<ctxVars, visiting, serving, dirty>>

\* A loop has visited every name: the next one begins, with the names it ranges
\* over, or Synchronize returns and unlocks.
NextLoop ==
    /\ sync.todo = {}
    /\ \/ /\ sync.pc = "dropServices"
          /\ sync' = [sync EXCEPT !.pc = "addServices",
                                  !.todo = {v \in VsIDs : sync.services[v] # None}]
       \/ /\ sync.pc = "addServices"
          /\ sync' = [sync EXCEPT !.pc = "dropBackends",
                                  !.todo = {r \in Backends : sync.backends[r] = None}]
       \/ /\ sync.pc = "dropBackends"
          /\ sync' = [sync EXCEPT !.pc = "addBackends",
                                  !.todo = {r \in RsIDs : sync.backends[r] # None}]
    /\ UNCHANGED <<ctxVars, visiting, serving, dirty>>

Synchronized ==
    /\ sync.pc = "addBackends" /\ sync.todo = {}
    /\ sync' = NotSyncing
    /\ serving' = TRUE
    /\ dirty' = {}
    /\ UNCHANGED <<ctxVars, visiting>>

SyncStep ==
    \/ ListServices \/ ListBackends \/ Synchronize
    \/ DropService \/ KeepService \/ ReplaceService \/ AddService
    \/ DropBackend \/ KeepBackend \/ ReplaceBackend \/ AddBackend \/ SkipBackend
    \/ NextLoop \/ Synchronized

-----------------------------------------------------------------------------
(* The rest of the system *)

\* A REST handler needs the mutex.
Handler ==
    /\ serving
    /\ sync.pc \notin Loops \cup {"panicked"}
    /\ Next
    /\ dirty' = IF sync.pc = "idle" THEN {} ELSE dirty \cup Written
    /\ UNCHANGED <<sync, visiting, serving>>

\* Another instance writes or deletes a key, for a client or in a Sync of its own.
PeerWrites ==
    /\ HasPeers
    /\ \/ /\ \E v \in VsIDs, o \in FilledServices \cup {None} :
                storedServices' = [storedServices EXCEPT ![v] = o]
          /\ UNCHANGED storedBackends
       \/ /\ \E r \in RsIDs, b \in StoredBackend \cup {None} :
                /\ storedBackends[r] = None \/ b = None
                /\ storedBackends' = [storedBackends EXCEPT ![r] = b]
          /\ UNCHANGED storedServices
    /\ dirty' = IF sync.pc = "idle" THEN {} ELSE dirty \cup Written
    /\ UNCHANGED <<registry, kernel, addrs, catalog, sync, visiting, serving>>

\* The process ends and a new one begins: NewContext, then NewStore, whose first
\* Sync runs before the handlers do. Addresses and catalog stay as they are.
Restart ==
    /\ MayCrash \/ sync.pc = "panicked"
    /\ services' = [v \in VsIDs |-> None]
    /\ backends' = [r \in RsIDs |-> None]
    /\ stopped' = {}
    /\ IF Flush THEN /\ virtuals' = [k \in Keys |-> None]
                     /\ dests' = [e \in Keys \X Dests |-> None]
                ELSE UNCHANGED kernel
    /\ sync' = NotSyncing
    /\ visiting' = None
    /\ serving' = FALSE
    /\ dirty' = {}
    /\ UNCHANGED <<addrs, catalog, stored>>

StoreInit ==
    /\ Init
    /\ sync = NotSyncing
    /\ visiting = None
    /\ serving = FALSE
    /\ dirty = {}

StoreNext == SyncStep \/ ListFails \/ Handler \/ PeerWrites \/ Restart

StoreSpec == StoreInit /\ [][StoreNext]_storeVars

\* The ticker of NewStore fires and its goroutine runs.
FairStoreSpec == StoreSpec /\ WF_storeVars(SyncStep)

-----------------------------------------------------------------------------
(* Properties *)

\* The store has service v as it is registered; the store has backend r so, if it
\* has the same destination and forwarding.
ServiceInStore(v) == storedServices[v] = services[v].opts
Forwarding(o) == <<o.Host, o.Port, o.Method>>
BackendInStore(r) ==
    /\ storedBackends[r] # None
    /\ Forwarding(storedBackends[r].opts) = Forwarding(backends[r].opts)

\* "synchronize services with store": Synchronize removes a service or a backend
\* only if the store does not have it as it is.
SyncFollowsStore ==
    [][sync.pc \in Loops /\ sync'.pc \in Loops =>
        /\ \A v \in Registered : services'[v] = None => ~ServiceInStore(v)
        /\ sync.pc \in {"dropBackends", "addBackends"} =>
              \A r \in Backends : backends'[r] = None => ~BackendInStore(r)]_storeVars

\* The same for what nobody else wrote since Sync listed it: a listing that is old
\* when Synchronize gets the mutex does harm only where someone wrote meanwhile.
OnlyStaleUndone ==
    [][sync.pc \in Loops /\ sync'.pc \in Loops =>
        /\ \A v \in Registered : services'[v] = None =>
              ~ServiceInStore(v) \/ ServiceKey(v) \in dirty
        /\ sync.pc \in {"dropBackends", "addBackends"} =>
              \A r \in Backends : backends'[r] = None =>
                  ~BackendInStore(r) \/ BackendKey(r) \in dirty]_storeVars

\* Synchronize deletes and writes keys while it removes and creates; when it is
\* through, every key it found listed is in the store again, unless someone else
\* wrote it or, for a backend, there is no service it could be attached to.
SyncKeepsStore ==
    [][Synchronized =>
        /\ \A v \in VsIDs : sync.services[v] # None =>
              storedServices[v] # None \/ ServiceKey(v) \in dirty
        /\ \A r \in RsIDs : sync.backends[r] # None =>
              \/ storedBackends[r] # None
              \/ BackendKey(r) \in dirty
              \/ ~Attachable(sync.backends[r])]_storeVars

\* The registry and the kernel are what the store says: the same services with the
\* same options, the same backends with destinations of their own. A name may only be
\* missing if the kernel has its address under another name, or its service is
\* missing.
Converged ==
    /\ \A v \in VsIDs :
          IF storedServices[v] = None THEN services[v] = None
          ELSE \/ services[v] # None /\ ServiceInStore(v)
               \/ /\ services[v] = None
                  /\ \E w \in Registered :
                        SvcKey(services[w].opts) = SvcKey(storedServices[v])
    /\ \A r \in RsIDs :
          IF storedBackends[r] = None THEN backends[r] = None
          ELSE \/ /\ backends[r] # None /\ BackendInStore(r)
                  /\ dests[Entry(backends[r])] # None
               \/ /\ backends[r] = None
                  /\ \/ services[storedBackends[r].VsID] = None
                     \/ \E s \in Backends :
                           DestKey(backends[s].opts) = DestKey(storedBackends[r].opts)

\* Once clients and peers stop writing and the daemon stops crashing, the instance
\* gets to what the store says and stays there, whatever was going on before: stale
\* listings, half-done Syncs, restarts.
EventuallyConverged == <>[][SyncStep]_storeVars => <>[]Converged
=============================================================================
