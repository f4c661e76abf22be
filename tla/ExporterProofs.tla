--------------------------- MODULE ExporterProofs ---------------------------
(***************************************************************************)
(* Theorems about Exporter, for any number of scrapes, writers and names,  *)
(* and any operations of Context.                                          *)
(***************************************************************************)
EXTENDS Exporter, ReliableProofs

-----------------------------------------------------------------------------
(* The inductive invariant *)

\* The read locks of a scrape follow from where it is: one for collect, one more for
\* the lookup, and the last of them only asked for while it is queued.
LocksBalanced ==
    \A s \in Scrapes :
        /\ pc[s] = "idle"  => s \notin queued /\ held[s] = 0
        /\ pc[s] = "lock"  => held[s] = IF s \in queued THEN 0 ELSE 1
        /\ pc[s] = "range" => s \notin queued /\ held[s] = 1
        /\ pc[s] \in {"service", "backend"} => held[s] = IF s \in queued THEN 1 ELSE 2

\* A scrape has names to look up, and has set gauges, only between its two locks.
AtRest ==
    \A s \in Scrapes : pc[s] \in {"idle", "lock"} =>
        ranged[s] = {} /\ listed[s] = {} /\ serviceGauges[s] = {} /\ backendGauges[s] = {}

\* The services collect has still to look up are registered, and it has set the gauges of
\* the others. The backends it has still to look up are those of the last of these.
ServicesShown ==
    \A s \in Scrapes : pc[s] \in {"range", "service", "backend"} =>
        /\ ranged[s] \subseteq Registered
        /\ serviceGauges[s] = Registered \ ranged[s]
        /\ listed[s] # {} => at[s] \in serviceGauges[s] /\ listed[s] \subseteq Listing(at[s])
        /\ pc[s] = "service" => listed[s] = {}

\* It has set the gauges of the backends of these services, except those.
Shown(s) ==
    \A v \in VsIDs, r \in RsIDs :
        <<v, r>> \in backendGauges[s] <=>
            /\ v \in serviceGauges[s] /\ r \in Listing(v)
            /\ ~(v = at[s] /\ r \in listed[s])

BackendsShown ==
    \A s \in Scrapes : pc[s] \in {"range", "service", "backend"} => Shown(s)

ExporterInv == ExporterTypeOK /\ LocksBalanced /\ AtRest /\ ServicesShown /\ BackendsShown

-----------------------------------------------------------------------------

\* A scrape sees the same registry as long as no operation is carried out.
LEMMA SameRegistry ==
    ASSUME UNCHANGED ctxVars
    PROVE  Registered' = Registered /\ Backends' = Backends
           /\ \A v : Listing(v)' = Listing(v)
  BY DEF ctxVars, registry, Registered, Backends, Listing, BackendsOf

LEMMA ListingType == \A v : Listing(v) \subseteq Backends /\ Backends \subseteq RsIDs
  BY DEF Listing, BackendsOf, Backends

\* What a scrape has shown stays so until it goes on.
LEMMA ShownStill ==
    ASSUME NEW s \in Scrapes, Shown(s), UNCHANGED ctxVars,
           UNCHANGED <<at[s], listed[s], serviceGauges[s], backendGauges[s]>>
    PROVE  Shown(s)'
  BY SameRegistry DEF Shown

\* Every step keeps the invariant. An operation gets the mutex only when no scrape is
\* between its two locks.
LEMMA ExporterInductive == ExporterInv /\ [ExporterNext]_exporterVars => ExporterInv'
<1>. SUFFICES ASSUME ExporterInv, [ExporterNext]_exporterVars PROVE ExporterInv'
  OBVIOUS
<1>. USE DEF ExporterInv
<1>1. ASSUME NEW w \in Writers, Lock(w) PROVE ExporterInv'
  <2>1. UNCHANGED <<ctxVars, pc, ranged, at, listed, serviceGauges, backendGauges, held, queued>>
    BY <1>1 DEF Lock, cursor
  <2>2. ExporterTypeOK' /\ LocksBalanced' /\ AtRest'
    BY <1>1, <2>1 DEF Lock, ExporterTypeOK, LocksBalanced, AtRest
  <2>. QED
    BY <2>1, <2>2, SameRegistry, ShownStill DEF ServicesShown, BackendsShown
<1>2. ASSUME NEW w \in Writers, Operate(w) PROVE ExporterInv'
  <2>1. \A s \in Scrapes : pc[s] \in {"idle", "lock"} /\ held[s] = 0
    BY <1>2 DEF Operate, Locked, LocksBalanced, ExporterTypeOK
  <2>2. UNCHANGED <<pc, ranged, at, listed, serviceGauges, backendGauges>>
    BY <1>2 DEF Operate, cursor
  <2>3. ExporterTypeOK'
    BY <1>2, <2>1, <2>2 DEF Operate, Unlock, ExporterTypeOK
  <2>4. LocksBalanced'
    BY <1>2, <2>1, <2>2 DEF Operate, Unlock, LocksBalanced, ExporterTypeOK
  <2>. QED
    BY <2>1, <2>2, <2>3, <2>4 DEF AtRest, ServicesShown, BackendsShown
<1>3. ASSUME NEW s \in Scrapes, Collect(s) PROVE ExporterInv'
  <2>1. UNCHANGED <<ctxVars, ranged, at, listed, serviceGauges, backendGauges, pending>>
    BY <1>3 DEF Collect, cursor, RLock
  <2>2. ExporterTypeOK'
    BY <1>3, <2>1 DEF Collect, RLock, ExporterTypeOK, LocksBalanced
  <2>3. LocksBalanced'
    BY <1>3, <2>1 DEF Collect, RLock, ExporterTypeOK, LocksBalanced
  <2>4. AtRest'
    BY <1>3, <2>1 DEF Collect, ExporterTypeOK, AtRest
  <2>. QED
    BY <1>3, <2>1, <2>2, <2>3, <2>4, SameRegistry, ShownStill
    DEF Collect, ExporterTypeOK, ServicesShown, BackendsShown
<1>4. ASSUME NEW s \in Scrapes, Range(s) PROVE ExporterInv'
  <2>1. UNCHANGED <<ctxVars, at, listed, serviceGauges, backendGauges, held, queued, pending>>
    BY <1>4 DEF Range, mutex
  <2>2. ExporterTypeOK'
    BY <1>4, <2>1 DEF Range, ExporterTypeOK, Registered
  <2>3. LocksBalanced' /\ AtRest'
    BY <1>4, <2>1 DEF Range, ExporterTypeOK, LocksBalanced, AtRest
  <2>4. ServicesShown'
    BY <1>4, <2>1, SameRegistry DEF Range, ExporterTypeOK, AtRest, ServicesShown
  <2>5. BackendsShown'
    <3>1. Shown(s)'
      BY <1>4, <2>1 DEF Range, AtRest, Shown
    <3>2. \A z \in Scrapes : z # s => pc'[z] = pc[z]
      BY <1>4 DEF Range, ExporterTypeOK
    <3>. QED
      BY <2>1, <3>1, <3>2, ShownStill DEF BackendsShown
  <2>. QED
    BY <2>2, <2>3, <2>4, <2>5
<1>5. ASSUME NEW s \in Scrapes, Get(s) PROVE ExporterInv'
  <2>1. UNCHANGED <<ctxVars, ranged, at, listed, serviceGauges, backendGauges, pending>>
    BY <1>5 DEF Get, cursor, RLock
  <2>2. ExporterTypeOK'
    BY <1>5, <2>1 DEF Get, RLock, ExporterTypeOK, LocksBalanced
  <2>3. LocksBalanced'
    BY <1>5, <2>1 DEF Get, RLock, ExporterTypeOK, LocksBalanced
  <2>4. AtRest'
    BY <1>5, <2>1 DEF Get, ExporterTypeOK, AtRest
  <2>5. ServicesShown'
    BY <1>5, <2>1, SameRegistry DEF Get, ExporterTypeOK, ServicesShown
  <2>6. BackendsShown'
    BY <1>5, <2>1, ShownStill DEF Get, ExporterTypeOK, BackendsShown
  <2>. QED
    BY <2>2, <2>3, <2>4, <2>5, <2>6
<1>6. ASSUME NEW s \in Scrapes, GetService(s) PROVE ExporterInv'
  <2>1. PICK v \in ranged[s] :
          /\ pc[s] = "service" /\ s \notin queued
          /\ pc' = [pc EXCEPT ![s] = "range"]
          /\ services[v] # None =>
                /\ ranged' = [ranged EXCEPT ![s] = @ \ {v}]
                /\ at' = [at EXCEPT ![s] = v]
                /\ listed' = [listed EXCEPT ![s] = Listing(v)]
                /\ serviceGauges' = [serviceGauges EXCEPT ![s] = @ \cup {v}]
    BY <1>6 DEF GetService
  <2>2. UNCHANGED <<ctxVars, backendGauges, queued, pending>>
        /\ held' = [held EXCEPT ![s] = @ - 1]
    BY <1>6 DEF GetService, RUnlock
  <2>3. v \in VsIDs /\ v \in Registered /\ services[v] # None /\ listed[s] = {}
    BY <2>1 DEF ServicesShown, ExporterTypeOK, Registered
  <2>4. /\ ranged' = [ranged EXCEPT ![s] = @ \ {v}]
        /\ at' = [at EXCEPT ![s] = v]
        /\ listed' = [listed EXCEPT ![s] = Listing(v)]
        /\ serviceGauges' = [serviceGauges EXCEPT ![s] = @ \cup {v}]
    BY <2>1, <2>3
  <2>5. ExporterTypeOK'
    BY <2>1, <2>2, <2>3, <2>4, ListingType DEF ExporterTypeOK, LocksBalanced
  <2>6. LocksBalanced' /\ AtRest'
    BY <2>1, <2>2, <2>3, <2>4 DEF ExporterTypeOK, LocksBalanced, AtRest
  <2>7. ServicesShown'
    BY <2>1, <2>2, <2>3, <2>4, SameRegistry DEF ExporterTypeOK, ServicesShown
  <2>8. BackendsShown'
    <3>1. Shown(s) /\ v \notin serviceGauges[s]
      BY <2>1, <2>3 DEF BackendsShown, ServicesShown
    <3>2. /\ at'[s] = v /\ listed'[s] = Listing(v)
          /\ serviceGauges'[s] = serviceGauges[s] \cup {v} /\ backendGauges'[s] = backendGauges[s]
      BY <2>2, <2>4 DEF ExporterTypeOK
    <3>3. Shown(s)'
      <4>. SUFFICES ASSUME NEW x \in VsIDs, NEW y \in RsIDs
                    PROVE  <<x, y>> \in backendGauges'[s] <=>
                              /\ x \in serviceGauges'[s] /\ y \in Listing(x)
                              /\ ~(x = at'[s] /\ y \in listed'[s])
        BY <2>2, SameRegistry DEF Shown
      <4>1. <<x, y>> \in backendGauges[s] <=> x \in serviceGauges[s] /\ y \in Listing(x)
        BY <2>3, <3>1 DEF Shown
      <4>. QED
        BY <3>1, <3>2, <4>1
    <3>4. \A z \in Scrapes : z # s =>
            /\ pc'[z] = pc[z]
            /\ UNCHANGED <<at[z], listed[z], serviceGauges[z], backendGauges[z]>>
      BY <2>1, <2>2, <2>4 DEF ExporterTypeOK
    <3>. QED
      BY <2>2, <3>3, <3>4, ShownStill DEF BackendsShown
  <2>. QED
    BY <2>5, <2>6, <2>7, <2>8
<1>7. ASSUME NEW s \in Scrapes, GetBackend(s) PROVE ExporterInv'
  <2>1. PICK r \in listed[s] :
          /\ pc[s] = "backend" /\ s \notin queued
          /\ pc' = [pc EXCEPT ![s] = "range"]
          /\ backends[r] # None =>
                /\ listed' = [listed EXCEPT ![s] = @ \ {r}]
                /\ backendGauges' = [backendGauges EXCEPT ![s] = @ \cup {<<at[s], r>>}]
                /\ UNCHANGED ranged
    BY <1>7 DEF GetBackend
  <2>2. UNCHANGED <<ctxVars, at, serviceGauges, queued, pending>>
        /\ held' = [held EXCEPT ![s] = @ - 1]
    BY <1>7 DEF GetBackend, RUnlock
  <2>3. at[s] \in serviceGauges[s] /\ at[s] \in VsIDs /\ r \in Listing(at[s])
    BY <2>1 DEF ServicesShown, ExporterTypeOK
  <2>4. r \in RsIDs /\ backends[r] # None
    BY <2>3, ListingType DEF Backends
  <2>5. /\ listed' = [listed EXCEPT ![s] = @ \ {r}]
        /\ backendGauges' = [backendGauges EXCEPT ![s] = @ \cup {<<at[s], r>>}]
        /\ UNCHANGED ranged
    BY <2>1, <2>4
  <2>6. ExporterTypeOK'
    BY <2>1, <2>2, <2>3, <2>4, <2>5 DEF ExporterTypeOK, LocksBalanced
  <2>7. LocksBalanced' /\ AtRest'
    BY <2>1, <2>2, <2>5 DEF ExporterTypeOK, LocksBalanced, AtRest
  <2>8. ServicesShown'
    BY <2>1, <2>2, <2>5, SameRegistry DEF ExporterTypeOK, ServicesShown
  <2>9. BackendsShown'
    <3>1. Shown(s)
      BY <2>1 DEF BackendsShown
    <3>2. /\ at'[s] = at[s] /\ listed'[s] = listed[s] \ {r}
          /\ serviceGauges'[s] = serviceGauges[s]
          /\ backendGauges'[s] = backendGauges[s] \cup {<<at[s], r>>}
      BY <2>2, <2>5 DEF ExporterTypeOK
    <3>3. Shown(s)'
      <4>. SUFFICES ASSUME NEW x \in VsIDs, NEW y \in RsIDs
                    PROVE  <<x, y>> \in backendGauges'[s] <=>
                              /\ x \in serviceGauges'[s] /\ y \in Listing(x)
                              /\ ~(x = at'[s] /\ y \in listed'[s])
        BY <2>2, SameRegistry DEF Shown
      <4>1. <<x, y>> \in backendGauges'[s] <=>
              <<x, y>> \in backendGauges[s] \/ (x = at[s] /\ y = r)
        BY <3>2
      <4>2. <<x, y>> \in backendGauges[s] <=>
              /\ x \in serviceGauges[s] /\ y \in Listing(x)
              /\ ~(x = at[s] /\ y \in listed[s])
        BY <3>1 DEF Shown
      <4>. QED
        BY <2>3, <3>2, <4>1, <4>2
    <3>4. \A z \in Scrapes : z # s =>
            /\ pc'[z] = pc[z]
            /\ UNCHANGED <<at[z], listed[z], serviceGauges[z], backendGauges[z]>>
      BY <2>1, <2>2, <2>5 DEF ExporterTypeOK
    <3>. QED
      BY <2>2, <3>3, <3>4, ShownStill DEF BackendsShown
  <2>. QED
    BY <2>6, <2>7, <2>8, <2>9
<1>8. ASSUME NEW s \in Scrapes, Return(s) PROVE ExporterInv'
  <2>1. UNCHANGED <<ctxVars, ranged, listed, queued, pending>>
        /\ held' = [held EXCEPT ![s] = @ - 1]
    BY <1>8 DEF Return, RUnlock
  <2>2. ExporterTypeOK'
    BY <1>8, <2>1 DEF Return, ExporterTypeOK, LocksBalanced
  <2>3. LocksBalanced' /\ AtRest'
    BY <1>8, <2>1 DEF Return, ExporterTypeOK, LocksBalanced, AtRest
  <2>4. ServicesShown'
    BY <1>8, <2>1, SameRegistry DEF Return, ExporterTypeOK, ServicesShown
  <2>5. BackendsShown'
    <3>1. pc'[s] = "idle"
      BY <1>8 DEF Return, ExporterTypeOK
    <3>2. \A z \in Scrapes : z # s =>
            /\ pc'[z] = pc[z]
            /\ UNCHANGED <<at[z], listed[z], serviceGauges[z], backendGauges[z]>>
      BY <1>8, <2>1 DEF Return, ExporterTypeOK
    <3>. QED
      BY <2>1, <3>1, <3>2, ShownStill DEF BackendsShown
  <2>. QED
    BY <2>2, <2>3, <2>4, <2>5
<1>9. CASE UNCHANGED exporterVars
  <2>1. UNCHANGED <<ctxVars, pc, ranged, at, listed, serviceGauges, backendGauges>>
        /\ UNCHANGED <<held, queued, pending>>
    BY <1>9 DEF exporterVars, cursor, mutex
  <2>2. ExporterTypeOK' /\ LocksBalanced' /\ AtRest'
    BY <2>1 DEF ExporterTypeOK, LocksBalanced, AtRest
  <2>. QED
    BY <2>1, <2>2, SameRegistry, ShownStill DEF ServicesShown, BackendsShown
<1>. QED
  BY <1>1, <1>2, <1>3, <1>4, <1>5, <1>6, <1>7, <1>8, <1>9 DEF ExporterNext

LEMMA ExporterInvariant == ExporterSpec => []ExporterInv
<1>1. ExporterInit => ExporterInv
  BY DEF ExporterInit, ExporterInv, ExporterTypeOK, LocksBalanced, AtRest, ServicesShown,
         BackendsShown
<1>. QED
  BY <1>1, ExporterInductive, PTL DEF ExporterSpec

-----------------------------------------------------------------------------

\* The state of the mutex and of the scrapes has its type; in particular no goroutine
\* ever holds more than the two nested read locks of collect, or unlocks one too many.
THEOREM ExporterTypes == ExporterSpec => []ExporterTypeOK
  BY ExporterInvariant, PTL DEF ExporterInv

\* collect finds every name it ranges over: the read lock it keeps from the range to
\* the last lookup holds off the operations that remove names.
THEOREM CollectFinds == ExporterSpec => []LookupsSucceed
<1>1. ExporterInv => LookupsSucceed
  <2>. SUFFICES ASSUME ExporterInv, NEW s \in Scrapes, pc[s] # "idle"
                PROVE  ranged[s] \subseteq Registered /\ listed[s] \subseteq Backends
    BY DEF LookupsSucceed
  <2>. USE DEF ExporterInv
  <2>1. CASE pc[s] = "lock"
    BY <2>1 DEF AtRest
  <2>2. CASE pc[s] \in {"range", "service", "backend"}
    BY <2>2, ListingType DEF ServicesShown
  <2>. QED
    BY <2>1, <2>2 DEF ExporterTypeOK
<1>. QED
  BY <1>1, ExporterInvariant, PTL

\* When collect is through, it has set the gauges of every registered service and of
\* exactly the backends that point to the struct of one.
THEOREM CollectComplete == ExporterSpec => []ScrapeComplete
<1>1. ExporterInv => ScrapeComplete
  <2>. SUFFICES ASSUME ExporterInv, NEW s \in Scrapes,
                       pc[s] = "range", ranged[s] = {}, listed[s] = {}
                PROVE  /\ serviceGauges[s] = Registered
                       /\ backendGauges[s] =
                             UNION {{v} \X BackendsOf(services[v]) : v \in Registered}
    BY DEF ScrapeComplete
  <2>. USE DEF ExporterInv
  <2>1. serviceGauges[s] = Registered
    BY DEF ServicesShown
  <2>2. \A v \in VsIDs, r \in RsIDs :
          <<v, r>> \in backendGauges[s] <=> v \in Registered /\ r \in BackendsOf(services[v])
    BY <2>1 DEF BackendsShown, Shown, Listing
  <2>3. backendGauges[s] \subseteq VsIDs \X RsIDs
    BY DEF ExporterTypeOK
  <2>4. \A v \in Registered : v \in VsIDs /\ BackendsOf(services[v]) \subseteq RsIDs
    BY DEF Registered, BackendsOf, Backends
  <2>. QED
    BY <2>1, <2>2, <2>3, <2>4
<1>. QED
  BY <1>1, ExporterInvariant, PTL

-----------------------------------------------------------------------------

\* Next to scrapes Context does what it does without them: every step of ExporterSpec is
\* an operation, or leaves registry, kernel and store as they are. So what ContextProofs
\* and ReliableProofs show of Spec is so of ExporterSpec.
THEOREM ScrapesOnlyRead == ExporterSpec => Spec
<1>1. ExporterInit => Init
  BY DEF ExporterInit
<1>2. [ExporterNext]_exporterVars => [Next]_ctxVars
  <2>. SUFFICES ASSUME [ExporterNext]_exporterVars PROVE Next \/ UNCHANGED ctxVars
    OBVIOUS
  <2>1. ASSUME NEW w \in Writers, Lock(w) \/ Operate(w) PROVE Next \/ UNCHANGED ctxVars
    BY <2>1 DEF Lock, Operate
  <2>2. ASSUME NEW s \in Scrapes,
               \/ Collect(s) \/ Range(s) \/ Get(s)
               \/ GetService(s) \/ GetBackend(s) \/ Return(s)
        PROVE  UNCHANGED ctxVars
    BY <2>2 DEF Collect, Range, Get, GetService, GetBackend, Return
  <2>3. CASE UNCHANGED exporterVars
    BY <2>3 DEF exporterVars
  <2>. QED
    BY <2>1, <2>2, <2>3 DEF ExporterNext
<1>. QED
  BY <1>1, <1>2, PTL DEF ExporterSpec, Spec

\* Where the kernel does not refuse and services are not patched, the exporter leaves
\* no backend out. A PATCH alone makes this false: updateService stores a new struct, and
\* GetService does not list the backends that point to the old one.
THEOREM CollectLeavesNoneOut ==
    ASSUME Reliable
    PROVE  ExporterSpec => []NoneLeftOut
<1>1. ScrapeComplete /\ ReliableInv => NoneLeftOut
  <2>. SUFFICES ASSUME ScrapeComplete, ReliableInv, NEW s \in Scrapes,
                       pc[s] = "range", ranged[s] = {}, listed[s] = {}, NEW r \in Backends
                PROVE  \E v \in Registered : <<v, r>> \in backendGauges[s]
    BY DEF NoneLeftOut
  <2>1. PICK v \in Registered : backends[r].service = services[v]
    BY DEF ReliableInv, BackendsServed
  <2>2. r \in BackendsOf(services[v])
    BY <2>1 DEF BackendsOf
  <2>. QED
    BY <2>2 DEF ScrapeComplete
<1>. QED
  BY <1>1, CollectComplete, ScrapesOnlyRead, ReliableInvariant, PTL
=============================================================================
