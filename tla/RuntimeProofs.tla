--------------------------- MODULE RuntimeProofs ---------------------------
(***************************************************************************)
(* Theorems about Runtime: health checks, the notification loop and the    *)
(* REST handlers together, for any number of backends and goroutines and   *)
(* any length of the record of results.                                    *)
(***************************************************************************)
EXTENDS ReliableProofs, Runtime, FiniteSetTheorems

-----------------------------------------------------------------------------
(* The operators *)

\* Metrics.Update keeps the record within its limit, and never leaves it empty.
LEMMA RememberType ==
    ASSUME NEW record \in Seq(Checks), Len(record) <= RecordLimit, NEW s \in Checks
    PROVE  /\ Remember(record, s) \in Seq(Checks)
           /\ 0 < Len(Remember(record, s)) /\ Len(Remember(record, s)) <= RecordLimit
<1>1. CASE Len(record) = RecordLimit
  <2>1. record # <<>>
    BY <1>1, RuntimeAssumption
  <2>2. Tail(record) \in Seq(Checks) /\ Len(Tail(record)) = Len(record) - 1
    BY <2>1
  <2>. QED
    BY <1>1, <2>2, RuntimeAssumption DEF Remember
<1>2. CASE Len(record) # RecordLimit
  BY <1>2, RuntimeAssumption DEF Remember
<1>. QED
  BY <1>1, <1>2

\* There are at most as many results that are Up as there are results.
LEMMA UpsBound ==
    ASSUME NEW record \in Seq(Checks)
    PROVE  Ups(record) \in Nat /\ Ups(record) <= Len(record)
<1>. DEFINE U == {i \in DOMAIN record : record[i] = "Up"}
<1>1. Len(record) \in Nat /\ U \in SUBSET (1 .. Len(record))
  OBVIOUS
<1>2. IsFiniteSet(1 .. Len(record)) /\ Cardinality(1 .. Len(record)) = Len(record)
  BY <1>1, FS_Interval
<1>3. IsFiniteSet(U) /\ Cardinality(U) <= Len(record)
  BY <1>1, <1>2, FS_Subset
<1>. QED
  BY <1>3, FS_CardinalityType DEF Ups

\* The copy of the metrics of a record that is not empty.
LEMMA MetricsOfType ==
    ASSUME NEW record \in Seq(Checks), 0 < Len(record), Len(record) <= RecordLimit
    PROVE  /\ MetricsOf(record) \in Metrics
           /\ MetricsOf(record).status \in Checks
           /\ 0 < MetricsOf(record).of /\ MetricsOf(record).up <= MetricsOf(record).of
<1>1. Ups(record) \in 0 .. RecordLimit /\ Len(record) \in 0 .. RecordLimit
  BY UpsBound, RuntimeAssumption
<1>2. record[Len(record)] \in Checks
  OBVIOUS
<1>3. MetricsOf(record) \in Metrics
  BY <1>1, <1>2 DEF MetricsOf, Metrics
<1>. QED
  BY <1>2, <1>3, UpsBound DEF MetricsOf

LEMMA NoMetricsType == NoMetrics \in Metrics
  BY RuntimeAssumption DEF NoMetrics, Metrics, Checks

\* The weight that follows a backend's health is a weight, never more than the whole one.
LEMMA RelativeWeightBound ==
    ASSUME NEW w \in Nat, NEW m \in Metrics, 0 < m.of, m.up <= m.of,
           NEW x \in RelativeWeight(w, m)
    PROVE  x \in Nat /\ x <= w
<1>. DEFINE n == w * m.up
            exact == n \div m.of
<1>1. m.up \in Nat /\ m.of \in Nat
  BY RuntimeAssumption DEF Metrics
<1>2. n \in Nat /\ n <= w * m.of
  BY <1>1, SMT
<1>3. exact \in Nat /\ exact <= w
  BY <1>1, <1>2, SMT
<1>. QED
  BY <1>3 DEF RelativeWeight

\* A driver's check is Up or Down.
LEMMA CheckType ==
    ASSUME NEW d \in DOMAIN get, NEW a \in Answers
    PROVE  get[d][a] \in Checks
  BY DEF get, Answers, Checks, httpCheck, tcpCheck, noopCheck

-----------------------------------------------------------------------------
(* The inductive invariant *)

\* A goroutine that runs knows its backend; one that sends has something to send.
LoopsWellFormed ==
    \A q \in Pulses :
        /\ loop[q].pc # "off" => loop[q].id \in IDs
        /\ loop[q].pc = "send" => 0 < Len(loop[q].record)

\* The notification loop holds an update between receiving it and the end of
\* processPulseUpdate. One that is not the last of its Pulse has results in it.
RunnerWellFormed ==
    /\ runner.u = None <=> runner.pc \in {"select", "returned"}
    /\ runner.u # None /\ runner.u.metrics.status # "Removed" =>
          0 < runner.u.metrics.of /\ runner.u.metrics.up <= runner.u.metrics.of
    /\ runner.pc = "reweigh" => runner.u.metrics.status # "Removed"

\* The Pulse of such an update still runs: pulseCh is unbuffered, so its last update
\* waits until the notification loop is done with this one.
SenderRuns ==
    runner.u # None /\ runner.u.metrics.status # "Removed" =>
        \E q \in Pulses : loop[q].pc # "off" /\ loop[q].id = runner.u.source

RuntimeInv ==
    /\ TypeOK
    /\ RuntimeTypeOK
    /\ LoopsWellFormed
    /\ RunnerWellFormed
    /\ SenderRuns
    /\ MonitorRuns
    /\ StashReclaimed

LEMMA RuntimeInvInit == RuntimeInit => RuntimeInv
<1>. SUFFICES ASSUME RuntimeInit PROVE RuntimeInv
  OBVIOUS
<1>1. TypeOK
  BY DEF RuntimeInit, Init, TypeOK
<1>2. Off \in Loop /\ Off.pc = "off" /\ Off.record = <<>> /\ Len(<<>>) <= RecordLimit
  BY RuntimeAssumption DEF Off, Loop, get
<1>3. RuntimeTypeOK
  BY <1>2, NoMetricsType DEF RuntimeInit, RuntimeTypeOK, Runner, Idle
<1>4. LoopsWellFormed /\ RunnerWellFormed /\ SenderRuns
  BY <1>2 DEF RuntimeInit, LoopsWellFormed, RunnerWellFormed, SenderRuns, Idle
<1>5. MonitorRuns /\ StashReclaimed
  BY <1>2 DEF RuntimeInit, Init, MonitorRuns, StashReclaimed, Backends
<1>. QED
  BY <1>1, <1>3, <1>4, <1>5 DEF RuntimeInv

\* What the types say of one goroutine, and of the update in the hands of the loop.
LEMMA LoopType ==
    ASSUME RuntimeTypeOK, NEW q \in Pulses
    PROVE  /\ loop[q] \in Loop
           /\ loop[q].pc \in {"off", "wait", "send", "bye"}
           /\ loop[q].id \in IDs \cup {None}
           /\ loop[q].driver \in DOMAIN get
           /\ loop[q].record \in Seq(Checks)
           /\ Len(loop[q].record) <= RecordLimit
  BY DEF RuntimeTypeOK, Loop

LEMMA UpdateType ==
    ASSUME RuntimeTypeOK, RunnerWellFormed, runner.pc \in {"got", "reweigh"}
    PROVE  /\ runner.u \in Update /\ runner.u # None
           /\ runner.u.source \in IDs /\ runner.u.source[2] \in RsIDs
           /\ runner.u.metrics \in Metrics
<1>1. runner.u \in Update \cup {None} /\ runner.u # None
  BY DEF RuntimeTypeOK, RunnerWellFormed, Runner
<1>. QED
  BY <1>1 DEF Update, IDs

-----------------------------------------------------------------------------
(* Pulse.Loop *)

\* A step of goroutine q that leaves it running, under the same name.
LEMMA LoopStep ==
    ASSUME RuntimeInv, NEW q \in Pulses, NEW l \in Loop,
           loop[q].pc # "off", l.pc # "off", l.id = loop[q].id,
           Len(l.record) <= RecordLimit, l.pc = "send" => 0 < Len(l.record),
           l.pc \in {"wait", "send"} \/ q \in stopped,
           loop' = [loop EXCEPT ![q] = l],
           UNCHANGED <<ctxVars, runner, stash, metrics, closed, asked>>
    PROVE  RuntimeInv'
<1>. USE DEF RuntimeInv
<1>1. loop'[q] = l /\ \A x \in Pulses : x # q => loop'[x] = loop[x]
  BY DEF RuntimeTypeOK
<1>2. /\ UNCHANGED <<services, backends, stopped, virtuals, dests, addrs, catalog,
                     storedServices, storedBackends>>
      /\ UNCHANGED <<runner, stash, metrics, closed, asked>>
  BY DEF ctxVars, registry, kernel, stored
<1>3. TypeOK'
  BY <1>2 DEF TypeOK
<1>4. RuntimeTypeOK'
  BY <1>1, <1>2 DEF RuntimeTypeOK
<1>5. LoopsWellFormed'
  BY <1>1 DEF LoopsWellFormed
<1>6. RunnerWellFormed'
  BY <1>2 DEF RunnerWellFormed
<1>7. \A x \in Pulses : loop[x].pc # "off" => loop'[x].pc # "off" /\ loop'[x].id = loop[x].id
  BY <1>1
<1>8. SenderRuns' /\ StashReclaimed'
  BY <1>2, <1>7 DEF SenderRuns, StashReclaimed
<1>9. MonitorRuns'
  <2>1. ASSUME NEW r \in Backends, backends[r].monitor \notin stopped
        PROVE  /\ loop'[backends[r].monitor].pc \in {"wait", "send"}
               /\ loop'[backends[r].monitor].id[2] = r
    <3>1. backends[r].monitor \in Pulses
      BY BackendsType DEF Backend
    <3>. QED
      BY <1>1, <2>1, <3>1 DEF MonitorRuns
  <2>2. \A x \in Pulses : loop'[x].pc # "off" => loop[x].pc # "off"
    BY <1>1
  <2>. QED
    BY <1>2, <2>1, <2>2 DEF MonitorRuns, Backends
<1>. QED
  BY <1>3, <1>4, <1>5, <1>6, <1>8, <1>9

LEMMA TickInv ==
    ASSUME RuntimeInv, NEW q \in Pulses, NEW s \in Checks, Tick(q, s)
    PROVE  RuntimeInv'
<1>. DEFINE sends  == [loop[q] EXCEPT !.pc = "send"]
            record == Remember(loop[q].record, s)
            l      == [sends EXCEPT !.record = record]
<1>1. /\ loop[q].pc = "wait"
      /\ UNCHANGED <<ctxVars, runner, stash, metrics, closed, asked>>
  BY DEF Tick
<1>2. loop' = [loop EXCEPT ![q] = l]
  BY DEF Tick
<1>3. sends \in Loop /\ sends.pc = "send" /\ sends.id = loop[q].id
  BY LoopType DEF RuntimeInv, Loop
<1>4. record \in Seq(Checks) /\ 0 < Len(record) /\ Len(record) <= RecordLimit
  BY LoopType, RememberType DEF RuntimeInv
<1>. HIDE DEF sends, record
<1>5. l \in Loop /\ l.pc = "send" /\ l.id = loop[q].id /\ l.record = record
  BY <1>3, <1>4 DEF Loop
<1>. HIDE DEF l
<1>. QED
  BY <1>1, <1>2, <1>4, <1>5, LoopStep

\* A goroutine that moves on without a new result.
LEMMA MoveInv ==
    ASSUME RuntimeInv, NEW q \in Pulses, NEW pc \in {"wait", "bye"},
           loop[q].pc # "off", pc = "wait" \/ q \in stopped,
           loop' = [loop EXCEPT ![q].pc = pc],
           UNCHANGED <<ctxVars, runner, stash, metrics, closed, asked>>
    PROVE  RuntimeInv'
<1>. DEFINE l == [loop[q] EXCEPT !.pc = pc]
<1>1. l \in Loop /\ l.pc = pc /\ l.id = loop[q].id /\ l.record = loop[q].record
  BY LoopType DEF RuntimeInv, Loop
<1>2. loop' = [loop EXCEPT ![q] = l]
  OBVIOUS
<1>3. Len(loop[q].record) <= RecordLimit
  BY LoopType DEF RuntimeInv
<1>. HIDE DEF l
<1>. QED
  BY <1>1, <1>2, <1>3, LoopStep

\* What Deliver hands over: the last update, or a result with something in it.
LEMMA OfferType ==
    ASSUME RuntimeInv, NEW q \in Pulses, loop[q].pc \in {"send", "bye"}
    PROVE  /\ Offer(q) \in Update /\ Offer(q).source = loop[q].id
           /\ Offer(q).metrics.status = "Removed" <=> loop[q].pc = "bye"
           /\ loop[q].pc = "send" =>
                 0 < Offer(q).metrics.of /\ Offer(q).metrics.up <= Offer(q).metrics.of
<1>. DEFINE bye == [status |-> "Removed", up |-> 0, of |-> 0]
            m   == MetricsOf(loop[q].record)
<1>1. loop[q].id \in IDs
  BY DEF RuntimeInv, LoopsWellFormed
<1>2. CASE loop[q].pc = "bye"
  <2>1. bye \in Metrics
    BY RuntimeAssumption DEF Metrics
  <2>2. Offer(q) = [source |-> loop[q].id, metrics |-> bye]
    BY <1>2 DEF Offer
  <2>. QED
    BY <1>1, <1>2, <2>1, <2>2 DEF Update
<1>3. CASE loop[q].pc = "send"
  <2>1. m \in Metrics /\ m.status \in Checks /\ 0 < m.of /\ m.up <= m.of
    BY <1>3, LoopType, MetricsOfType DEF RuntimeInv, LoopsWellFormed
  <2>2. Offer(q) = [source |-> loop[q].id, metrics |-> m]
    BY <1>3 DEF Offer
  <2>. HIDE DEF m
  <2>. QED
    BY <1>1, <1>3, <2>1, <2>2 DEF Update, Checks
<1>. QED
  BY <1>2, <1>3

LEMMA DeliverInv ==
    ASSUME RuntimeInv, NEW q \in Pulses, Deliver(q)
    PROVE  RuntimeInv'
<1>. USE DEF RuntimeInv
<1>. DEFINE l == IF loop[q].pc = "bye" THEN Off ELSE [loop[q] EXCEPT !.pc = "wait"]
<1>1. /\ loop[q].pc \in {"send", "bye"} /\ runner.pc = "select"
      /\ runner' = [pc |-> "got", u |-> Offer(q)]
      /\ UNCHANGED <<ctxVars, stash, metrics, closed, asked>>
  BY DEF Deliver
<1>2. loop' = [loop EXCEPT ![q] = l]
  BY DEF Deliver
<1>3. /\ l \in Loop /\ Len(l.record) <= RecordLimit /\ l.pc # "send"
      /\ loop[q].pc = "bye" => l.pc = "off"
      /\ loop[q].pc = "send" => l.pc = "wait" /\ l.id = loop[q].id
  <2>1. CASE loop[q].pc = "bye"
    BY <2>1, RuntimeAssumption DEF Off, Loop, get
  <2>2. CASE loop[q].pc = "send"
    BY <2>2, LoopType DEF Loop
  <2>. QED
    BY <1>1, <2>1, <2>2
<1>. HIDE DEF l
<1>4. loop'[q] = l /\ \A x \in Pulses : x # q => loop'[x] = loop[x]
  BY <1>2 DEF RuntimeTypeOK
<1>5. /\ UNCHANGED <<services, backends, stopped, virtuals, dests, addrs, catalog,
                     storedServices, storedBackends>>
      /\ UNCHANGED <<stash, metrics, closed, asked>>
  BY <1>1 DEF ctxVars, registry, kernel, stored
<1>6. runner'.pc = "got" /\ runner'.u = Offer(q) /\ runner'.u # None
  BY <1>1, OfferType, RuntimeAssumption
<1>7. TypeOK'
  BY <1>5 DEF TypeOK
<1>8. RuntimeTypeOK'
  <2>1. runner' \in Runner
    BY <1>1, OfferType DEF Runner
  <2>. QED
    BY <1>3, <1>4, <1>5, <1>2, <2>1 DEF RuntimeTypeOK
<1>9. LoopsWellFormed'
  BY <1>1, <1>3, <1>4 DEF LoopsWellFormed
<1>10. RunnerWellFormed'
  BY <1>1, <1>6, OfferType DEF RunnerWellFormed
<1>11. SenderRuns'
  BY <1>1, <1>3, <1>4, <1>6, OfferType DEF SenderRuns
<1>12. StashReclaimed'
  <2>. SUFFICES ASSUME NEW id \in IDs, stash[id] # None
                PROVE  \/ \E x \in Pulses : loop'[x].pc # "off" /\ loop'[x].id = id
                       \/ runner'.u # None /\ runner'.u.source = id
                             /\ runner'.u.metrics.status = "Removed"
    BY <1>5 DEF StashReclaimed
  <2>1. PICK x \in Pulses : loop[x].pc # "off" /\ loop[x].id = id
    BY <1>1 DEF StashReclaimed, RunnerWellFormed
  <2>2. CASE x # q \/ loop[q].pc = "send"
    BY <1>3, <1>4, <2>1, <2>2
  <2>3. CASE x = q /\ loop[q].pc = "bye"
    BY <1>6, <2>1, <2>3, OfferType
  <2>. QED
    BY <1>1, <2>2, <2>3
<1>13. MonitorRuns'
  <2>1. ASSUME NEW r \in Backends, backends[r].monitor \notin stopped
        PROVE  /\ loop'[backends[r].monitor].pc \in {"wait", "send"}
               /\ loop'[backends[r].monitor].id[2] = r
    <3>1. backends[r].monitor \in Pulses
      BY BackendsType DEF Backend
    <3>2. /\ loop[backends[r].monitor].pc \in {"wait", "send"}
          /\ loop[backends[r].monitor].id[2] = r
      BY <2>1 DEF MonitorRuns
    <3>. QED
      BY <1>1, <1>3, <1>4, <3>1, <3>2
  <2>2. \A x \in Pulses : loop'[x].pc # "off" => loop[x].pc # "off"
    BY <1>1, <1>4
  <2>. QED
    BY <1>5, <2>1, <2>2 DEF MonitorRuns, Backends
<1>. QED
  BY <1>7, <1>8, <1>9, <1>10, <1>11, <1>12, <1>13

-----------------------------------------------------------------------------
(* The notification loop *)

LEMMA ExamineInv ==
    ASSUME RuntimeInv, Examine
    PROVE  RuntimeInv'
<1>. USE DEF RuntimeInv
<1>. DEFINE u == runner.u
            r == u.source[2]
<1>1. runner.pc = "got" /\ UNCHANGED <<ctxVars, loop, closed, asked>>
  BY DEF Examine
<1>2. u \in Update /\ u # None /\ u.source \in IDs /\ r \in RsIDs /\ u.metrics \in Metrics
  BY <1>1, UpdateType
<1>3. /\ UNCHANGED <<services, backends, stopped, virtuals, dests, addrs, catalog,
                     storedServices, storedBackends>>
      /\ UNCHANGED <<loop, closed, asked>>
  BY <1>1 DEF ctxVars, registry, kernel, stored
<1>4. TypeOK' /\ LoopsWellFormed' /\ MonitorRuns'
  BY <1>3 DEF TypeOK, LoopsWellFormed, MonitorRuns, Backends
<1>5. CASE backends[r] = None \/ u.metrics.status = "Removed"
  <2>1. stash' = [stash EXCEPT ![u.source] = None] /\ runner' = Idle /\ metrics' = metrics
    BY <1>5 DEF Examine
  <2>2. runner' \in Runner /\ runner'.pc = "select" /\ runner'.u = None
    BY <2>1 DEF Runner, Idle
  <2>3. stash'[u.source] = None /\ \A id \in IDs : id # u.source => stash'[id] = stash[id]
    BY <1>2, <2>1 DEF RuntimeTypeOK
  <2>4. RuntimeTypeOK'
    BY <1>3, <2>1, <2>2 DEF RuntimeTypeOK
  <2>5. RunnerWellFormed' /\ SenderRuns'
    BY <2>2 DEF RunnerWellFormed, SenderRuns
  <2>6. StashReclaimed'
    BY <1>3, <2>3 DEF StashReclaimed
  <2>. QED
    BY <1>4, <2>4, <2>5, <2>6
<1>6. CASE backends[r] # None /\ u.metrics.status # "Removed"
  <2>1. /\ metrics' = [metrics EXCEPT ![r] = u.metrics]
        /\ runner' = [runner EXCEPT !.pc = "reweigh"]
        /\ stash' = stash
    BY <1>6 DEF Examine
  <2>2. runner' \in Runner /\ runner'.pc = "reweigh" /\ runner'.u = u
    BY <2>1 DEF RuntimeTypeOK, Runner
  <2>3. RuntimeTypeOK'
    BY <1>2, <1>3, <2>1, <2>2 DEF RuntimeTypeOK
  <2>4. RunnerWellFormed' /\ SenderRuns'
    BY <1>2, <1>3, <1>6, <2>2 DEF RunnerWellFormed, SenderRuns
  <2>5. StashReclaimed'
    BY <1>3, <2>1, <2>2 DEF StashReclaimed
  <2>. QED
    BY <1>4, <2>3, <2>4, <2>5
<1>. QED
  BY <1>5, <1>6

\* A change of weight leaves every backend its pulse.
LEMMA WeightStep ==
    ASSUME RuntimeInv, NEW r \in RsIDs, NEW w \in Nat, NEW down, UpdateBackend(r, w, down),
           loop' = loop
    PROVE  TypeOK' /\ LoopsWellFormed' /\ MonitorRuns'
<1>. USE DEF RuntimeInv
<1>1. TypeOK'
  BY UpdateBackendType
<1>2. /\ stopped' = stopped /\ Backends' = Backends
      /\ \A x \in Backends : backends'[x].monitor = backends[x].monitor
  <2>1. /\ stopped' = stopped /\ r \in Backends
        /\ backends'[r] \in Backend /\ backends'[r].monitor = backends[r].monitor
        /\ \A x \in RsIDs : x # r => backends'[x] = backends[x]
    BY UpdateBackendEffect
  <2>2. backends'[r] # None
    BY <2>1, NoneAssumption
  <2>. QED
    BY <2>1, <2>2 DEF Backends
<1>3. LoopsWellFormed' /\ MonitorRuns'
  BY <1>2 DEF LoopsWellFormed, MonitorRuns
<1>. QED
  BY <1>1, <1>3

\* What Reweigh does to weights and stash.
LEMMA ReweighEffect ==
    ASSUME RuntimeInv, NEW down \in Outages, runner.pc = "reweigh",
           Unstash(runner.u, down) \/ Stash(runner.u, down) \/ NothingToDo(runner.u, down)
    PROVE  /\ \/ UNCHANGED ctxVars
              \/ \E w \in Nat : UpdateBackend(runner.u.source[2], w, down)
           /\ stash' \in [IDs -> Nat \cup {None}]
           /\ \A id \in IDs : id # runner.u.source => stash'[id] = stash[id]
<1>. USE DEF RuntimeInv
<1>. DEFINE u == runner.u
            r == u.source[2]
<1>1. /\ u.source \in IDs /\ r \in RsIDs /\ u.metrics \in Metrics
      /\ 0 < u.metrics.of /\ u.metrics.up <= u.metrics.of
  BY UpdateType DEF RunnerWellFormed
<1>2. CASE Unstash(u, down)
  <2>1. PICK w \in RelativeWeight(stash[u.source], u.metrics) :
           /\ UpdateBackend(r, w, down)
           /\ stash' = IF w = stash[u.source] THEN [stash EXCEPT ![u.source] = None] ELSE stash
    BY <1>2 DEF Unstash
  <2>2. stash[u.source] \in Nat
    BY <1>1, <1>2 DEF Unstash, RuntimeTypeOK
  <2>3. w \in Nat
    BY <1>1, <2>2, RelativeWeightBound
  <2>. QED
    BY <1>1, <2>1, <2>3 DEF RuntimeTypeOK
<1>3. CASE Stash(u, down)
  <2>1. UpdateBackend(r, 0, down) /\ stash' = [stash EXCEPT ![u.source] = backends[r].weight]
    BY <1>3 DEF Stash
  <2>2. backends[r].weight \in Nat
    BY <1>1, <2>1, UpdateBackendEffect, BackendsType
  <2>. QED
    BY <1>1, <2>1, <2>2 DEF RuntimeTypeOK
<1>4. CASE NothingToDo(u, down)
  BY <1>4 DEF NothingToDo, RuntimeTypeOK
<1>. QED
  BY <1>2, <1>3, <1>4

LEMMA ReweighInv ==
    ASSUME RuntimeInv, Reweigh
    PROVE  RuntimeInv'
<1>. USE DEF RuntimeInv
<1>. DEFINE u == runner.u
            r == u.source[2]
<1>1. PICK down \in Outages :
         /\ runner.pc = "reweigh"
         /\ Unstash(u, down) \/ Stash(u, down) \/ NothingToDo(u, down)
         /\ runner' = Idle
         /\ UNCHANGED <<loop, metrics, closed, asked>>
  BY DEF Reweigh
<1>2. u # None /\ u.source \in IDs /\ r \in RsIDs /\ u.metrics.status # "Removed"
  BY <1>1, UpdateType DEF RunnerWellFormed
<1>3. /\ UNCHANGED ctxVars \/ \E w \in Nat : UpdateBackend(r, w, down)
      /\ stash' \in [IDs -> Nat \cup {None}]
      /\ \A id \in IDs : id # u.source => stash'[id] = stash[id]
  BY <1>1, ReweighEffect
<1>4. TypeOK' /\ LoopsWellFormed' /\ MonitorRuns'
  <2>1. CASE UNCHANGED ctxVars
    BY <1>1, <2>1
    DEF ctxVars, registry, kernel, stored, TypeOK, LoopsWellFormed, MonitorRuns, Backends
  <2>2. CASE \E w \in Nat : UpdateBackend(r, w, down)
    BY <1>1, <1>2, <2>2, WeightStep
  <2>. QED
    BY <1>3, <2>1, <2>2
<1>5. runner' \in Runner /\ runner'.pc = "select" /\ runner'.u = None
  BY <1>1 DEF Runner, Idle
<1>6. RuntimeTypeOK'
  BY <1>1, <1>3, <1>5 DEF RuntimeTypeOK
<1>7. RunnerWellFormed' /\ SenderRuns'
  BY <1>5 DEF RunnerWellFormed, SenderRuns
<1>8. StashReclaimed'
  <2>. SUFFICES ASSUME NEW id \in IDs, stash'[id] # None
                PROVE  \E q \in Pulses : loop[q].pc # "off" /\ loop[q].id = id
    BY <1>1 DEF StashReclaimed
  <2>1. CASE id = u.source
    BY <1>2, <2>1 DEF SenderRuns
  <2>2. CASE id # u.source
    BY <1>2, <1>3, <2>2 DEF StashReclaimed
  <2>. QED
    BY <2>1, <2>2
<1>. QED
  BY <1>4, <1>6, <1>7, <1>8

LEMMA RunnerReturnsInv ==
    ASSUME RuntimeInv, RunnerReturns
    PROVE  RuntimeInv'
<1>. USE DEF RuntimeInv
<1>1. /\ runner.pc = "select" /\ runner' = [pc |-> "returned", u |-> None]
      /\ UNCHANGED <<ctxVars, loop, stash, metrics, closed, asked>>
  BY DEF RunnerReturns
<1>2. TypeOK' /\ LoopsWellFormed' /\ MonitorRuns'
  BY <1>1 DEF ctxVars, registry, kernel, stored, TypeOK, LoopsWellFormed, MonitorRuns, Backends
<1>3. runner' \in Runner /\ runner'.pc = "returned" /\ runner'.u = None
  BY <1>1 DEF Runner
<1>4. RuntimeTypeOK'
  BY <1>1, <1>3 DEF RuntimeTypeOK
<1>5. RunnerWellFormed' /\ SenderRuns'
  BY <1>3 DEF RunnerWellFormed, SenderRuns
<1>6. StashReclaimed'
  BY <1>1, <1>3 DEF StashReclaimed, RunnerWellFormed
<1>. QED
  BY <1>2, <1>4, <1>5, <1>6

-----------------------------------------------------------------------------
(* The operations of Context *)

LEMMA StartBackendInv ==
    ASSUME RuntimeInv, StartBackend
    PROVE  RuntimeInv'
<1>. USE DEF RuntimeInv
<1>1. PICK v \in VsIDs, r \in RsIDs, o \in BackendRequests, q \in FreePulses, down \in Outages :
         /\ loop[q].pc = "off"
         /\ CreateBackend(v, r, o, q, down)
         /\ IF backends'[r] # None
              THEN /\ loop' = [loop EXCEPT ![q] =
                                 [pc |-> "wait", id |-> <<v, r>>,
                                  driver |-> backends'[r].opts.Pulse.Type, record |-> <<>>]]
                   /\ metrics' = [metrics EXCEPT ![r] = NoMetrics]
                   /\ asked' = [asked EXCEPT ![r] = backends'[r].weight]
              ELSE UNCHANGED <<loop, metrics, asked>>
         /\ UNCHANGED <<runner, stash, closed>>
  BY DEF StartBackend
<1>2. q \in Pulses /\ o \in BackendInputs /\ \A x \in Backends : backends[x].monitor # q
  BY DEF FreePulses, BackendInputs
<1>3. TypeOK'
  BY <1>1, <1>2, CreateBackendType
<1>4. backends[r] = None
  BY <1>1, <1>2, CreateBackendEffect
<1>5. RunnerWellFormed'
  BY <1>1 DEF RunnerWellFormed
<1>6. CASE UNCHANGED <<backends, stopped, dests>>
  <2>1. UNCHANGED <<loop, metrics, asked>>
    BY <1>1, <1>4, <1>6
  <2>2. RuntimeTypeOK' /\ LoopsWellFormed'
    BY <1>1, <2>1 DEF RuntimeTypeOK, LoopsWellFormed
  <2>3. SenderRuns' /\ MonitorRuns' /\ StashReclaimed'
    BY <1>1, <1>6, <2>1 DEF SenderRuns, MonitorRuns, StashReclaimed, Backends
  <2>. QED
    BY <1>3, <1>5, <2>2, <2>3
<1>7. CASE ~UNCHANGED <<backends, stopped, dests>>
  <2>. DEFINE b == backends'[r]
              l == [pc |-> "wait", id |-> <<v, r>>, driver |-> b.opts.Pulse.Type, record |-> <<>>]
  <2>1. /\ b \in Backend /\ b.opts = FillBackend(o) /\ b.weight = FillBackend(o).Weight
        /\ b.monitor = q
        /\ \A s \in RsIDs : s # r => backends'[s] = backends[s]
        /\ stopped' = stopped \ {q}
    BY <1>1, <1>2, <1>7, CreateBackendEffect
  <2>2. b # None
    BY <2>1, NoneAssumption
  <2>3. /\ loop' = [loop EXCEPT ![q] = l]
        /\ metrics' = [metrics EXCEPT ![r] = NoMetrics]
        /\ asked' = [asked EXCEPT ![r] = b.weight]
        /\ UNCHANGED <<runner, stash, closed>>
    BY <1>1, <2>2
  <2>4. BackendValid(o)
    BY <1>1 DEF CreateBackend
  <2>5. /\ b.opts.Pulse.Type \in DOMAIN get
        /\ b.weight \in Nat
    BY <1>2, <2>1, <2>4, BackendFill DEF get
  <2>6. /\ l \in Loop /\ l.pc = "wait" /\ l.id = <<v, r>> /\ l.id \in IDs
        /\ Len(l.record) <= RecordLimit
    BY <2>5, RuntimeAssumption DEF Loop, IDs
  <2>. HIDE DEF l, b
  <2>7. loop'[q] = l /\ \A x \in Pulses : x # q => loop'[x] = loop[x]
    BY <1>2, <2>3 DEF RuntimeTypeOK
  <2>8. RuntimeTypeOK'
    BY <1>2, <2>3, <2>5, <2>6, <2>7, NoMetricsType DEF RuntimeTypeOK
  <2>9. LoopsWellFormed'
    BY <2>6, <2>7 DEF LoopsWellFormed
  <2>10. \A x \in Pulses : loop[x].pc # "off" => loop'[x] = loop[x]
    BY <1>1, <2>7
  <2>11. SenderRuns' /\ StashReclaimed'
    BY <2>3, <2>10 DEF SenderRuns, StashReclaimed
  <2>12. \A s \in Backends' : \/ s = r /\ backends'[s] = b
                              \/ s \in Backends /\ backends'[s] = backends[s]
    BY <2>1 DEF Backends, b
  <2>13. /\ r \in Backends' /\ backends'[r] = b
         /\ \A s \in Backends : s \in Backends' /\ backends'[s] = backends[s]
    BY <1>4, <2>1, <2>2 DEF Backends, b
  <2>14. MonitorRuns'
    <3>1. ASSUME NEW s \in Backends', backends'[s].monitor \notin stopped'
          PROVE  /\ loop'[backends'[s].monitor].pc \in {"wait", "send"}
                 /\ loop'[backends'[s].monitor].id[2] = s
      <4>1. CASE s = r /\ backends'[s] = b
        BY <2>1, <2>6, <2>7, <4>1
      <4>2. CASE s \in Backends /\ backends'[s] = backends[s]
        <5>1. backends[s].monitor \in Pulses /\ backends[s].monitor # q
          BY <1>2, <4>2, BackendsType DEF Backend
        <5>. QED
          BY <2>1, <2>7, <3>1, <4>2, <5>1 DEF MonitorRuns
      <4>. QED
        BY <2>12, <4>1, <4>2
    <3>2. ASSUME NEW x \in Pulses, loop'[x].pc # "off", x \notin stopped'
          PROVE  \E s \in Backends' : backends'[s].monitor = x
      <4>1. CASE x = q
        BY <2>1, <2>13, <4>1
      <4>2. CASE x # q
        BY <2>1, <2>7, <2>13, <3>2, <4>2 DEF MonitorRuns
      <4>. QED
        BY <4>1, <4>2
    <3>. QED
      BY <3>1, <3>2 DEF MonitorRuns
  <2>. QED
    BY <1>3, <1>5, <2>8, <2>9, <2>11, <2>14
<1>. QED
  BY <1>6, <1>7

LEMMA PatchBackendInv ==
    ASSUME RuntimeInv, PatchBackend
    PROVE  RuntimeInv'
<1>. USE DEF RuntimeInv
<1>1. PICK r \in RsIDs, w \in WeightPatches, down \in Outages :
         /\ UpdateBackend(r, w, down)
         /\ asked' = [asked EXCEPT ![r] = w]
         /\ UNCHANGED <<loop, runner, stash, metrics, closed>>
  BY DEF PatchBackend
<1>2. w \in Nat
  BY RequestAssumption
<1>3. TypeOK' /\ LoopsWellFormed' /\ MonitorRuns'
  BY <1>1, <1>2, WeightStep
<1>4. RuntimeTypeOK' /\ RunnerWellFormed' /\ SenderRuns' /\ StashReclaimed'
  BY <1>1, <1>2 DEF RuntimeTypeOK, RunnerWellFormed, SenderRuns, StashReclaimed
<1>. QED
  BY <1>3, <1>4

\* What the other handlers do to backends: some may go, and their pulses are stopped;
\* no pulse is started.
LEMMA OtherHandlersEffect ==
    ASSUME TypeOK, \/ ServiceCreateHandler \/ ServiceUpdateHandler
                   \/ ServiceRemoveHandler \/ BackendRemoveHandler
    PROVE  /\ \A r \in Backends' : r \in Backends /\ backends'[r] = backends[r]
           /\ stopped \subseteq stopped'
           /\ \A r \in Backends : r \in Backends' \/ backends[r].monitor \in stopped'
<1>0. ASSUME UNCHANGED <<backends, stopped>>
      PROVE  /\ \A r \in Backends' : r \in Backends /\ backends'[r] = backends[r]
             /\ stopped \subseteq stopped'
             /\ \A r \in Backends : r \in Backends' \/ backends[r].monitor \in stopped'
  BY <1>0 DEF Backends
<1>1. CASE ServiceCreateHandler
  BY <1>0, <1>1 DEF ServiceCreateHandler, CreateService
<1>2. CASE ServiceUpdateHandler
  <2>1. PICK v \in VsIDs, o \in ServicePatches, p \in FreePtrs, down \in Outages :
           UpdateService(v, o, p, down)
    BY <1>2 DEF ServiceUpdateHandler
  <2>2. CASE CreateService(v, o, p, down)
    BY <1>0, <2>2 DEF CreateService
  <2>3. CASE ~CreateService(v, o, p, down)
    BY <1>0, <2>1, <2>3 DEF UpdateService
  <2>. QED
    BY <2>2, <2>3
<1>3. CASE ServiceRemoveHandler
  <2>1. PICK v \in VsIDs, down \in Outages : RemoveService(v, down)
    BY <1>3 DEF ServiceRemoveHandler
  <2>2. UNCHANGED <<backends, stopped>> \/ \E ids \in SUBSET Backends : CleanUp(ids, down)
    BY <2>1 DEF RemoveService, BackendsOf
  <2>3. ASSUME NEW ids \in SUBSET Backends, CleanUp(ids, down)
        PROVE  /\ \A r \in Backends' : r \in Backends /\ backends'[r] = backends[r]
               /\ stopped \subseteq stopped'
               /\ \A r \in Backends : r \in Backends' \/ backends[r].monitor \in stopped'
    BY <2>3 DEF CleanUp, Backends
  <2>. QED
    BY <1>0, <2>2, <2>3
<1>4. CASE BackendRemoveHandler
  <2>1. PICK r \in RsIDs, down \in Outages : RemoveBackend(r, down)
    BY <1>4 DEF BackendRemoveHandler
  <2>2. \/ UNCHANGED <<backends, stopped>>
        \/ /\ stopped' = stopped \cup {backends[r].monitor}
           /\ backends' = backends \/ backends' = [backends EXCEPT ![r] = None]
    BY <2>1 DEF RemoveBackend
  <2>. QED
    BY <1>0, <2>2 DEF Backends, TypeOK
<1>. QED
  BY <1>1, <1>2, <1>3, <1>4

LEMMA OtherHandlersInv ==
    ASSUME RuntimeInv, OtherHandlers
    PROVE  RuntimeInv'
<1>. USE DEF RuntimeInv
<1>1. /\ \/ ServiceCreateHandler \/ ServiceUpdateHandler
         \/ ServiceRemoveHandler \/ BackendRemoveHandler
      /\ metrics' = [r \in RsIDs |-> IF backends'[r] = None THEN NoMetrics ELSE metrics[r]]
      /\ UNCHANGED <<loop, runner, stash, closed, asked>>
  BY DEF OtherHandlers
<1>2. TypeOK'
  BY <1>1, HandlersOperate, TypeInductive DEF Next
<1>3. /\ \A r \in Backends' : r \in Backends /\ backends'[r] = backends[r]
      /\ stopped \subseteq stopped'
      /\ \A r \in Backends : r \in Backends' \/ backends[r].monitor \in stopped'
  BY <1>1, OtherHandlersEffect
<1>4. RuntimeTypeOK'
  BY <1>1, NoMetricsType DEF RuntimeTypeOK
<1>5. LoopsWellFormed' /\ RunnerWellFormed' /\ SenderRuns' /\ StashReclaimed'
  BY <1>1 DEF LoopsWellFormed, RunnerWellFormed, SenderRuns, StashReclaimed
<1>6. MonitorRuns'
  BY <1>1, <1>3 DEF MonitorRuns
<1>. QED
  BY <1>2, <1>4, <1>5, <1>6

-----------------------------------------------------------------------------
(* The invariant is inductive *)

LEMMA RuntimeInductive == RuntimeInv /\ [RuntimeNext]_vars => RuntimeInv'
<1>. SUFFICES ASSUME RuntimeInv, [RuntimeNext]_vars PROVE RuntimeInv'
  OBVIOUS
<1>1. ASSUME NEW q \in Pulses, Check(q) PROVE RuntimeInv'
  <2>1. loop[q].driver \in DOMAIN get
    BY LoopType DEF RuntimeInv
  <2>. QED
    BY <1>1, <2>1, CheckType, TickInv DEF Check
<1>2. ASSUME NEW q \in Pulses, ConsumerStopped(q) PROVE RuntimeInv'
  BY <1>2, MoveInv DEF ConsumerStopped
<1>3. ASSUME NEW q \in Pulses, StopSeen(q) PROVE RuntimeInv'
  BY <1>3, MoveInv DEF StopSeen
<1>4. ASSUME NEW q \in Pulses, Deliver(q) PROVE RuntimeInv'
  BY <1>4, DeliverInv
<1>5. CASE Examine
  BY <1>5, ExamineInv
<1>6. CASE Reweigh
  BY <1>6, ReweighInv
<1>7. CASE RunnerReturns
  BY <1>7, RunnerReturnsInv
<1>8. CASE StartBackend
  BY <1>8, StartBackendInv
<1>9. CASE PatchBackend
  BY <1>9, PatchBackendInv
<1>10. CASE OtherHandlers
  BY <1>10, OtherHandlersInv
<1>11. ASSUME UNCHANGED <<ctxVars, loop, runner, stash, metrics, asked>>, closed' \in BOOLEAN
       PROVE  RuntimeInv'
  BY <1>11 DEF ctxVars, registry, kernel, stored, RuntimeInv, TypeOK, RuntimeTypeOK,
               LoopsWellFormed, RunnerWellFormed, SenderRuns, MonitorRuns, StashReclaimed, Backends
<1>12. CASE Close
  BY <1>11, <1>12 DEF Close
<1>13. CASE UNCHANGED vars
  BY <1>11, <1>13 DEF vars, rtVars, RuntimeInv, RuntimeTypeOK
<1>. QED
  BY <1>1, <1>2, <1>3, <1>4, <1>5, <1>6, <1>7, <1>8, <1>9, <1>10, <1>12, <1>13 DEF RuntimeNext

LEMMA RuntimeInvariant == RuntimeSpec => []RuntimeInv
  BY RuntimeInvInit, RuntimeInductive, PTL DEF RuntimeSpec

\* Records, updates, stash and metrics have the types of the code: a record never
\* outgrows its limit, and no metrics are computed of an empty record.
THEOREM RuntimeTypes == RuntimeSpec => []RuntimeTypeOK
<1>1. RuntimeInv => RuntimeTypeOK
  BY DEF RuntimeInv
<1>. QED
  BY <1>1, RuntimeInvariant, PTL

\* A registered backend whose pulse is not stopped is checked by a goroutine of its own
\* under its name, and a goroutine nobody stopped has a backend: whatever the kernel
\* refuses, and however fast names are used again.
THEOREM MonitorsRun == RuntimeSpec => []MonitorRuns
<1>1. RuntimeInv => MonitorRuns
  BY DEF RuntimeInv
<1>. QED
  BY <1>1, RuntimeInvariant, PTL

\* The stash of run() has no entry without a goroutine whose last update will clear it,
\* or that update itself: it does not grow with the backends that came and went.
THEOREM StashBounded == RuntimeSpec => []StashReclaimed
<1>1. RuntimeInv => StashReclaimed
  BY DEF RuntimeInv
<1>. QED
  BY <1>1, RuntimeInvariant, PTL

-----------------------------------------------------------------------------
(* The guarantees of Context hold with the notification loop at work. *)

\* A step of the system is an operation of Context, or leaves Context alone.
LEMMA RuntimeOperates == RuntimeInv /\ [RuntimeNext]_vars => [Operation]_ctxVars
<1>. SUFFICES ASSUME RuntimeInv, [RuntimeNext]_vars PROVE [Operation]_ctxVars
  OBVIOUS
<1>1. ASSUME NEW q \in Pulses, Check(q) \/ ConsumerStopped(q) \/ StopSeen(q) \/ Deliver(q)
      PROVE  UNCHANGED ctxVars
  BY <1>1 DEF Check, Tick, ConsumerStopped, StopSeen, Deliver
<1>2. CASE Examine \/ RunnerReturns \/ Close \/ UNCHANGED vars
  BY <1>2 DEF Examine, RunnerReturns, Close, vars
<1>3. CASE Reweigh
  <2>1. PICK down \in Outages :
           /\ runner.pc = "reweigh"
           /\ Unstash(runner.u, down) \/ Stash(runner.u, down) \/ NothingToDo(runner.u, down)
    BY <1>3 DEF Reweigh
  <2>2. runner.u.source[2] \in RsIDs
    BY <2>1, UpdateType DEF RuntimeInv
  <2>. QED
    BY <2>1, <2>2, ReweighEffect DEF Operation, AnyUpdateBackend
<1>4. CASE StartBackend
  BY <1>4 DEF StartBackend, Operation, AnyCreateBackend, BackendInputs
<1>5. CASE PatchBackend
  BY <1>5, RequestAssumption DEF PatchBackend, Operation, AnyUpdateBackend
<1>6. CASE OtherHandlers
  BY <1>6, HandlersOperate DEF OtherHandlers, Next
<1>. QED
  BY <1>1, <1>2, <1>3, <1>4, <1>5, <1>6 DEF RuntimeNext

\* Also while the notification loop sets weights of its own, the kernel has the virtual
\* services of ctx.services, and sends traffic only to destinations that ctx.backends
\* has with that weight.
THEOREM RuntimeKernelAgrees == RuntimeSpec => [](RegisteredInKernel /\ WeightsAccounted)
<1>1. Init => RegisteredInKernel /\ PtrsConsistent /\ WeightsAccounted
  BY DEF Init, RegisteredInKernel, PtrsConsistent, WeightsAccounted, Registered, Backends
<1>2. RuntimeInit => RegisteredInKernel /\ PtrsConsistent /\ WeightsAccounted
  BY <1>1 DEF RuntimeInit
<1>3. RuntimeInv => TypeOK
  BY DEF RuntimeInv
<1>. QED
  BY <1>2, <1>3, RuntimeInvariant, RuntimeOperates, KernelInductive, PtrsInductive,
     WeightsInductive, PTL DEF RuntimeSpec

-----------------------------------------------------------------------------
(* No weight is lost, if clients wait for a removed backend before they use its *)
(* name again and do not patch weights, and the kernel does not refuse: the     *)
(* conditions of the run rt_live. The context may be closed.                    *)

Patient == PatientClients /\ WeightPatches = {} /\ Reliable

\* One goroutine runs for one name: what an impatient client breaks.
OneLoop ==
    \A p, q \in Pulses :
        loop[p].pc # "off" /\ loop[q].pc # "off" /\ loop[p].id[2] = loop[q].id[2] => p = q

\* The last update of a Pulse arrives when its backend is gone.
Farewell ==
    runner.u # None /\ runner.u.metrics.status = "Removed" => backends[runner.u.source[2]] = None

\* What the switch of processPulseUpdate acts on is what was recorded under the mutex.
MetricsCurrent ==
    runner.pc = "reweigh" /\ backends[runner.u.source[2]] # None =>
        metrics[runner.u.source[2]] = runner.u.metrics

\* A backend that was reported Down is in the stash, or about to get there.
DownKept ==
    \A r \in Backends : metrics[r].status = "Down" =>
        \/ stash[loop[backends[r].monitor].id] # None
        \/ runner.pc = "reweigh" /\ runner.u.source[2] = r

\* Fill leaves no weight of zero, and nobody patches one.
AskedPositive == \A r \in Backends : asked[r] > 0

PatientPart ==
    /\ OneLoop /\ Farewell /\ MetricsCurrent
    /\ AskedPositive /\ WeightRemembered /\ DownKept

PatientInv == RuntimeInv /\ ReliableInv /\ PatientPart

\* The goroutine of a registered backend runs, under a name of that backend.
LEMMA MonitorType ==
    ASSUME PatientInv, NEW r \in Backends
    PROVE  /\ r \in RsIDs
           /\ backends[r].monitor \in Pulses
           /\ loop[backends[r].monitor].pc \in {"wait", "send"}
           /\ loop[backends[r].monitor].id \in IDs
           /\ loop[backends[r].monitor].id[2] = r
<1>. USE DEF PatientInv, RuntimeInv
<1>1. r \in RsIDs /\ backends[r].monitor \in Pulses
  BY BackendsType DEF Backend, Backends
<1>2. /\ loop[backends[r].monitor].pc \in {"wait", "send"}
      /\ loop[backends[r].monitor].id[2] = r
  BY DEF ReliableInv, PulsesAlive, MonitorRuns
<1>3. loop[backends[r].monitor].id \in IDs
  BY <1>1, <1>2 DEF LoopsWellFormed
<1>. QED
  BY <1>1, <1>2, <1>3

\* A step that changes no name, no weight, no stash, no metrics and not what the
\* notification loop is doing.
LEMMA QuietStep ==
    ASSUME PatientInv,
           UNCHANGED <<backends, runner, stash, metrics, asked>>,
           \A q \in Pulses : loop'[q].pc # "off" => loop[q].pc # "off" /\ loop'[q].id = loop[q].id,
           \A r \in Backends : loop'[backends[r].monitor].id = loop[backends[r].monitor].id
    PROVE  PatientPart'
<1>. USE DEF PatientInv, PatientPart
<1>1. OneLoop'
  BY DEF OneLoop
<1>2. Farewell' /\ MetricsCurrent'
  BY DEF Farewell, MetricsCurrent
<1>3. WeightRemembered' /\ DownKept'
  BY DEF WeightRemembered, DownKept, Backends
<1>4. AskedPositive'
  BY DEF AskedPositive, Backends
<1>. QED
  BY <1>1, <1>2, <1>3, <1>4

LEMMA LoopPatient ==
    ASSUME PatientInv, NEW q \in Pulses, Check(q) \/ ConsumerStopped(q) \/ StopSeen(q)
    PROVE  PatientPart'
<1>. USE DEF PatientInv, RuntimeInv
<1>1. loop[q].pc # "off" /\ UNCHANGED <<ctxVars, runner, stash, metrics, closed, asked>>
  BY DEF Check, Tick, ConsumerStopped, StopSeen
<1>2. loop'[q].id = loop[q].id /\ \A x \in Pulses : x # q => loop'[x] = loop[x]
  <2>1. CASE Check(q)
    <3>1. PICK s : loop' = [loop EXCEPT ![q] = [[loop[q] EXCEPT !.pc = "send"] EXCEPT !.record = s]]
      BY <2>1 DEF Check, Tick
    <3>. DEFINE l == [loop[q] EXCEPT !.pc = "send"]
    <3>2. l \in Loop /\ l.id = loop[q].id
      BY LoopType DEF Loop
    <3>3. loop' = [loop EXCEPT ![q] = [l EXCEPT !.record = s]]
      BY <3>1
    <3>. HIDE DEF l
    <3>4. [l EXCEPT !.record = s].id = loop[q].id
      BY <3>2 DEF Loop
    <3>. QED
      BY <3>3, <3>4 DEF RuntimeTypeOK
  <2>2. CASE ConsumerStopped(q) \/ StopSeen(q)
    <3>1. PICK pc : loop' = [loop EXCEPT ![q] = [loop[q] EXCEPT !.pc = pc]]
      BY <2>2 DEF ConsumerStopped, StopSeen
    <3>2. [loop[q] EXCEPT !.pc = pc].id = loop[q].id
      BY LoopType DEF Loop
    <3>. QED
      BY <3>1, <3>2 DEF RuntimeTypeOK
  <2>. QED
    BY <2>1, <2>2
<1>3. UNCHANGED <<backends, runner, stash, metrics, asked>>
  BY <1>1 DEF ctxVars, registry
<1>. QED
  BY <1>1, <1>2, <1>3, QuietStep, MonitorType

LEMMA DeliverPatient ==
    ASSUME PatientInv, NEW q \in Pulses, Deliver(q)
    PROVE  PatientPart'
<1>. USE DEF PatientInv, PatientPart, RuntimeInv
<1>. DEFINE l == IF loop[q].pc = "bye" THEN Off ELSE [loop[q] EXCEPT !.pc = "wait"]
<1>1. /\ loop[q].pc \in {"send", "bye"} /\ runner.pc = "select"
      /\ runner' = [pc |-> "got", u |-> Offer(q)]
      /\ UNCHANGED <<ctxVars, stash, metrics, closed, asked>>
  BY DEF Deliver
<1>2. loop' = [loop EXCEPT ![q] = l]
  BY DEF Deliver
<1>3. loop[q].pc = "bye" => l.pc = "off"
  BY DEF Off
<1>4. loop[q].pc = "send" => l.pc = "wait" /\ l.id = loop[q].id
  BY LoopType DEF Loop
<1>. HIDE DEF l
<1>5. loop'[q] = l /\ \A x \in Pulses : x # q => loop'[x] = loop[x]
  BY <1>2 DEF RuntimeTypeOK
<1>6. UNCHANGED <<backends, stash, metrics, asked>>
  BY <1>1 DEF ctxVars, registry
<1>7. OneLoop'
  BY <1>1, <1>3, <1>4, <1>5 DEF OneLoop
<1>8. runner'.pc = "got" /\ runner'.u = Offer(q) /\ runner'.u.source = loop[q].id
  BY <1>1, OfferType
<1>9. Farewell'
  <2>. SUFFICES ASSUME Offer(q).metrics.status = "Removed", backends[loop[q].id[2]] # None
                PROVE  FALSE
    BY <1>6, <1>8 DEF Farewell
  <2>1. loop[q].pc = "bye" /\ loop[q].id \in IDs
    BY <1>1, OfferType DEF LoopsWellFormed
  <2>2. loop[q].id[2] \in Backends
    BY <2>1 DEF Backends, IDs
  <2>. QED
    BY <2>1, <2>2, MonitorType DEF OneLoop
<1>10. MetricsCurrent'
  BY <1>8 DEF MetricsCurrent
<1>11. \A r \in Backends : loop'[backends[r].monitor].id = loop[backends[r].monitor].id
  BY <1>1, <1>4, <1>5, MonitorType
<1>12. WeightRemembered'
  BY <1>6, <1>11 DEF WeightRemembered, Backends
<1>13. DownKept'
  BY <1>1, <1>6, <1>11 DEF DownKept, Backends
<1>14. AskedPositive'
  BY <1>6 DEF AskedPositive, Backends
<1>. QED
  BY <1>7, <1>9, <1>10, <1>12, <1>13, <1>14

LEMMA ExaminePatient ==
    ASSUME PatientInv, Examine
    PROVE  PatientPart'
<1>. USE DEF PatientInv, PatientPart, RuntimeInv
<1>. DEFINE u == runner.u
            r == u.source[2]
<1>1. runner.pc = "got" /\ UNCHANGED <<backends, loop, asked>>
  BY DEF Examine, ctxVars, registry
<1>2. u # None /\ u.source \in IDs /\ r \in RsIDs
  BY <1>1, UpdateType
<1>3. OneLoop' /\ AskedPositive'
  BY <1>1 DEF OneLoop, AskedPositive, Backends
<1>4. CASE backends[r] = None \/ u.metrics.status = "Removed"
  <2>1. stash' = [stash EXCEPT ![u.source] = None] /\ runner' = Idle /\ metrics' = metrics
    BY <1>4 DEF Examine
  <2>2. r \notin Backends
    BY <1>2, <1>4 DEF Farewell, Backends
  <2>3. \A s \in Backends :
           stash'[loop[backends[s].monitor].id] = stash[loop[backends[s].monitor].id]
    BY <1>2, <2>1, <2>2, MonitorType DEF RuntimeTypeOK
  <2>4. runner'.pc = "select" /\ runner'.u = None
    BY <2>1 DEF Idle
  <2>5. Farewell' /\ MetricsCurrent'
    BY <2>4 DEF Farewell, MetricsCurrent
  <2>6. WeightRemembered'
    BY <1>1, <2>3 DEF WeightRemembered, Backends
  <2>7. DownKept'
    BY <1>1, <2>1, <2>3 DEF DownKept, Backends
  <2>. QED
    BY <1>3, <2>5, <2>6, <2>7
<1>5. CASE backends[r] # None /\ u.metrics.status # "Removed"
  <2>1. /\ metrics' = [metrics EXCEPT ![r] = u.metrics]
        /\ runner' = [runner EXCEPT !.pc = "reweigh"]
        /\ stash' = stash
    BY <1>5 DEF Examine
  <2>2. runner'.pc = "reweigh" /\ runner'.u = u
    BY <2>1 DEF RuntimeTypeOK, Runner
  <2>3. metrics'[r] = u.metrics /\ \A s \in RsIDs : s # r => metrics'[s] = metrics[s]
    BY <1>2, <2>1 DEF RuntimeTypeOK
  <2>4. Farewell' /\ MetricsCurrent'
    BY <1>5, <2>2, <2>3 DEF Farewell, MetricsCurrent
  <2>5. WeightRemembered'
    BY <1>1, <2>1 DEF WeightRemembered, Backends
  <2>6. DownKept'
    BY <1>1, <2>1, <2>2, <2>3 DEF DownKept, Backends
  <2>. QED
    BY <1>3, <2>4, <2>5, <2>6
<1>. QED
  BY <1>4, <1>5

\* Reweigh on a registered backend: the update in the hands of the loop is of the very
\* goroutine that checks it, and the kernel takes the new weight.
LEMMA ReweighPatient ==
    ASSUME Reliable, PatientInv, Reweigh
    PROVE  PatientPart'
<1>. USE DEF PatientInv, PatientPart, RuntimeInv
<1>. DEFINE u == runner.u
            r == u.source[2]
            Id(s) == loop[backends[s].monitor].id
<1>1. PICK down \in Outages :
         /\ runner.pc = "reweigh"
         /\ Unstash(u, down) \/ Stash(u, down) \/ NothingToDo(u, down)
         /\ runner' = Idle
         /\ UNCHANGED <<loop, metrics, closed, asked>>
  BY DEF Reweigh
<1>2. /\ u # None /\ u.source \in IDs /\ r \in RsIDs /\ u.metrics \in Metrics
      /\ u.metrics.status # "Removed"
      /\ 0 < u.metrics.of /\ u.metrics.up <= u.metrics.of
  BY <1>1, UpdateType DEF RunnerWellFormed
<1>3. runner'.pc = "select" /\ runner'.u = None
  BY <1>1 DEF Idle
<1>4. OneLoop' /\ Farewell' /\ MetricsCurrent'
  BY <1>1, <1>3 DEF OneLoop, Farewell, MetricsCurrent
<1>5. CASE r \notin Backends
  <2>1. UNCHANGED <<backends, stash>>
    BY <1>1, <1>2, <1>5 DEF Unstash, Stash, NothingToDo, UpdateBackend, Backends, ctxVars, registry
  <2>2. WeightRemembered'
    BY <1>1, <2>1 DEF WeightRemembered, Backends
  <2>3. DownKept'
    BY <1>1, <1>5, <2>1 DEF DownKept, Backends
  <2>4. AskedPositive'
    BY <1>1, <2>1 DEF AskedPositive, Backends
  <2>. QED
    BY <1>4, <2>2, <2>3, <2>4
<1>6. CASE r \in Backends
  <2>1. Id(r) = u.source
    BY <1>2, <1>6, MonitorType DEF SenderRuns, OneLoop
  <2>2. \A s \in Backends : s # r => Id(s) \in IDs /\ Id(s) # u.source
    BY <1>2, MonitorType
  <2>3. metrics[r] = u.metrics
    BY <1>1, <1>6 DEF MetricsCurrent, Backends
  <2>4. backends[r].weight \in Nat /\ asked[r] \in Nat /\ asked[r] > 0
    BY <1>2, <1>6, BackendsType DEF RuntimeTypeOK, AskedPositive
  <2>5. ~UpdateFails(r, down)
    <3>1. dests[Entry(backends[r])] # None
      BY <1>6, BackendsType DEF ReliableInv, BackendsInKernel
    <3>. QED
      BY <1>6, <3>1 DEF Reliable, Outages, UpdateFails, UpdateDestPortOK, Backends
  <2>6. \* It is enough to look at r.
        ASSUME Backends' = Backends,
               \A s \in Backends : backends'[s].monitor = backends[s].monitor,
               \A s \in Backends : s # r => backends'[s].weight = backends[s].weight,
               \A id \in IDs : id # u.source => stash'[id] = stash[id],
               IF stash'[u.source] = None
                 THEN backends'[r].weight = asked[r]
                 ELSE stash'[u.source] = asked[r] /\ backends'[r].weight < stash'[u.source],
               u.metrics.status = "Down" => stash'[u.source] # None
        PROVE  AskedPositive' /\ WeightRemembered' /\ DownKept'
    <3>1. \A s \in Backends : s # r => stash'[Id(s)] = stash[Id(s)]
      BY <2>2, <2>6
    <3>2. WeightRemembered'
      BY <1>1, <2>1, <2>6, <3>1 DEF WeightRemembered
    <3>3. DownKept'
      BY <1>1, <2>1, <2>3, <2>6, <3>1 DEF DownKept
    <3>4. AskedPositive'
      BY <1>1, <2>6 DEF AskedPositive
    <3>. QED
      BY <3>2, <3>3, <3>4
  <2>7. ASSUME NEW w \in Nat, UpdateBackend(r, w, down)
        PROVE  /\ Backends' = Backends
               /\ \A s \in Backends : backends'[s].monitor = backends[s].monitor
               /\ \A s \in Backends : s # r => backends'[s].weight = backends[s].weight
               /\ backends'[r].weight = w
    <3>1. /\ r \in Backends
          /\ backends'[r] \in Backend /\ backends'[r].monitor = backends[r].monitor
          /\ backends'[r].weight = w
          /\ \A x \in RsIDs : x # r => backends'[x] = backends[x]
      BY <1>2, <2>7, UpdateBackendEffect
    <3>2. backends'[r] # None
      BY <3>1, NoneAssumption
    <3>. QED
      BY <3>1, <3>2 DEF Backends
  <2>8. CASE Unstash(u, down)
    <3>1. /\ u.metrics.status = "Up"
          /\ stash[u.source] # None
          /\ \E w \in RelativeWeight(stash[u.source], u.metrics) :
                /\ UpdateBackend(r, w, down)
                /\ stash' = IF w = stash[u.source]
                              THEN [stash EXCEPT ![u.source] = None] ELSE stash
      BY <2>8 DEF Unstash
    <3>2. PICK w \in RelativeWeight(stash[u.source], u.metrics) :
             /\ UpdateBackend(r, w, down)
             /\ stash' = IF w = stash[u.source] THEN [stash EXCEPT ![u.source] = None] ELSE stash
      BY <3>1
    <3>3. stash[u.source] \in Nat /\ stash[u.source] = asked[r]
      BY <1>2, <1>6, <2>1, <3>1 DEF WeightRemembered, RuntimeTypeOK
    <3>4. w \in Nat /\ w <= stash[u.source]
      BY <1>2, <3>3, RelativeWeightBound
    <3>5. /\ \A id \in IDs : id # u.source => stash'[id] = stash[id]
          /\ w = stash[u.source] => stash'[u.source] = None
          /\ w # stash[u.source] => stash'[u.source] = stash[u.source]
      BY <1>2, <3>2 DEF RuntimeTypeOK
    <3>6. /\ Backends' = Backends
          /\ \A s \in Backends : backends'[s].monitor = backends[s].monitor
          /\ \A s \in Backends : s # r => backends'[s].weight = backends[s].weight
          /\ backends'[r].weight = w
      BY <2>7, <3>2, <3>4
    <3>7. IF stash'[u.source] = None
            THEN backends'[r].weight = asked[r]
            ELSE stash'[u.source] = asked[r] /\ backends'[r].weight < stash'[u.source]
      BY <3>1, <3>3, <3>4, <3>5, <3>6
    <3>. QED
      BY <1>4, <2>6, <3>1, <3>5, <3>6, <3>7
  <2>9. CASE Stash(u, down)
    <3>1. /\ u.metrics.status = "Down" /\ stash[u.source] = None
          /\ UpdateBackend(r, 0, down)
          /\ stash' = [stash EXCEPT ![u.source] = backends[r].weight]
      BY <2>9 DEF Stash
    <3>2. backends[r].weight = asked[r]
      BY <1>6, <2>1, <3>1 DEF WeightRemembered
    <3>3. /\ \A id \in IDs : id # u.source => stash'[id] = stash[id]
          /\ stash'[u.source] = asked[r] /\ stash'[u.source] # None
      BY <1>2, <2>4, <3>1, <3>2, NoneAssumption DEF RuntimeTypeOK
    <3>4. /\ Backends' = Backends
          /\ \A s \in Backends : backends'[s].monitor = backends[s].monitor
          /\ \A s \in Backends : s # r => backends'[s].weight = backends[s].weight
          /\ backends'[r].weight = 0
      BY <2>7, <3>1
    <3>5. backends'[r].weight < stash'[u.source]
      BY <2>4, <3>3, <3>4
    <3>. QED
      BY <1>4, <2>6, <3>3, <3>4, <3>5
  <2>10. CASE NothingToDo(u, down)
    <3>1. /\ \/ u.metrics.status = "Up"   /\ stash[u.source] = None
             \/ u.metrics.status = "Down" /\ stash[u.source] # None
          /\ UNCHANGED <<backends, stash>>
      BY <2>5, <2>10 DEF NothingToDo, ctxVars, registry
    <3>2. IF stash[u.source] = None
            THEN backends[r].weight = asked[r]
            ELSE stash[u.source] = asked[r] /\ backends[r].weight < stash[u.source]
      BY <1>6, <2>1 DEF WeightRemembered
    <3>3. Backends' = Backends
      BY <3>1 DEF Backends
    <3>. QED
      BY <1>4, <2>6, <3>1, <3>2, <3>3
  <2>. QED
    BY <1>1, <2>8, <2>9, <2>10
<1>. QED
  BY <1>5, <1>6

LEMMA StartBackendPatient ==
    ASSUME PatientClients, PatientInv, StartBackend
    PROVE  PatientPart'
<1>. USE DEF PatientInv, PatientPart, RuntimeInv
<1>1. PICK v \in VsIDs, r \in RsIDs, o \in BackendRequests, q \in FreePulses, down \in Outages :
         /\ loop[q].pc = "off"
         /\ ~Pending(r)
         /\ CreateBackend(v, r, o, q, down)
         /\ IF backends'[r] # None
              THEN /\ loop' = [loop EXCEPT ![q] =
                                 [pc |-> "wait", id |-> <<v, r>>,
                                  driver |-> backends'[r].opts.Pulse.Type, record |-> <<>>]]
                   /\ metrics' = [metrics EXCEPT ![r] = NoMetrics]
                   /\ asked' = [asked EXCEPT ![r] = backends'[r].weight]
              ELSE UNCHANGED <<loop, metrics, asked>>
         /\ UNCHANGED <<runner, stash, closed>>
  BY DEF StartBackend
<1>2. q \in Pulses /\ o \in BackendInputs /\ \A x \in Backends : backends[x].monitor # q
  BY DEF FreePulses, BackendInputs
<1>3. backends[r] = None
  BY <1>1, <1>2, CreateBackendEffect
<1>4. CASE UNCHANGED <<backends, stopped, dests>>
  <2>1. UNCHANGED <<loop, metrics, asked>>
    BY <1>1, <1>3, <1>4
  <2>. QED
    BY <1>1, <1>4, <2>1, QuietStep
<1>5. CASE ~UNCHANGED <<backends, stopped, dests>>
  <2>. DEFINE b == backends'[r]
              l == [pc |-> "wait", id |-> <<v, r>>, driver |-> b.opts.Pulse.Type, record |-> <<>>]
  <2>1. /\ b \in Backend /\ b.monitor = q
        /\ \A s \in RsIDs : s # r => backends'[s] = backends[s]
    BY <1>1, <1>2, <1>5, CreateBackendEffect
  <2>2. b # None
    BY <2>1, NoneAssumption
  <2>3. /\ loop' = [loop EXCEPT ![q] = l]
        /\ metrics' = [metrics EXCEPT ![r] = NoMetrics]
        /\ asked' = [asked EXCEPT ![r] = b.weight]
        /\ UNCHANGED <<runner, stash>>
    BY <1>1, <2>2
  <2>4. l.pc = "wait" /\ l.id = <<v, r>> /\ l.id[2] = r
    OBVIOUS
  <2>. HIDE DEF l, b
  <2>5. loop'[q] = l /\ \A x \in Pulses : x # q => loop'[x] = loop[x]
    BY <1>2, <2>3 DEF RuntimeTypeOK
  <2>6. /\ metrics'[r] = NoMetrics /\ asked'[r] = b.weight
        /\ \A s \in RsIDs : s # r => metrics'[s] = metrics[s] /\ asked'[s] = asked[s]
    BY <2>3 DEF RuntimeTypeOK
  <2>7. \A s \in Backends' : \/ s = r /\ backends'[s] = b
                             \/ s \in Backends /\ s # r /\ backends'[s] = backends[s]
    BY <1>3, <2>1 DEF Backends, b
  <2>8. /\ \A x \in Pulses : loop[x].pc # "off" => loop[x].id[2] # r
        /\ runner.u # None => runner.u.source[2] # r
    BY <1>1 DEF Pending
  <2>9. OneLoop'
    BY <2>4, <2>5, <2>8 DEF OneLoop
  <2>10. Farewell' /\ MetricsCurrent'
    <3>1. CASE runner.u = None
      BY <2>3, <3>1 DEF Farewell, MetricsCurrent, RunnerWellFormed
    <3>2. CASE runner.u # None
      <4>1. runner.u.source \in IDs
        BY <3>2 DEF RuntimeTypeOK, Runner, Update
      <4>2. runner.u.source[2] \in RsIDs /\ runner.u.source[2] # r
        BY <2>8, <3>2, <4>1 DEF IDs
      <4>. QED
        BY <2>1, <2>3, <2>6, <3>2, <4>2 DEF Farewell, MetricsCurrent
    <3>. QED
      BY <3>1, <3>2
  <2>11. stash[<<v, r>>] = None
    <3>1. <<v, r>> \in IDs /\ <<v, r>>[2] = r
      BY DEF IDs
    <3>. QED
      BY <2>8, <3>1 DEF StashReclaimed
  <2>12. /\ loop'[b.monitor].id = <<v, r>>
         /\ \A s \in Backends : loop'[backends[s].monitor].id = loop[backends[s].monitor].id
    BY <1>2, <2>1, <2>4, <2>5, MonitorType
  <2>13. WeightRemembered'
    <3>1. ASSUME NEW s \in Backends'
          PROVE  LET t == stash'[loop'[backends'[s].monitor].id] IN
                 IF t = None THEN backends'[s].weight = asked'[s]
                             ELSE t = asked'[s] /\ backends'[s].weight < t
      <4>1. CASE s = r /\ backends'[s] = b
        BY <2>3, <2>6, <2>11, <2>12, <4>1
      <4>2. CASE s \in Backends /\ s # r /\ backends'[s] = backends[s]
        BY <2>3, <2>6, <2>12, <4>2 DEF WeightRemembered, Backends
      <4>. QED
        BY <2>7, <4>1, <4>2
    <3>. QED
      BY <3>1 DEF WeightRemembered
  <2>14. DownKept'
    <3>1. ASSUME NEW s \in Backends', metrics'[s].status = "Down"
          PROVE  \/ stash'[loop'[backends'[s].monitor].id] # None
                 \/ runner'.pc = "reweigh" /\ runner'.u.source[2] = s
      <4>1. s # r
        BY <2>6, <3>1 DEF NoMetrics
      <4>2. s \in Backends /\ backends'[s] = backends[s]
        BY <2>7, <4>1
      <4>. QED
        BY <2>3, <2>6, <2>12, <3>1, <4>1, <4>2 DEF DownKept, Backends
    <3>. QED
      BY <3>1 DEF DownKept
  <2>15. AskedPositive'
    <3>1. BackendValid(o)
      BY <1>1 DEF CreateBackend
    <3>2. b.weight = FillBackend(o).Weight
      BY <1>1, <1>2, <1>5, CreateBackendEffect DEF b
    <3>3. b.weight > 0
      BY <1>2, <3>1, <3>2, BackendFill
    <3>. QED
      BY <2>6, <2>7, <3>3 DEF AskedPositive, Backends
  <2>. QED
    BY <2>9, <2>10, <2>13, <2>14, <2>15
<1>. QED
  BY <1>4, <1>5

LEMMA OtherHandlersPatient ==
    ASSUME PatientInv, OtherHandlers
    PROVE  PatientPart'
<1>. USE DEF PatientInv, PatientPart, RuntimeInv
<1>1. /\ metrics' = [r \in RsIDs |-> IF backends'[r] = None THEN NoMetrics ELSE metrics[r]]
      /\ UNCHANGED <<loop, runner, stash, closed, asked>>
  BY DEF OtherHandlers
<1>2. \A r \in Backends' : r \in Backends /\ backends'[r] = backends[r]
  BY OtherHandlersEffect DEF OtherHandlers
<1>3. \A r \in Backends' : r \in RsIDs /\ metrics'[r] = metrics[r]
  BY <1>1 DEF Backends
<1>4. OneLoop'
  BY <1>1 DEF OneLoop
<1>5. Farewell' /\ MetricsCurrent'
  <2>1. CASE runner.u = None
    BY <1>1, <2>1 DEF Farewell, MetricsCurrent, RunnerWellFormed
  <2>2. CASE runner.u # None
    <3>1. runner.u.source \in IDs
      BY <2>2 DEF RuntimeTypeOK, Runner, Update
    <3>2. runner.u.source[2] \in RsIDs
      BY <3>1 DEF IDs
    <3>3. backends'[runner.u.source[2]] # None =>
             /\ backends[runner.u.source[2]] # None
             /\ metrics'[runner.u.source[2]] = metrics[runner.u.source[2]]
      BY <1>2, <1>3, <3>2 DEF Backends
    <3>. QED
      BY <1>1, <2>2, <3>3 DEF Farewell, MetricsCurrent
  <2>. QED
    BY <2>1, <2>2
<1>6. WeightRemembered'
  BY <1>1, <1>2 DEF WeightRemembered
<1>7. DownKept'
  BY <1>1, <1>2, <1>3 DEF DownKept
<1>8. AskedPositive'
  BY <1>1, <1>2 DEF AskedPositive
<1>. QED
  BY <1>4, <1>5, <1>6, <1>7, <1>8

LEMMA PatientInductive ==
    ASSUME Patient
    PROVE  PatientInv /\ [RuntimeNext]_vars => PatientInv'
<1>. SUFFICES ASSUME PatientInv, [RuntimeNext]_vars PROVE PatientInv'
  OBVIOUS
<1>. USE DEF Patient
<1>1. RuntimeInv' /\ ReliableInv'
  BY RuntimeInductive, RuntimeOperates, ReliableInductive DEF PatientInv
<1>. SUFFICES PatientPart'
  BY <1>1 DEF PatientInv
<1>2. ASSUME NEW q \in Pulses, Check(q) \/ ConsumerStopped(q) \/ StopSeen(q) \/ Deliver(q)
      PROVE  PatientPart'
  BY <1>2, LoopPatient, DeliverPatient
<1>3. CASE Examine
  BY <1>3, ExaminePatient
<1>4. CASE Reweigh
  BY <1>4, ReweighPatient
<1>5. CASE RunnerReturns
  <2>1. /\ runner.pc = "select" /\ runner'.pc = "returned" /\ runner'.u = None
        /\ UNCHANGED <<backends, loop, stash, metrics, asked>>
    BY <1>5 DEF RunnerReturns, ctxVars, registry
  <2>2. OneLoop' /\ Farewell' /\ MetricsCurrent' /\ WeightRemembered'
    BY <2>1
    DEF PatientInv, PatientPart, OneLoop, Farewell, MetricsCurrent, WeightRemembered, Backends
  <2>3. DownKept' /\ AskedPositive'
    BY <2>1 DEF PatientInv, PatientPart, DownKept, AskedPositive, Backends
  <2>. QED
    BY <2>2, <2>3 DEF PatientPart
<1>6. CASE StartBackend
  BY <1>6, StartBackendPatient
<1>7. CASE PatchBackend
  BY <1>7 DEF PatchBackend
<1>8. CASE OtherHandlers
  BY <1>8, OtherHandlersPatient
<1>9. CASE Close \/ UNCHANGED vars
  <2>1. UNCHANGED <<backends, loop, runner, stash, metrics, asked>>
    BY <1>9 DEF Close, vars, rtVars, ctxVars, registry
  <2>. QED
    BY <2>1, QuietStep
<1>. QED
  BY <1>2, <1>3, <1>4, <1>5, <1>6, <1>7, <1>8, <1>9 DEF RuntimeNext

LEMMA PatientInvariant ==
    ASSUME Patient
    PROVE  RuntimeSpec => []PatientInv
<1>1. RuntimeInit => PatientPart
  BY DEF RuntimeInit, Init, PatientPart, OneLoop, Farewell, MetricsCurrent, WeightRemembered,
         AskedPositive, DownKept, Backends, Off, Idle
<1>2. RuntimeInit => PatientInv
  BY <1>1, RuntimeInvInit, ReliableInit DEF PatientInv, RuntimeInit
<1>. QED
  BY <1>2, PatientInductive, PTL DEF RuntimeSpec

\* A backend's weight is the one its client asked for, unless the notification loop keeps
\* that one in its stash, and then the weight is less: across any interleaving of
\* checks, updates in flight, removals and creations.
THEOREM WeightsRemembered ==
    ASSUME Patient
    PROVE  RuntimeSpec => []WeightRemembered
<1>1. PatientInv => WeightRemembered
  BY DEF PatientInv, PatientPart
<1>. QED
  BY <1>1, PatientInvariant, PTL

\* Once the notification loop is done with a report that a backend is Down, the backend's
\* weight is in the stash and the backend has less. Not always zero: viol_refail.
THEOREM DownReduced ==
    ASSUME Patient
    PROVE  RuntimeSpec => []DownIsReduced
<1>1. PatientInv => DownIsReduced
  BY DEF PatientInv, PatientPart, DownKept, WeightRemembered, DownIsReduced
<1>. QED
  BY <1>1, PatientInvariant, PTL
=============================================================================
