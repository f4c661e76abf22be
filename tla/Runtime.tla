------------------------------ MODULE Runtime ------------------------------
(***************************************************************************)
(* Health checks: one goroutine per backend (pulse.Pulse.Loop), and the    *)
(* notification loop of the Context (core/runtime.go), which turns their   *)
(* results into weights. They run concurrently with the REST handlers of   *)
(* Context and meet over two unbuffered channels: pulseCh and stopCh.      *)
(***************************************************************************)
EXTENDS Context, FiniteSets

CONSTANTS
    RecordLimit,        \* how many results a Pulse remembers: 100 in the code
    PatientClients,     \* clients use a backend's name again only after the last
                        \* update of the removed one has been dealt with
    MayClose            \* Context.Close may be called

VARIABLES
    loop,       \* the goroutine of each Pulse and its metrics.record
    runner,     \* the notification loop: where it is, the update in its hands
    stash,      \* its map from pulse.ID to the weight to restore
    metrics,    \* the field metrics of each backend in ctx.backends
    closed,     \* ctx.stopCh is closed
    asked       \* history: the weight the clients last asked for

rtVars  == <<loop, runner, stash, metrics, closed, asked>>
vars    == <<ctxVars, rtVars>>

-----------------------------------------------------------------------------
(* The drivers. What a check meets: no answer, an HTTP status other than the *)
(* expected one (a redirect is one too), or the expected one.                *)

Answers == {"none", "unexpected", "expected"}

httpCheck == [a \in Answers |-> IF a = "expected" THEN "Up" ELSE "Down"]
tcpCheck  == [a \in Answers |-> IF a = "none" THEN "Down" ELSE "Up"]
noopCheck == [a \in Answers |-> "Up"]

\* The table of drivers by the Type of the Pulse options.
get == [tcp |-> tcpCheck, http |-> httpCheck, none |-> noopCheck]

-----------------------------------------------------------------------------
(* Data *)

IDs == VsIDs \X RsIDs   \* pulse.ID

Checks == {"Up", "Down"}    \* what Driver.Check returns

\* A Metrics copy: health is the pair of results that are Up and of all results.
Metrics == [status : Checks \cup {"Removed"}, up : 0 .. RecordLimit, of : 0 .. RecordLimit]
Update  == [source : IDs, metrics : Metrics]

\* pc: not started or returned; in the outer select; in the inner select with an
\* update to send; sending the last update.
Loop == [pc : {"off", "wait", "send", "bye"}, id : IDs \cup {None}, driver : DOMAIN get,
         record : Seq(Checks)]
Off  == [pc |-> "off", id |-> None, driver |-> "tcp", record |-> <<>>]

\* pc: in the select; received u; u recorded and the mutex released; returned.
Runner == [pc : {"select", "got", "reweigh", "returned"}, u : Update \cup {None}]
Idle   == [pc |-> "select", u |-> None]

\* A Pulse remembers at least its last result; nil is neither an ID nor an update.
ASSUME RuntimeAssumption ==
    /\ RecordLimit \in Nat \ {0}
    /\ None \notin IDs /\ None \notin Update

RuntimeTypeOK ==
    /\ loop \in [Pulses -> Loop]
    /\ \A q \in Pulses : Len(loop[q].record) <= RecordLimit
    /\ runner \in Runner
    /\ stash \in [IDs -> Nat \cup {None}]
    /\ metrics \in [RsIDs -> Metrics]
    /\ closed \in BOOLEAN
    /\ asked \in [RsIDs -> Nat]

\* mutant of Remember: the oldest result falls out one update too late
RememberOneMore(record, s) ==
    IF Len(record) > RecordLimit THEN Append(Tail(record), s) ELSE Append(record, s)

\* Metrics.Update: the new result goes to the end, the oldest falls out.
Remember(record, s) ==
    IF Len(record) = RecordLimit THEN Append(Tail(record), s) ELSE Append(record, s)

Ups(record) == Cardinality({i \in DOMAIN record : record[i] = "Up"})

MetricsOf(record) ==
    [status |-> record[Len(record)], up |-> Ups(record), of |-> Len(record)]

\* The zero value of Metrics, which a new backend has: Up, with health 0.
NoMetrics == [status |-> "Up", up |-> 0, of |-> 0]

\* mutant of RelativeWeight: one result too many in the denominator
RelativeWeightLow(w, m) == {(w * m.up) \div (m.of + 1)}

\* uint32(float64(weight) * health). Health is 1 - down/all in floating point: it
\* is exact when no result is Down and may fall just short of the quotient otherwise,
\* so that a product which should be whole can be truncated to one less.
RelativeWeight(w, m) ==
    LET exact == (w * m.up) \div m.of
        whole == (w * m.up) % m.of = 0
    IN  IF whole /\ m.up < m.of /\ exact > 0 THEN {exact - 1, exact} ELSE {exact}

-----------------------------------------------------------------------------
(* Pulse.Loop *)

\* The interval has passed: record what the check found, and offer the result to
\* the Context.
Tick(q, s) ==
    /\ loop[q].pc = "wait"
    /\ loop' = [loop EXCEPT ![q].pc = "send", ![q].record = Remember(@, s)]
    /\ UNCHANGED <<ctxVars, runner, stash, metrics, closed, asked>>

\* The inner select found that the consumer has stopped: the result is dropped.
ConsumerStopped(q) ==
    /\ loop[q].pc = "send"
    /\ closed
    /\ loop' = [loop EXCEPT ![q].pc = "wait"]
    /\ UNCHANGED <<ctxVars, runner, stash, metrics, closed, asked>>

\* The outer select found that Stop was called.
StopSeen(q) ==
    /\ loop[q].pc = "wait"
    /\ q \in stopped
    /\ loop' = [loop EXCEPT ![q].pc = "bye"]
    /\ UNCHANGED <<ctxVars, runner, stash, metrics, closed, asked>>

\* The update a goroutine offers on pulseCh.
Offer(q) ==
    [source |-> loop[q].id,
     metrics |-> IF loop[q].pc = "bye" THEN [status |-> "Removed", up |-> 0, of |-> 0]
                                       ELSE MetricsOf(loop[q].record)]

\* mutant of Deliver: the goroutine goes on after its last update
DeliverNoReturn(q) ==
    /\ loop[q].pc \in {"send", "bye"}
    /\ runner.pc = "select"
    /\ runner' = [pc |-> "got", u |-> Offer(q)]
    /\ loop' = [loop EXCEPT ![q].pc = "wait"]
    /\ UNCHANGED <<ctxVars, stash, metrics, closed, asked>>

\* pulseCh is unbuffered: sending and receiving are one step.
Deliver(q) ==
    /\ loop[q].pc \in {"send", "bye"}
    /\ runner.pc = "select"
    /\ runner' = [pc |-> "got", u |-> Offer(q)]
    /\ loop' = [loop EXCEPT ![q] = IF @.pc = "bye" THEN Off ELSE [@ EXCEPT !.pc = "wait"]]
    /\ UNCHANGED <<ctxVars, stash, metrics, closed, asked>>

-----------------------------------------------------------------------------
(* The notification loop: Context.run and processPulseUpdate *)

\* mutant of Examine: the stash keeps the entry of a removed backend
ExamineKeepsStash ==
    LET u == runner.u
        r == u.source[2]
    IN
    /\ runner.pc = "got"
    /\ \/ /\ backends[r] = None \/ u.metrics.status = "Removed"
          /\ runner' = Idle
          /\ UNCHANGED metrics
       \/ /\ backends[r] # None /\ u.metrics.status # "Removed"
          /\ metrics' = [metrics EXCEPT ![r] = u.metrics]
          /\ runner' = [runner EXCEPT !.pc = "reweigh"]
    /\ UNCHANGED <<ctxVars, loop, stash, closed, asked>>

\* The section under ctx.mutex: forget a removed backend, or record its metrics.
Examine ==
    LET u == runner.u
        r == u.source[2]
    IN
    /\ runner.pc = "got"
    /\ \/ /\ backends[r] = None \/ u.metrics.status = "Removed"
          /\ stash' = [stash EXCEPT ![u.source] = None]
          /\ runner' = Idle
          /\ UNCHANGED metrics
       \/ /\ backends[r] # None /\ u.metrics.status # "Removed"
          /\ metrics' = [metrics EXCEPT ![r] = u.metrics]
          /\ runner' = [runner EXCEPT !.pc = "reweigh"]
          /\ UNCHANGED stash
    /\ UNCHANGED <<ctxVars, loop, closed, asked>>

\* UpdateBackend(vsID, rsID, w) from here: the mutex is taken again, so the backend
\* may have gone, or be another one by now.
UpdateFails(r, down) == backends[r] # None => ~UpdateDestPortOK(backends[r], down)

\* mutant of Unstash: the stash is cleared at the first sign of life
UnstashAtOnce(u, down) ==
    /\ u.metrics.status = "Up"
    /\ stash[u.source] # None
    /\ \E w \in RelativeWeight(stash[u.source], u.metrics) :
          /\ UpdateBackend(u.source[2], w, down)
          /\ stash' = [stash EXCEPT ![u.source] = None]

\* A stashed backend is up: its weight follows its health until it is whole.
Unstash(u, down) ==
    /\ u.metrics.status = "Up"
    /\ stash[u.source] # None
    /\ \E w \in RelativeWeight(stash[u.source], u.metrics) :
          /\ UpdateBackend(u.source[2], w, down)
          /\ stash' = IF w = stash[u.source] THEN [stash EXCEPT ![u.source] = None] ELSE stash

\* mutant of Stash: the weight is zeroed but not stashed
StashForgotten(u, down) ==
    /\ u.metrics.status = "Down"
    /\ stash[u.source] = None
    /\ UpdateBackend(u.source[2], 0, down)
    /\ UNCHANGED stash

\* A backend is down for the first time: its weight moves to the stash.
Stash(u, down) ==
    /\ u.metrics.status = "Down"
    /\ stash[u.source] = None
    /\ UpdateBackend(u.source[2], 0, down)
    /\ stash' = [stash EXCEPT ![u.source] = backends[u.source[2]].weight]

\* Nothing to do: already stashed, nothing stashed, or UpdateBackend fails.
NothingToDo(u, down) ==
    /\ \/ u.metrics.status = "Up"   /\ stash[u.source] = None
       \/ u.metrics.status = "Down" /\ stash[u.source] # None
       \/ UpdateFails(u.source[2], down)
    /\ UNCHANGED <<ctxVars, stash>>

\* The switch at the end of processPulseUpdate.
Reweigh ==
    \E down \in Outages :
        /\ runner.pc = "reweigh"
        /\ Unstash(runner.u, down) \/ Stash(runner.u, down) \/ NothingToDo(runner.u, down)
        /\ runner' = Idle
        /\ UNCHANGED <<loop, metrics, closed, asked>>

\* The select found stopCh closed.
RunnerReturns ==
    /\ runner.pc = "select"
    /\ closed
    /\ runner' = [pc |-> "returned", u |-> None]
    /\ UNCHANGED <<ctxVars, loop, stash, metrics, closed, asked>>

-----------------------------------------------------------------------------
(* The operations of Context that start goroutines, record weights or close *)

\* A goroutine or the notification loop still has something to say about r.
Pending(r) ==
    \/ \E q \in Pulses : loop[q].pc # "off" /\ loop[q].id[2] = r
    \/ runner.u # None /\ runner.u.source[2] = r

\* createBackend: a registered backend's Loop is started.
StartBackend ==
    \E v \in VsIDs, r \in RsIDs, o \in BackendRequests, q \in FreePulses, down \in Outages :
        /\ loop[q].pc = "off"
        /\ PatientClients => ~Pending(r)
        /\ CreateBackend(v, r, o, q, down)
        /\ IF backends'[r] # None
             THEN /\ loop' = [loop EXCEPT ![q] =
                        [pc |-> "wait", id |-> <<v, r>>,
                         driver |-> backends'[r].opts.Pulse.Type, record |-> <<>>]]
                  /\ metrics' = [metrics EXCEPT ![r] = NoMetrics]
                  /\ asked' = [asked EXCEPT ![r] = backends'[r].weight]
             ELSE UNCHANGED <<loop, metrics, asked>>
        /\ UNCHANGED <<runner, stash, closed>>

PatchBackend ==
    \E r \in RsIDs, w \in WeightPatches, down \in Outages :
        /\ UpdateBackend(r, w, down)
        /\ asked' = [asked EXCEPT ![r] = w]
        /\ UNCHANGED <<loop, runner, stash, metrics, closed>>

\* The other handlers. A name that leaves ctx.backends takes its metrics along.
OtherHandlers ==
    /\ \/ ServiceCreateHandler
       \/ ServiceUpdateHandler
       \/ ServiceRemoveHandler
       \/ BackendRemoveHandler
    /\ metrics' = [r \in RsIDs |-> IF backends'[r] = None THEN NoMetrics ELSE metrics[r]]
    /\ UNCHANGED <<loop, runner, stash, closed, asked>>

\* Close closes stopCh, then removes the services one by one; each removal takes the
\* mutex anew and is the step of ServiceRemoveHandler.
Close ==
    /\ MayClose
    /\ ~closed
    /\ closed' = TRUE
    /\ UNCHANGED <<ctxVars, loop, runner, stash, metrics, asked>>

RuntimeInit ==
    /\ Init
    /\ loop = [q \in Pulses |-> Off]
    /\ runner = Idle
    /\ stash = [id \in IDs |-> None]
    /\ metrics = [r \in RsIDs |-> NoMetrics]
    /\ closed = FALSE
    /\ asked = [r \in RsIDs |-> 0]

Check(q) == \E a \in Answers : Tick(q, get[loop[q].driver][a])

RuntimeNext ==
    \/ \E q \in Pulses : Check(q) \/ ConsumerStopped(q) \/ StopSeen(q) \/ Deliver(q)
    \/ Examine
    \/ Reweigh
    \/ RunnerReturns
    \/ StartBackend
    \/ PatchBackend
    \/ OtherHandlers
    \/ Close

RuntimeSpec == RuntimeInit /\ [][RuntimeNext]_vars

\* A timer fires and a goroutine that can run does run. A select that again and
\* again finds a case ready takes it some time: it chooses at random among the ready
\* ones, and senders wait on pulseCh in a FIFO queue. Nothing makes clients act.
Fairness ==
    /\ \A q \in Pulses :
          /\ WF_vars(Check(q))
          /\ WF_vars(ConsumerStopped(q))
          /\ SF_vars(StopSeen(q))
          /\ SF_vars(Deliver(q))
    /\ WF_vars(Examine)
    /\ WF_vars(Reweigh)
    /\ SF_vars(RunnerReturns)

FairSpec == RuntimeSpec /\ Fairness

-----------------------------------------------------------------------------
(* Properties *)

\* The stash holds no entry longer than a goroutine can still clear it: the last
\* update of a Pulse, Removed, is on its way for as long as its entry exists. So
\* the map of run() does not grow with every backend that ever was Down.
StashReclaimed ==
    \A id \in IDs : stash[id] # None =>
        \/ \E q \in Pulses : loop[q].pc # "off" /\ loop[q].id = id
        \/ runner.u # None /\ runner.u.source = id /\ runner.u.metrics.status = "Removed"

\* A registered backend is checked by a goroutine of its own, which reports under
\* its name, and a goroutine that nobody stopped belongs to a registered backend.
MonitorRuns ==
    /\ \A r \in Backends : backends[r].monitor \notin stopped =>
          LET l == loop[backends[r].monitor] IN l.pc \in {"wait", "send"} /\ l.id[2] = r
    /\ \A q \in Pulses : loop[q].pc # "off" /\ q \notin stopped =>
          \E r \in Backends : backends[r].monitor = q

\* No weight is lost: a backend's weight is the one its client asked for, unless
\* the notification loop keeps that one in the stash to restore it later, and then the
\* backend has less.
WeightRemembered ==
    \A r \in Backends :
        LET s == stash[loop[backends[r].monitor].id] IN
        IF s = None THEN backends[r].weight = asked[r]
                    ELSE s = asked[r] /\ backends[r].weight < s

\* Once the notification loop is done with a report that a backend is Down, the backend
\* has less than its weight, which is in the stash. It need not have none at all: one
\* that failed before and is recovering keeps what it got back (see DownIsDrained).
DownIsReduced ==
    \A r \in Backends :
        runner.pc = "select" /\ metrics[r].status = "Down" =>
            LET s == stash[loop[backends[r].monitor].id] IN
            s # None /\ backends[r].weight < s

\* "Backends which fail to pass the health check will have weights set to zero to
\* inhibit any traffic from being routed into their direction" (src/README.md): once
\* the notification loop is done with the report.
DownIsDrained ==
    \A r \in Backends :
        runner.pc = "select" /\ metrics[r].status = "Down" => backends[r].weight = 0

\* Once no check fails any more, every backend gets the weight its client asked
\* for, and keeps it.
EventuallyRestored ==
    <>[][\A q \in Pulses : ~Tick(q, "Down")]_vars =>
        <>[](\A r \in Backends : backends[r].weight = asked[r])

\* A stopped Pulse's goroutine returns.
StoppedPulseReturns == \A q \in Pulses : (q \in stopped) ~> (loop[q].pc = "off")
=============================================================================
