-------------------------- MODULE DockerLinkProofs --------------------------
(***************************************************************************)
(* Theorems about the Docker link, for every set of containers, images and *)
(* port bindings, any number of events that wait, and whether or not       *)
(* exchanges with GORB and inspections may fail.                           *)
(***************************************************************************)
EXTENDS DockerLink, TLAPS

-----------------------------------------------------------------------------
(* The inductive invariant *)

JobNames(jobs) == {RsID(j.c, j.b) : j \in jobs}

\* Ports a container may have: those of a start, or none once it has ended.
PortSets(c) == Mappings[c] \cup {{}}

DockerSane ==
    /\ \A c \in Containers :
          /\ docker[c].status = "exited" => docker[c].ports = {}
          /\ docker[c].ports \in PortSets(c)
    /\ \A i \in DOMAIN events : events[i].ports \in PortSets(events[i].c)

\* Where the link is, and what it has in hand, fit together. An event leads to one call
\* of invokeFunc, hence to jobs of one kind.
LinkSane ==
    /\ link \in [pc : {"boot", "work", "getService", "createService", "createBackend",
                       "removeBackend"},
                 jobs : SUBSET Job, job : Job \cup {None}]
    /\ ~listening => events = <<>>
    /\ link.pc = "boot" => ~listening /\ link.jobs = {}
    /\ link.pc \in {"getService", "createService", "createBackend"} =>
          link.job \in link.jobs /\ link.job.fn = "createBackend"
    /\ link.pc = "removeBackend" => link.job \in link.jobs /\ link.job.fn = "removeBackend"
    /\ \A i, j \in link.jobs : i.fn = j.fn
    /\ \A j \in link.jobs : \E ports \in PortSets(j.c) : j.b \in Published(ports)

\* After the kill of a container that runs comes its start, with the ports it has.
KillThenStart ==
    \A c \in Containers : \A i \in DOMAIN events :
        (docker[c].status = "running" /\ events[i].status = "kill" /\ events[i].fatal
            /\ events[i].c = c) =>
        \E j \in DOMAIN events :
            j > i /\ events[j].status = "start" /\ events[j].c = c
            /\ events[j].ports = docker[c].ports

\* After the start of a container that is ending comes its kill.
StartThenKill ==
    \A c \in Containers : \A i \in DOMAIN events :
        (docker[c].status = "dying" /\ events[i].status = "start" /\ events[i].c = c) =>
        \E j \in DOMAIN events :
            j > i /\ events[j].status = "kill" /\ events[j].fatal /\ events[j].c = c
            /\ events[j].ports = docker[c].ports

StartPending(r) ==
    \E i \in DOMAIN events :
        events[i].status = "start" /\ r \in Names(events[i].c, events[i].ports)

KillPending(r) ==
    \E i \in DOMAIN events :
        events[i].status = "kill" /\ events[i].fatal /\ r \in Names(events[i].c, events[i].ports)

HasJob(r, fn) == \E j \in link.jobs : j.fn = fn /\ RsID(j.c, j.b) = r

\* What removes the backend of a container that runs is older than its start.
RemovalStale ==
    \A r \in RsIDs \ astray : HasJob(r, "removeBackend") /\ Wanted(r) => StartPending(r)

\* A backend that is about to be created is so where Docker publishes it, or the start
\* of its container is yet to come.
CreationFresh ==
    \A j \in link.jobs :
        (j.fn = "createBackend" /\ RsID(j.c, j.b) \notin astray /\ Wanted(RsID(j.c, j.b))) =>
            \/ StartPending(RsID(j.c, j.b))
            \/ WantedAt(RsID(j.c, j.b), Dest(j.b))

\* What a running container publishes GORB has, or will be told.
WantedComes ==
    \A r \in RsIDs \ astray : Wanted(r) =>
        \/ link.pc = "boot"
        \/ StartPending(r)
        \/ HasJob(r, "createBackend")
        \/ InStep(r, pool[r])

\* What no container publishes GORB does not have and will not get, or will be told.
UnwantedGoes ==
    \A r \in RsIDs \ astray : ~Wanted(r) =>
        \/ pool[r] = None /\ ~HasJob(r, "createBackend")
        \/ KillPending(r)
        \/ HasJob(r, "removeBackend")

LinkInv ==
    /\ LinkTypeOK /\ DockerSane /\ LinkSane
    /\ KillThenStart /\ StartThenKill
    /\ RemovalStale /\ CreationFresh /\ WantedComes /\ UnwantedGoes

-----------------------------------------------------------------------------
(* Names and bindings *)

LEMMA PortsTyped ==
    ASSUME NEW c \in Containers, NEW ports \in PortSets(c)
    PROVE  /\ ports \in SUBSET Bindings
           /\ Names(c, ports) \subseteq RsIDs
           /\ \A b \in Published(ports) :
                 /\ b \in Bindings /\ b \in ports
                 /\ VsID(c, b) \in VsIDs /\ RsID(c, b) \in RsIDs
                 /\ Key(b) \in Keys /\ Dest(b) \in Dests
<1>1. CASE ports = {}
  BY <1>1 DEF Names, Published
<1>2. CASE ports \in Mappings[c]
  <2>1. ports \in SUBSET Bindings
    BY <1>2, Zenon DEF Bindings
  <2>2. Published(ports) \subseteq ports
    BY DEF Published
  <2>3. \A b \in Published(ports) : /\ VsID(c, b) \in VsIDs /\ RsID(c, b) \in RsIDs
                                    /\ Key(b) \in Keys /\ Dest(b) \in Dests
    BY <1>2, LinkAssumption, Zenon
  <2>. QED
    BY <2>1, <2>2, <2>3 DEF Names
<1>. QED
  BY <1>1, <1>2 DEF PortSets

\* A name tells the container.
LEMMA NameOwner ==
    ASSUME NEW c, NEW d, NEW p, NEW q, NEW r \in Names(c, p), r \in Names(d, q)
    PROVE  c = d
  BY DEF Names, RsID

LEMMA JobsAre ==
    ASSUME NEW fn, NEW c, NEW ports
    PROVE  /\ JobNames(Jobs(fn, c, ports)) = Names(c, ports)
           /\ \A j \in Jobs(fn, c, ports) :
                 /\ j.fn = fn /\ j.c = c
                 /\ j.b \in Published(ports) /\ RsID(j.c, j.b) \in Names(c, ports)
           /\ \A r \in Names(c, ports) : \E j \in Jobs(fn, c, ports) : RsID(j.c, j.b) = r
<1>1. \A j \in Jobs(fn, c, ports) :
         j.fn = fn /\ j.c = c /\ j.b \in Published(ports) /\ RsID(j.c, j.b) \in Names(c, ports)
  BY DEF Jobs, Names
<1>2. \A r \in Names(c, ports) : \E j \in Jobs(fn, c, ports) : RsID(j.c, j.b) = r
  <2>. SUFFICES ASSUME NEW b \in Published(ports)
                PROVE  \E j \in Jobs(fn, c, ports) : RsID(j.c, j.b) = RsID(c, b)
    BY DEF Names
  <2>. DEFINE j == [fn |-> fn, c |-> c, b |-> b]
  <2>1. j \in Jobs(fn, c, ports)
    BY DEF Jobs
  <2>2. j.c = c /\ j.b = b
    OBVIOUS
  <2>. HIDE DEF j
  <2>. QED
    BY <2>1, <2>2
<1>. QED
  BY <1>1, <1>2 DEF JobNames

LEMMA JobsTyped ==
    ASSUME NEW fn \in {"createBackend", "removeBackend"}, NEW c \in Containers,
           NEW ports \in PortSets(c)
    PROVE  Jobs(fn, c, ports) \subseteq Job
  BY PortsTyped DEF Jobs, Job

\* What a job in hand stands for.
LEMMA JobTyped ==
    ASSUME LinkSane, NEW j \in link.jobs
    PROVE  /\ j \in Job
           /\ VsID(j.c, j.b) \in VsIDs /\ RsID(j.c, j.b) \in RsIDs
           /\ Key(j.b) \in Keys /\ Dest(j.b) \in Dests
<1>1. j \in Job /\ j.c \in Containers
  BY DEF LinkSane, Job
<1>2. PICK ports \in PortSets(j.c) : j.b \in Published(ports)
  BY DEF LinkSane
<1>. QED
  BY <1>1, <1>2, PortsTyped

-----------------------------------------------------------------------------
(* Events *)

LEMMA AppendEvent ==
    ASSUME events \in Seq(Event), NEW e \in Event, events' = Append(events, e)
    PROVE  /\ events' \in Seq(Event)
           /\ Len(events') = Len(events) + 1
           /\ \A i \in DOMAIN events : i \in DOMAIN events' /\ events'[i] = events[i]
           /\ Len(events) + 1 \in DOMAIN events'
           /\ events'[Len(events) + 1] = e
           /\ \A i \in DOMAIN events' : i \in DOMAIN events \/ i = Len(events) + 1
           /\ \A i \in DOMAIN events : i \in Nat /\ i < Len(events) + 1
  OBVIOUS

LEMMA TailEvent ==
    ASSUME events \in Seq(Event), events # <<>>, events' = Tail(events)
    PROVE  /\ events' \in Seq(Event)
           /\ Len(events') = Len(events) - 1
           /\ 1 \in DOMAIN events /\ Head(events) = events[1] /\ Head(events) \in Event
           /\ \A i \in DOMAIN events' :
                 i \in Nat /\ i + 1 \in DOMAIN events /\ events'[i] = events[i + 1]
           /\ \A i \in DOMAIN events :
                 i \in Nat /\ (i = 1 \/ (i - 1 \in DOMAIN events' /\ events'[i - 1] = events[i]))
  OBVIOUS

\* The order of events survives the next one being taken.
LEMMA TailOrder ==
    ASSUME LinkInv, events # <<>>, events' = Tail(events), UNCHANGED docker
    PROVE  KillThenStart' /\ StartThenKill'
<1>1. events \in Seq(Event)
  BY DEF LinkInv, LinkTypeOK
<1>2. KillThenStart'
  <2>. SUFFICES ASSUME NEW c \in Containers, NEW i \in DOMAIN events',
                       docker[c].status = "running", events'[i].status = "kill",
                       events'[i].fatal, events'[i].c = c
                PROVE  \E j \in DOMAIN events' :
                          /\ j > i /\ events'[j].status = "start" /\ events'[j].c = c
                          /\ events'[j].ports = docker[c].ports
    BY DEF KillThenStart
  <2>1. i \in Nat /\ i + 1 \in DOMAIN events /\ events'[i] = events[i + 1]
    BY <1>1, TailEvent
  <2>2. PICK j \in DOMAIN events :
           /\ j > i + 1 /\ events[j].status = "start" /\ events[j].c = c
           /\ events[j].ports = docker[c].ports
    BY <2>1 DEF LinkInv, KillThenStart
  <2>3. j \in Nat /\ j # 1
    BY <1>1, <2>1, <2>2, TailEvent
  <2>. DEFINE k == j - 1
  <2>4. k \in DOMAIN events' /\ events'[k] = events[j]
    BY <1>1, <2>3, TailEvent
  <2>5. k > i
    BY <2>1, <2>2, <2>3
  <2>. HIDE DEF k
  <2>. QED
    BY <2>2, <2>4, <2>5
<1>3. StartThenKill'
  <2>. SUFFICES ASSUME NEW c \in Containers, NEW i \in DOMAIN events',
                       docker[c].status = "dying", events'[i].status = "start",
                       events'[i].c = c
                PROVE  \E j \in DOMAIN events' :
                          /\ j > i /\ events'[j].status = "kill" /\ events'[j].fatal
                          /\ events'[j].c = c /\ events'[j].ports = docker[c].ports
    BY DEF StartThenKill
  <2>1. i \in Nat /\ i + 1 \in DOMAIN events /\ events'[i] = events[i + 1]
    BY <1>1, TailEvent
  <2>2. PICK j \in DOMAIN events :
           /\ j > i + 1 /\ events[j].status = "kill" /\ events[j].fatal
           /\ events[j].c = c /\ events[j].ports = docker[c].ports
    BY <2>1 DEF LinkInv, StartThenKill
  <2>3. j \in Nat /\ j # 1
    BY <1>1, <2>1, <2>2, TailEvent
  <2>. DEFINE k == j - 1
  <2>4. k \in DOMAIN events' /\ events'[k] = events[j]
    BY <1>1, <2>3, TailEvent
  <2>5. k > i
    BY <2>1, <2>2, <2>3
  <2>. HIDE DEF k
  <2>. QED
    BY <2>2, <2>4, <2>5
<1>. QED
  BY <1>2, <1>3

-----------------------------------------------------------------------------
(* Docker *)

\* What changes about a container changes nothing for the names of others.
LEMMA OneContainer ==
    ASSUME NEW c \in Containers, \A x \in Containers \ {c} : docker'[x] = docker[x], NEW r
    PROVE  /\ Wanted(r)' =>
                 Wanted(r) \/ (docker'[c].status = "running" /\ r \in Names(c, docker'[c].ports))
           /\ Wanted(r) =>
                 Wanted(r)' \/ (docker[c].status = "running" /\ r \in Names(c, docker[c].ports))
           /\ \A d : WantedAt(r, d) =>
                 \/ WantedAt(r, d)'
                 \/ docker[c].status = "running" /\ r \in Names(c, docker[c].ports)
<1>. DEFINE n == docker'
<1>1. /\ Wanted(r)' <=> \E x \in Containers : n[x].status = "running" /\ r \in Names(x, n[x].ports)
      /\ \A d : WantedAt(r, d)' <=>
            \E x \in Containers : /\ n[x].status = "running"
                                  /\ \E b \in Published(n[x].ports) : r = RsID(x, b) /\ d = Dest(b)
  BY Zenon DEF Wanted, WantedAt, Names, Published, RsID, Dest, Host
<1>2. \A x \in Containers \ {c} : n[x] = docker[x]
  OBVIOUS
<1>. HIDE DEF n
<1>3. \A p : r \in Names(c, p) <=> \E b \in Published(p) : r = RsID(c, b)
  BY DEF Names
<1>4. \A d : WantedAt(r, d) =>
         WantedAt(r, d)' \/ (docker[c].status = "running" /\ r \in Names(c, docker[c].ports))
  BY <1>1, <1>2, <1>3 DEF WantedAt
<1>5. Wanted(r) =>
         Wanted(r)' \/ (docker[c].status = "running" /\ r \in Names(c, docker[c].ports))
  BY <1>1, <1>2 DEF Wanted
<1>6. Wanted(r)' => Wanted(r) \/ (n[c].status = "running" /\ r \in Names(c, n[c].ports))
  BY <1>1, <1>2 DEF Wanted
<1>. QED
  BY <1>4, <1>5, <1>6 DEF n

\* Docker's steps only add events and names the link cannot know about. What they make
\* wanted or unwanted has an event, or is one of these.
LEMMA DockerKeeps ==
    ASSUME LinkInv, UNCHANGED <<pool, link>>, astray \subseteq astray',
           \A i \in DOMAIN events : i \in DOMAIN events' /\ events'[i] = events[i],
           \A r \in RsIDs \ astray' : Wanted(r)' => Wanted(r) \/ StartPending(r)',
           \A r \in RsIDs \ astray' : \A d :
               Wanted(r)' /\ WantedAt(r, d) => WantedAt(r, d)' \/ StartPending(r)',
           \A r \in RsIDs \ astray' : ~Wanted(r)' => ~Wanted(r) \/ KillPending(r)'
    PROVE  RemovalStale' /\ CreationFresh' /\ WantedComes' /\ UnwantedGoes'
<1>1. \A r : /\ StartPending(r) => StartPending(r)'
             /\ KillPending(r) => KillPending(r)'
  BY DEF StartPending, KillPending
<1>2. \A r, fn : HasJob(r, fn)' <=> HasJob(r, fn)
  BY DEF HasJob
<1>3. RemovalStale'
  BY <1>1, <1>2 DEF LinkInv, RemovalStale
<1>4. CreationFresh'
  <2>. SUFFICES ASSUME NEW j \in link.jobs, j.fn = "createBackend",
                       RsID(j.c, j.b) \notin astray', Wanted(RsID(j.c, j.b))'
                PROVE  StartPending(RsID(j.c, j.b))' \/ WantedAt(RsID(j.c, j.b), Dest(j.b))'
    BY DEF CreationFresh, RsID, Dest, Host
  <2>. DEFINE r == RsID(j.c, j.b)
              d == Dest(j.b)
  <2>1. r \in RsIDs \ astray'
    BY JobTyped DEF LinkInv
  <2>2. Wanted(r) => StartPending(r) \/ WantedAt(r, d)
    BY <2>1 DEF LinkInv, CreationFresh
  <2>3. Wanted(r)'
    OBVIOUS
  <2>. HIDE DEF r, d
  <2>4. StartPending(r)' \/ WantedAt(r, d)'
    BY <1>1, <2>1, <2>2, <2>3
  <2>. QED
    BY <2>4 DEF r, d
<1>5. WantedComes'
  <2>. SUFFICES ASSUME NEW r \in RsIDs \ astray', Wanted(r)', ~StartPending(r)',
                       link.pc # "boot", ~HasJob(r, "createBackend")
                PROVE  InStep(r, pool[r])'
    BY <1>2 DEF WantedComes, InStep
  <2>1. InStep(r, pool[r])
    BY <1>1 DEF LinkInv, WantedComes
  <2>. QED
    BY <2>1 DEF InStep
<1>6. UnwantedGoes'
  BY <1>1, <1>2 DEF LinkInv, UnwantedGoes
<1>. QED
  BY <1>3, <1>4, <1>5, <1>6

\* An event is added for a link that listens; the names are noted for one that does not.
LEMMA EmitEffect ==
    ASSUME LinkInv, NEW c \in Containers, NEW ports \in PortSets(c),
           NEW status \in {"start", "kill"}, NEW fatal \in BOOLEAN,
           Len(events) < MaxEvents, Emit(status, c, ports, fatal)
    PROVE  /\ events' \in Seq(Event) /\ Len(events') <= MaxEvents
           /\ astray' \subseteq RsIDs /\ astray \subseteq astray'
           /\ ~listening => events' = <<>> /\ Names(c, ports) \subseteq astray'
           /\ \A i \in DOMAIN events :
                 i \in DOMAIN events' /\ events'[i] = events[i] /\ i < Len(events) + 1
           /\ \A i \in DOMAIN events' :
                 \/ i \in DOMAIN events /\ events'[i] = events[i]
                 \/ events'[i] = [status |-> status, c |-> c, ports |-> ports, fatal |-> fatal]
           /\ listening => /\ Len(events) + 1 \in DOMAIN events'
                           /\ events'[Len(events) + 1].status = status
                           /\ events'[Len(events) + 1].c = c
                           /\ events'[Len(events) + 1].ports = ports
                           /\ events'[Len(events) + 1].fatal = fatal
<1>. DEFINE e == [status |-> status, c |-> c, ports |-> ports, fatal |-> fatal]
<1>1. e \in Event
  BY PortsTyped DEF Event
<1>2. events \in Seq(Event) /\ Len(events) <= MaxEvents /\ astray \subseteq RsIDs
  BY DEF LinkInv, LinkTypeOK
<1>3. Len(events) \in Nat /\ MaxEvents \in Nat
  BY <1>2, LinkAssumption
<1>4. e.status = status /\ e.c = c /\ e.ports = ports /\ e.fatal = fatal
  OBVIOUS
<1>5. CASE listening
  <2>1. events' = Append(events, e) /\ astray' = astray
    BY <1>5 DEF Emit
  <2>. HIDE DEF e
  <2>2. \A i \in DOMAIN events' :
           \/ i \in DOMAIN events /\ events'[i] = events[i]
           \/ events'[i] = e
    BY <1>1, <1>2, <2>1, AppendEvent
  <2>3. Len(events') <= MaxEvents
    BY <1>1, <1>2, <1>3, <2>1, AppendEvent
  <2>4. /\ Len(events) + 1 \in DOMAIN events'
        /\ events'[Len(events) + 1] = e
        /\ events' \in Seq(Event)
        /\ \A i \in DOMAIN events :
              i \in DOMAIN events' /\ events'[i] = events[i] /\ i < Len(events) + 1
    BY <1>1, <1>2, <2>1, AppendEvent
  <2>. QED
    BY <1>2, <1>4, <1>5, <2>1, <2>2, <2>3, <2>4 DEF e
<1>6. CASE ~listening
  <2>1. events' = events /\ astray' = astray \cup Names(c, ports)
    BY <1>6 DEF Emit
  <2>2. events = <<>>
    BY <1>6 DEF LinkInv, LinkSane
  <2>3. Names(c, ports) \subseteq RsIDs
    BY PortsTyped
  <2>4. \A i \in DOMAIN events : i < Len(events) + 1
    BY <1>2
  <2>. QED
    BY <1>2, <1>3, <1>6, <2>1, <2>2, <2>3, <2>4
<1>. QED
  BY <1>5, <1>6

LEMMA StartKeeps ==
    ASSUME LinkInv, NEW c \in Containers, NEW ports \in Mappings[c], Start(c, ports)
    PROVE  LinkInv'
<1>. DEFINE n == docker'
<1>1. ports \in PortSets(c) /\ ports \in SUBSET Bindings
  BY PortsTyped DEF PortSets
<1>2. /\ docker[c].status = "exited"
      /\ n \in [Containers -> [status : {"exited", "running", "dying"}, ports : SUBSET Bindings]]
      /\ n[c].status = "running" /\ n[c].ports = ports
      /\ \A x \in Containers \ {c} : n[x] = docker[x]
  BY <1>1 DEF LinkInv, LinkTypeOK, Start
<1>3. /\ UNCHANGED <<lbVars, listening, link, exposed>>
      /\ Len(events) < MaxEvents /\ Emit("start", c, ports, FALSE)
  BY DEF Start
<1>. HIDE DEF n
<1>4. /\ events' \in Seq(Event) /\ Len(events') <= MaxEvents
      /\ astray' \subseteq RsIDs /\ astray \subseteq astray'
      /\ ~listening => events' = <<>> /\ Names(c, ports) \subseteq astray'
      /\ \A i \in DOMAIN events :
            i \in DOMAIN events' /\ events'[i] = events[i] /\ i < Len(events) + 1
      /\ \A i \in DOMAIN events' :
            \/ i \in DOMAIN events /\ events'[i] = events[i]
            \/ events'[i] = [status |-> "start", c |-> c, ports |-> ports, fatal |-> FALSE]
      /\ listening => /\ Len(events) + 1 \in DOMAIN events'
                      /\ events'[Len(events) + 1].status = "start"
                      /\ events'[Len(events) + 1].c = c
                      /\ events'[Len(events) + 1].ports = ports
                      /\ events'[Len(events) + 1].fatal = FALSE
  BY <1>1, <1>3, EmitEffect
<1>5. LinkTypeOK'
  BY <1>2, <1>3, <1>4 DEF LinkInv, LinkTypeOK, LBTypeOK, lbVars, n
<1>6. DockerSane'
  <2>1. \A x \in Containers : /\ n[x].status = "exited" => n[x].ports = {}
                              /\ n[x].ports \in PortSets(x)
    BY <1>1, <1>2 DEF LinkInv, DockerSane
  <2>2. \A i \in DOMAIN events' : events'[i].ports \in PortSets(events'[i].c)
    BY <1>1, <1>4 DEF LinkInv, DockerSane
  <2>. QED
    BY <2>1, <2>2 DEF DockerSane, PortSets, n
<1>7. LinkSane'
  BY <1>3, <1>4 DEF LinkInv, LinkSane, PortSets, Published
<1>8. KillThenStart'
  <2>. SUFFICES ASSUME NEW x \in Containers, NEW i \in DOMAIN events',
                       n[x].status = "running", events'[i].status = "kill",
                       events'[i].fatal, events'[i].c = x
                PROVE  \E j \in DOMAIN events' :
                          /\ j > i /\ events'[j].status = "start" /\ events'[j].c = x
                          /\ events'[j].ports = n[x].ports
    BY DEF KillThenStart, n
  <2>1. i \in DOMAIN events /\ events'[i] = events[i]
    BY <1>4
  <2>2. CASE x = c
    <3>1. listening
      BY <1>4, <2>1
    <3>2. Len(events) + 1 > i
      BY <1>4, <2>1 DEF LinkInv, LinkTypeOK
    <3>. QED
      BY <1>2, <1>4, <2>2, <3>1, <3>2
  <2>3. CASE x # c
    BY <1>2, <1>4, <2>1, <2>3 DEF LinkInv, KillThenStart
  <2>. QED
    BY <2>2, <2>3
<1>9. StartThenKill'
  <2>. SUFFICES ASSUME NEW x \in Containers, NEW i \in DOMAIN events',
                       n[x].status = "dying", events'[i].status = "start", events'[i].c = x
                PROVE  \E j \in DOMAIN events' :
                          /\ j > i /\ events'[j].status = "kill" /\ events'[j].fatal
                          /\ events'[j].c = x /\ events'[j].ports = n[x].ports
    BY DEF StartThenKill, n
  <2>1. x # c
    BY <1>2
  <2>2. i \in DOMAIN events /\ events'[i] = events[i]
    BY <1>4, <2>1
  <2>. QED
    BY <1>2, <1>4, <2>1, <2>2 DEF LinkInv, StartThenKill
<1>10. ASSUME NEW r \in RsIDs \ astray', r \in Names(c, ports)
       PROVE  StartPending(r)'
  <2>. DEFINE i == Len(events) + 1
  <2>1. /\ i \in DOMAIN events' /\ events'[i].status = "start"
        /\ events'[i].c = c /\ events'[i].ports = ports
    BY <1>4, <1>10
  <2>. HIDE DEF i
  <2>2. r \in Names(events'[i].c, events'[i].ports)
    BY <1>10, <2>1
  <2>. QED
    BY <2>1, <2>2 DEF StartPending, Names, Published, RsID
<1>11. RemovalStale' /\ CreationFresh' /\ WantedComes' /\ UnwantedGoes'
  <2>1. \A r \in RsIDs \ astray' : Wanted(r)' => Wanted(r) \/ StartPending(r)'
    BY <1>2, <1>10, OneContainer DEF n
  <2>2. \A r \in RsIDs \ astray' : \A d : WantedAt(r, d) => WantedAt(r, d)'
    BY <1>2, OneContainer DEF n
  <2>3. \A r \in RsIDs \ astray' : Wanted(r) => Wanted(r)'
    BY <1>2, OneContainer DEF n
  <2>. QED
    BY <1>3, <1>4, <2>1, <2>2, <2>3, DockerKeeps DEF lbVars
<1>. QED
  BY <1>5, <1>6, <1>7, <1>8, <1>9, <1>11 DEF LinkInv

\* The names of a container that does not run any more are wanted by no other.
LEMMA GoneNotWanted ==
    ASSUME NEW c \in Containers, docker'[c].status # "running", NEW p, NEW r \in Names(c, p)
    PROVE  ~Wanted(r)'
<1>. DEFINE n == docker'
<1>1. Wanted(r)' <=> \E x \in Containers : n[x].status = "running" /\ r \in Names(x, n[x].ports)
  BY Zenon DEF Wanted, Names, Published, RsID
<1>2. n[c].status # "running"
  OBVIOUS
<1>. HIDE DEF n
<1>. QED
  BY <1>1, <1>2, NameOwner

LEMMA KillKeeps ==
    ASSUME LinkInv, NEW c \in Containers, Kill(c)
    PROVE  LinkInv'
<1>. DEFINE n == docker'
            ports == docker[c].ports
<1>1. ports \in PortSets(c) /\ ports \in SUBSET Bindings
  BY PortsTyped DEF LinkInv, DockerSane
<1>2. /\ docker[c].status \in {"running", "dying"}
      /\ n \in [Containers -> [status : {"exited", "running", "dying"}, ports : SUBSET Bindings]]
      /\ n[c].status = "dying" /\ n[c].ports = ports
      /\ \A x \in Containers \ {c} : n[x] = docker[x]
  BY DEF LinkInv, LinkTypeOK, Kill
<1>3. /\ UNCHANGED <<lbVars, listening, link, exposed>>
      /\ Len(events) < MaxEvents /\ Emit("kill", c, ports, TRUE)
  BY DEF Kill
<1>. HIDE DEF n, ports
<1>4. /\ events' \in Seq(Event) /\ Len(events') <= MaxEvents
      /\ astray' \subseteq RsIDs /\ astray \subseteq astray'
      /\ ~listening => events' = <<>> /\ Names(c, ports) \subseteq astray'
      /\ \A i \in DOMAIN events :
            i \in DOMAIN events' /\ events'[i] = events[i] /\ i < Len(events) + 1
      /\ \A i \in DOMAIN events' :
            \/ i \in DOMAIN events /\ events'[i] = events[i]
            \/ events'[i] = [status |-> "kill", c |-> c, ports |-> ports, fatal |-> TRUE]
      /\ listening => /\ Len(events) + 1 \in DOMAIN events'
                      /\ events'[Len(events) + 1].status = "kill"
                      /\ events'[Len(events) + 1].c = c
                      /\ events'[Len(events) + 1].ports = ports
                      /\ events'[Len(events) + 1].fatal = TRUE
  BY <1>1, <1>3, EmitEffect
<1>5. LinkTypeOK'
  BY <1>2, <1>3, <1>4 DEF LinkInv, LinkTypeOK, LBTypeOK, lbVars, n
<1>6. DockerSane'
  <2>1. \A x \in Containers : /\ n[x].status = "exited" => n[x].ports = {}
                              /\ n[x].ports \in PortSets(x)
    BY <1>1, <1>2 DEF LinkInv, DockerSane
  <2>2. \A i \in DOMAIN events' : events'[i].ports \in PortSets(events'[i].c)
    BY <1>1, <1>4 DEF LinkInv, DockerSane
  <2>. QED
    BY <2>1, <2>2 DEF DockerSane, PortSets, n
<1>7. LinkSane'
  BY <1>3, <1>4 DEF LinkInv, LinkSane, PortSets, Published
<1>8. KillThenStart'
  <2>. SUFFICES ASSUME NEW x \in Containers, NEW i \in DOMAIN events',
                       n[x].status = "running", events'[i].status = "kill",
                       events'[i].fatal, events'[i].c = x
                PROVE  \E j \in DOMAIN events' :
                          /\ j > i /\ events'[j].status = "start" /\ events'[j].c = x
                          /\ events'[j].ports = n[x].ports
    BY DEF KillThenStart, n
  <2>1. x # c
    BY <1>2
  <2>2. i \in DOMAIN events /\ events'[i] = events[i]
    BY <1>4, <2>1
  <2>. QED
    BY <1>2, <1>4, <2>1, <2>2 DEF LinkInv, KillThenStart
<1>9. StartThenKill'
  <2>. SUFFICES ASSUME NEW x \in Containers, NEW i \in DOMAIN events',
                       n[x].status = "dying", events'[i].status = "start", events'[i].c = x
                PROVE  \E j \in DOMAIN events' :
                          /\ j > i /\ events'[j].status = "kill" /\ events'[j].fatal
                          /\ events'[j].c = x /\ events'[j].ports = n[x].ports
    BY DEF StartThenKill, n
  <2>1. i \in DOMAIN events /\ events'[i] = events[i]
    BY <1>4
  <2>2. CASE x = c
    <3>1. listening
      BY <1>4, <2>1
    <3>2. Len(events) + 1 > i
      BY <1>4, <2>1 DEF LinkInv, LinkTypeOK
    <3>. QED
      BY <1>2, <1>4, <2>2, <3>1, <3>2
  <2>3. CASE x # c
    BY <1>2, <1>4, <2>1, <2>3 DEF LinkInv, StartThenKill
  <2>. QED
    BY <2>2, <2>3
<1>10. ASSUME NEW r \in RsIDs \ astray', r \in Names(c, ports)
       PROVE  KillPending(r)'
  <2>. DEFINE i == Len(events) + 1
  <2>1. /\ i \in DOMAIN events' /\ events'[i].status = "kill" /\ events'[i].fatal
        /\ events'[i].c = c /\ events'[i].ports = ports
    BY <1>4, <1>10
  <2>. HIDE DEF i
  <2>2. r \in Names(events'[i].c, events'[i].ports)
    BY <1>10, <2>1
  <2>. QED
    BY <2>1, <2>2 DEF KillPending, Names, Published, RsID
<1>11. RemovalStale' /\ CreationFresh' /\ WantedComes' /\ UnwantedGoes'
  <2>1. \A r \in RsIDs \ astray' : Wanted(r)' => Wanted(r)
    BY <1>2, OneContainer DEF n
  <2>2. \A r : r \in Names(c, ports) => ~Wanted(r)'
    BY <1>2, GoneNotWanted DEF n
  <2>3. \A r \in RsIDs \ astray' : \A d : Wanted(r)' /\ WantedAt(r, d) => WantedAt(r, d)'
    BY <1>2, <2>2, OneContainer DEF n, ports
  <2>4. \A r \in RsIDs \ astray' : ~Wanted(r)' => ~Wanted(r) \/ KillPending(r)'
    BY <1>2, <1>10, OneContainer DEF n, ports
  <2>. QED
    BY <1>3, <1>4, <2>1, <2>3, <2>4, DockerKeeps DEF lbVars
<1>. QED
  BY <1>5, <1>6, <1>7, <1>8, <1>9, <1>11 DEF LinkInv

LEMMA SignalKeeps ==
    ASSUME LinkInv, NEW c \in Containers, Signal(c)
    PROVE  LinkInv'
<1>. DEFINE ports == docker[c].ports
<1>1. ports \in PortSets(c) /\ ports \in SUBSET Bindings
  BY PortsTyped DEF LinkInv, DockerSane
<1>2. /\ UNCHANGED <<lbVars, docker, listening, link, exposed>>
      /\ Len(events) < MaxEvents /\ Emit("kill", c, ports, FALSE)
  BY DEF Signal
<1>. HIDE DEF ports
<1>3. /\ events' \in Seq(Event) /\ Len(events') <= MaxEvents
      /\ astray' \subseteq RsIDs /\ astray \subseteq astray'
      /\ ~listening => events' = <<>> /\ Names(c, ports) \subseteq astray'
      /\ \A i \in DOMAIN events :
            i \in DOMAIN events' /\ events'[i] = events[i] /\ i < Len(events) + 1
      /\ \A i \in DOMAIN events' :
            \/ i \in DOMAIN events /\ events'[i] = events[i]
            \/ events'[i] = [status |-> "kill", c |-> c, ports |-> ports, fatal |-> FALSE]
      /\ listening => /\ Len(events) + 1 \in DOMAIN events'
                      /\ events'[Len(events) + 1].status = "kill"
                      /\ events'[Len(events) + 1].c = c
                      /\ events'[Len(events) + 1].ports = ports
                      /\ events'[Len(events) + 1].fatal = FALSE
  BY <1>1, <1>2, EmitEffect
<1>4. LinkTypeOK'
  BY <1>2, <1>3 DEF LinkInv, LinkTypeOK, LBTypeOK, lbVars
<1>5. DockerSane'
  <2>1. \A i \in DOMAIN events' : events'[i].ports \in PortSets(events'[i].c)
    BY <1>1, <1>3 DEF LinkInv, DockerSane
  <2>. QED
    BY <1>2, <2>1 DEF LinkInv, DockerSane, PortSets
<1>6. LinkSane'
  BY <1>2, <1>3 DEF LinkInv, LinkSane, PortSets, Published
<1>7. KillThenStart' /\ StartThenKill'
  <2>1. \A i \in DOMAIN events' : (events'[i].status = "start" \/ events'[i].fatal) =>
                                     i \in DOMAIN events /\ events'[i] = events[i]
    BY <1>3
  <2>2. \A i \in DOMAIN events : i \in DOMAIN events' /\ events'[i] = events[i]
    BY <1>3
  <2>3. KillThenStart'
    BY <1>2, <2>1, <2>2 DEF LinkInv, KillThenStart
  <2>4. StartThenKill'
    BY <1>2, <2>1, <2>2 DEF LinkInv, StartThenKill
  <2>. QED
    BY <2>3, <2>4
<1>8. RemovalStale' /\ CreationFresh' /\ WantedComes' /\ UnwantedGoes'
  <2>1. \A r : Wanted(r)' <=> Wanted(r)
    BY <1>2 DEF Wanted
  <2>2. \A r, d : WantedAt(r, d)' <=> WantedAt(r, d)
    BY <1>2 DEF WantedAt
  <2>. QED
    BY <1>2, <1>3, <2>1, <2>2, DockerKeeps DEF lbVars
<1>. QED
  BY <1>4, <1>5, <1>6, <1>7, <1>8 DEF LinkInv

LEMMA ExitKeeps ==
    ASSUME LinkInv, NEW c \in Containers, Exit(c)
    PROVE  LinkInv'
<1>. DEFINE n == docker'
            ports == docker[c].ports
<1>1. Names(c, ports) \subseteq RsIDs
  BY PortsTyped DEF LinkInv, DockerSane
<1>2. /\ n \in [Containers -> [status : {"exited", "running", "dying"}, ports : SUBSET Bindings]]
      /\ n[c].status = "exited" /\ n[c].ports = {}
      /\ \A x \in Containers \ {c} : n[x] = docker[x]
  BY DEF LinkInv, LinkTypeOK, Exit
<1>3. /\ UNCHANGED <<lbVars, events, listening, link, exposed>>
      /\ astray \subseteq astray' /\ astray' \subseteq astray \cup Names(c, ports)
      /\ docker[c].status = "running" => Names(c, ports) \subseteq astray'
  BY DEF Exit
<1>. HIDE DEF n, ports
<1>4. LinkTypeOK'
  BY <1>1, <1>2, <1>3 DEF LinkInv, LinkTypeOK, LBTypeOK, lbVars, n
<1>5. DockerSane'
  <2>1. \A x \in Containers : /\ n[x].status = "exited" => n[x].ports = {}
                              /\ n[x].ports \in PortSets(x)
    BY <1>2 DEF LinkInv, DockerSane, PortSets
  <2>. QED
    BY <1>3, <2>1 DEF LinkInv, DockerSane, PortSets, n
<1>6. LinkSane'
  BY <1>3 DEF LinkInv, LinkSane, PortSets, Published
<1>7. KillThenStart'
  <2>1. \A x \in Containers : n[x].status = "running" =>
                                 docker[x].status = "running" /\ n[x].ports = docker[x].ports
    BY <1>2
  <2>. QED
    BY <1>3, <2>1 DEF LinkInv, KillThenStart, n
<1>8. StartThenKill'
  <2>1. \A x \in Containers : n[x].status = "dying" =>
                                 docker[x].status = "dying" /\ n[x].ports = docker[x].ports
    BY <1>2
  <2>. QED
    BY <1>3, <2>1 DEF LinkInv, StartThenKill, n
<1>9. RemovalStale' /\ CreationFresh' /\ WantedComes' /\ UnwantedGoes'
  <2>1. \A r \in RsIDs \ astray' : Wanted(r)' => Wanted(r)
    BY <1>2, OneContainer DEF n
  <2>2. \A r \in RsIDs \ astray' : \A d : WantedAt(r, d) => WantedAt(r, d)'
    BY <1>2, <1>3, OneContainer DEF n, ports
  <2>3. \A r \in RsIDs \ astray' : Wanted(r) => Wanted(r)'
    BY <1>2, <1>3, OneContainer DEF n, ports
  <2>. QED
    BY <1>3, <2>1, <2>2, <2>3, DockerKeeps DEF lbVars
<1>. QED
  BY <1>4, <1>5, <1>6, <1>7, <1>8, <1>9 DEF LinkInv

-----------------------------------------------------------------------------
(* The link: main *)

LEMMA SameDocker ==
    ASSUME UNCHANGED docker
    PROVE  /\ \A r : Wanted(r)' <=> Wanted(r)
           /\ \A r, d : WantedAt(r, d)' <=> WantedAt(r, d)
  BY DEF Wanted, WantedAt

LEMMA SameEvents ==
    ASSUME UNCHANGED events
    PROVE  /\ \A r : StartPending(r)' <=> StartPending(r)
           /\ \A r : KillPending(r)' <=> KillPending(r)
  BY DEF StartPending, KillPending

LEMMA SameOrder ==
    ASSUME LinkInv, UNCHANGED <<docker, events>>
    PROVE  DockerSane' /\ KillThenStart' /\ StartThenKill'
  BY DEF LinkInv, DockerSane, PortSets, KillThenStart, StartThenKill

LEMMA ListContainersKeeps ==
    ASSUME LinkInv, ListContainers
    PROVE  LinkInv'
<1>. DEFINE P(c) == docker[c].ports
            ending == {x \in Containers : docker[x].status = "dying"}
            jobs == UNION {Jobs("createBackend", c, P(c)) : c \in Containers}
<1>1. /\ link.pc = "boot" /\ link.jobs = {} /\ ~listening /\ events = <<>>
      /\ link' = [pc |-> "work", job |-> None, jobs |-> jobs]
      /\ astray' = astray \cup UNION {Names(c, P(c)) : c \in ending}
      /\ UNCHANGED <<lbVars, docker, events, listening, exposed>>
  BY DEF ListContainers, LinkInv, LinkSane
<1>2. \A c \in Containers : P(c) \in PortSets(c) /\ Names(c, P(c)) \subseteq RsIDs
  BY PortsTyped DEF LinkInv, DockerSane
<1>3. jobs \subseteq Job
  BY <1>2, JobsTyped
<1>4. \A j \in jobs :
         /\ j.c \in Containers /\ j.fn = "createBackend" /\ j.b \in Published(P(j.c))
         /\ RsID(j.c, j.b) \in Names(j.c, P(j.c))
  BY JobsAre
<1>5. \A c \in Containers : \A r \in Names(c, P(c)) :
         \E j \in jobs : j.fn = "createBackend" /\ RsID(j.c, j.b) = r
  <2>. SUFFICES ASSUME NEW c \in Containers, NEW r \in Names(c, P(c))
                PROVE  \E j \in jobs : j.fn = "createBackend" /\ RsID(j.c, j.b) = r
    OBVIOUS
  <2>1. PICK j \in Jobs("createBackend", c, P(c)) : RsID(j.c, j.b) = r
    BY JobsAre
  <2>2. j \in jobs
    BY <2>1
  <2>. QED
    BY <1>4, <2>1, <2>2
<1>6. /\ astray \subseteq astray' /\ astray' \subseteq RsIDs
      /\ \A c \in ending : Names(c, P(c)) \subseteq astray'
  <2>1. astray \subseteq RsIDs
    BY DEF LinkInv, LinkTypeOK
  <2>. QED
    BY <1>1, <1>2, <2>1
<1>7. link'.pc = "work" /\ link'.job = None /\ link'.jobs = jobs
  BY <1>1
<1>8. \A c \in Containers : P(c)' = P(c)
  BY <1>1
<1>9. LinkTypeOK'
  BY <1>1, <1>3, <1>6, <1>7 DEF LinkInv, LinkTypeOK, LBTypeOK, lbVars
<1>10. LinkSane'
  <2>1. link' \in [pc : {"boot", "work", "getService", "createService", "createBackend",
                         "removeBackend"},
                   jobs : SUBSET Job, job : Job \cup {None}]
    BY <1>1, <1>3
  <2>. HIDE DEF jobs, P
  <2>2. \A j \in jobs : \E ports \in PortSets(j.c) : j.b \in Published(ports)
    BY <1>2, <1>4
  <2>. QED
    BY <1>1, <1>4, <1>7, <2>1, <2>2 DEF LinkSane, PortSets, Published
<1>11. \A r : Wanted(r) => \E c \in Containers : r \in Names(c, P(c))
  BY DEF Wanted
<1>12. ASSUME NEW j \in jobs, RsID(j.c, j.b) \notin astray'
       PROVE  Wanted(RsID(j.c, j.b)) /\ WantedAt(RsID(j.c, j.b), Dest(j.b))
  <2>1. /\ j.c \in Containers /\ j.b \in Published(docker[j.c].ports)
        /\ RsID(j.c, j.b) \in Names(j.c, docker[j.c].ports)
    BY <1>4
  <2>2. docker[j.c].status # "dying"
    BY <1>6, <1>12, <2>1
  <2>3. docker[j.c].status # "exited"
    BY <2>1 DEF LinkInv, DockerSane, Published
  <2>4. docker[j.c].status = "running"
    BY <2>1, <2>2, <2>3 DEF LinkInv, LinkTypeOK
  <2>. QED
    BY <2>1, <2>4 DEF Wanted, WantedAt
<1>. HIDE DEF jobs, P, ending
<1>13. \A r : HasJob(r, "createBackend")' <=>
                 \E j \in jobs : j.fn = "createBackend" /\ RsID(j.c, j.b) = r
  BY <1>7 DEF HasJob, RsID
<1>14. \A r : ~HasJob(r, "removeBackend")'
  BY <1>4, <1>7 DEF HasJob
<1>15. RemovalStale'
  BY <1>14 DEF RemovalStale
<1>16. CreationFresh'
  <2>. SUFFICES ASSUME NEW j \in jobs, RsID(j.c, j.b) \notin astray'
                PROVE  WantedAt(RsID(j.c, j.b), Dest(j.b))'
    BY <1>7 DEF CreationFresh
  <2>. QED
    BY <1>1, <1>12, SameDocker
<1>17. WantedComes'
  BY <1>1, <1>5, <1>11, <1>13, SameDocker DEF WantedComes
<1>18. UnwantedGoes'
  <2>. SUFFICES ASSUME NEW r \in RsIDs \ astray', ~Wanted(r)'
                PROVE  pool'[r] = None /\ ~HasJob(r, "createBackend")'
    BY DEF UnwantedGoes
  <2>1. ~Wanted(r) /\ r \in RsIDs \ astray
    BY <1>1, <1>6, SameDocker
  <2>2. ~KillPending(r) /\ ~HasJob(r, "removeBackend")
    BY <1>1 DEF KillPending, HasJob
  <2>3. pool[r] = None
    BY <2>1, <2>2 DEF LinkInv, UnwantedGoes
  <2>. QED
    BY <1>1, <1>12, <1>13, <2>1, <2>3 DEF lbVars
<1>. QED
  BY <1>1, <1>9, <1>10, <1>15, <1>16, <1>17, <1>18, SameOrder DEF LinkInv

\* Steps that leave Docker, the events, the backends and the jobs alone.
LEMMA IdleKeeps ==
    ASSUME LinkInv, LinkTypeOK', LinkSane', UNCHANGED <<docker, events, pool, astray>>,
           link'.jobs = link.jobs, link'.pc = link.pc \/ link.pc # "boot"
    PROVE  LinkInv'
<1>1. \A r, fn : HasJob(r, fn)' <=> HasJob(r, fn)
  BY DEF HasJob
<1>2. RemovalStale'
  BY <1>1, SameDocker, SameEvents DEF LinkInv, RemovalStale
<1>3. CreationFresh'
  BY SameDocker, SameEvents DEF LinkInv, CreationFresh
<1>4. WantedComes'
  BY <1>1, SameDocker, SameEvents DEF LinkInv, WantedComes, InStep
<1>5. UnwantedGoes'
  BY <1>1, SameDocker, SameEvents DEF LinkInv, UnwantedGoes
<1>. QED
  BY <1>2, <1>3, <1>4, <1>5, SameOrder DEF LinkInv

LEMMA AddEventListenerKeeps ==
    ASSUME LinkInv, AddEventListener
    PROVE  LinkInv'
<1>1. LinkTypeOK'
  BY DEF LinkInv, AddEventListener, LinkTypeOK, LBTypeOK, lbVars
<1>2. LinkSane'
  BY DEF LinkInv, AddEventListener, LinkSane, PortSets, Published
<1>. QED
  BY <1>1, <1>2, IdleKeeps DEF AddEventListener, lbVars

LEMMA BeginKeeps ==
    ASSUME LinkInv, NEW j \in link.jobs, Begin(j)
    PROVE  LinkInv'
<1>. DEFINE pc == IF j.fn = "createBackend" /\ VsID(j.c, j.b) \notin exposed
                    THEN "getService" ELSE j.fn
<1>1. /\ link' = [jobs |-> link.jobs, job |-> j, pc |-> pc] /\ link.pc = "work"
      /\ UNCHANGED <<lbVars, docker, events, listening, exposed, astray>>
  BY DEF Begin
<1>2. j \in Job /\ j.fn \in {"createBackend", "removeBackend"} /\ link.jobs \in SUBSET Job
  BY DEF LinkInv, LinkSane, Job
<1>3. /\ j.fn = "createBackend" => pc \in {"getService", "createBackend"}
      /\ j.fn = "removeBackend" => pc = "removeBackend"
  OBVIOUS
<1>. HIDE DEF pc
<1>4. link'.jobs = link.jobs /\ link'.job = j /\ link'.pc = pc
  BY <1>1
<1>5. LinkTypeOK'
  BY <1>1, <1>2, <1>3, <1>4 DEF LinkInv, LinkTypeOK, LBTypeOK, lbVars
<1>6. LinkSane'
  BY <1>1, <1>2, <1>3, <1>4 DEF LinkInv, LinkSane, PortSets, Published
<1>. QED
  BY <1>1, <1>4, <1>5, <1>6, IdleKeeps DEF lbVars

\* What the event that is taken stood for is the only thing that no longer waits.
LEMMA TailPending ==
    ASSUME LinkInv, events # <<>>, events' = Tail(events), NEW r
    PROVE  /\ StartPending(r) =>
                 StartPending(r)' \/ (/\ Head(events).status = "start"
                                      /\ r \in Names(Head(events).c, Head(events).ports))
           /\ KillPending(r) =>
                 KillPending(r)' \/ (/\ Head(events).status = "kill" /\ Head(events).fatal
                                     /\ r \in Names(Head(events).c, Head(events).ports))
<1>. DEFINE n == events'
<1>1. /\ Head(events) = events[1]
      /\ \A i \in DOMAIN events : i = 1 \/ (i - 1 \in DOMAIN n /\ n[i - 1] = events[i])
  BY TailEvent DEF LinkInv, LinkTypeOK
<1>2. /\ StartPending(r)' <=> \E i \in DOMAIN n :
            n[i].status = "start" /\ r \in Names(n[i].c, n[i].ports)
      /\ KillPending(r)' <=> \E i \in DOMAIN n :
            n[i].status = "kill" /\ n[i].fatal /\ r \in Names(n[i].c, n[i].ports)
  BY Zenon DEF StartPending, KillPending, Names, Published, RsID
<1>. HIDE DEF n
<1>. QED
  BY <1>1, <1>2 DEF StartPending, KillPending

LEMMA TailTyped ==
    ASSUME LinkInv, events # <<>>, events' = Tail(events), UNCHANGED docker
    PROVE  /\ events' \in Seq(Event) /\ Len(events') <= MaxEvents
           /\ Head(events) \in Event /\ Head(events) = events[1] /\ 1 \in DOMAIN events
           /\ Head(events).c \in Containers
           /\ Head(events).ports \in PortSets(Head(events).c)
           /\ Names(Head(events).c, Head(events).ports) \subseteq RsIDs
           /\ DockerSane'
<1>1. events \in Seq(Event) /\ Len(events) <= MaxEvents /\ MaxEvents \in Nat
  BY LinkAssumption DEF LinkInv, LinkTypeOK
<1>2. events' \in Seq(Event) /\ Len(events') <= MaxEvents
  BY <1>1, TailEvent
<1>3. Head(events) \in Event /\ Head(events) = events[1] /\ 1 \in DOMAIN events
  BY <1>1, TailEvent
<1>4. Head(events).c \in Containers /\ Head(events).ports \in PortSets(Head(events).c)
  BY <1>3 DEF LinkInv, DockerSane, Event
<1>5. \A i \in DOMAIN events' : events'[i].ports \in PortSets(events'[i].c)
  BY <1>1, TailEvent DEF LinkInv, DockerSane
<1>. QED
  BY <1>2, <1>3, <1>4, <1>5, PortsTyped DEF LinkInv, DockerSane, PortSets

LEMMA InspectFailsKeeps ==
    ASSUME LinkInv, InspectFails
    PROVE  LinkInv'
<1>. DEFINE e == Head(events)
<1>1. /\ events # <<>> /\ events' = Tail(events) /\ link.pc = "work"
      /\ astray' = astray \cup Names(e.c, e.ports)
      /\ UNCHANGED <<lbVars, docker, listening, link, exposed>>
  BY DEF InspectFails
<1>2. /\ events' \in Seq(Event) /\ Len(events') <= MaxEvents
      /\ Names(e.c, e.ports) \subseteq RsIDs /\ DockerSane'
  BY <1>1, TailTyped
<1>3. \A r \in RsIDs \ astray' : /\ StartPending(r) => StartPending(r)'
                                 /\ KillPending(r) => KillPending(r)'
                                 /\ r \in RsIDs \ astray
  BY <1>1, TailPending
<1>. HIDE DEF e
<1>4. LinkTypeOK'
  BY <1>1, <1>2 DEF LinkInv, LinkTypeOK, LBTypeOK, lbVars
<1>5. LinkSane'
  BY <1>1 DEF LinkInv, LinkSane, PortSets, Published
<1>6. \A r, fn : HasJob(r, fn)' <=> HasJob(r, fn)
  BY <1>1 DEF HasJob
<1>7. RemovalStale'
  BY <1>1, <1>3, <1>6, SameDocker DEF LinkInv, RemovalStale
<1>8. CreationFresh'
  <2>. SUFFICES ASSUME NEW j \in link.jobs, j.fn = "createBackend",
                       RsID(j.c, j.b) \notin astray', Wanted(RsID(j.c, j.b))
                PROVE  StartPending(RsID(j.c, j.b))' \/ WantedAt(RsID(j.c, j.b), Dest(j.b))
    BY <1>1, SameDocker DEF CreationFresh
  <2>1. RsID(j.c, j.b) \in RsIDs \ astray'
    BY JobTyped DEF LinkInv
  <2>. QED
    BY <1>3, <2>1 DEF LinkInv, CreationFresh
<1>9. WantedComes'
  BY <1>1, <1>3, <1>6, SameDocker DEF LinkInv, WantedComes, InStep, lbVars
<1>10. UnwantedGoes'
  BY <1>1, <1>3, <1>6, SameDocker DEF LinkInv, UnwantedGoes, lbVars
<1>. QED
  BY <1>1, <1>2, <1>4, <1>5, <1>7, <1>8, <1>9, <1>10, TailOrder DEF LinkInv

LEMMA ReceiveKeeps ==
    ASSUME LinkInv, Receive
    PROVE  LinkInv'
<1>. DEFINE e == Head(events)
            ports == docker[e.c].ports
            jobs == Jobs(actions[e.status], e.c, ports)
<1>1. /\ link.pc = "work" /\ link.jobs = {} /\ link.job = None
      /\ events # <<>> /\ events' = Tail(events)
      /\ link' = [link EXCEPT !.jobs = jobs]
      /\ UNCHANGED <<lbVars, docker, listening, exposed>>
  BY DEF Receive, LinkInv, LinkTypeOK
<1>2. /\ events' \in Seq(Event) /\ Len(events') <= MaxEvents
      /\ e \in Event /\ e = events[1] /\ 1 \in DOMAIN events /\ e.c \in Containers
      /\ Names(e.c, e.ports) \subseteq RsIDs /\ DockerSane'
  BY <1>1, TailTyped
<1>3. ports \in PortSets(e.c) /\ Names(e.c, ports) \subseteq RsIDs
  BY <1>2, PortsTyped DEF LinkInv, DockerSane
<1>4. {RsID(j.c, j.b) : j \in jobs} = Names(e.c, ports)
  <2>1. JobNames(jobs) = Names(e.c, ports)
    BY JobsAre
  <2>. QED
    BY <2>1 DEF JobNames
<1>5. astray' = IF e.status = "kill"
                  THEN astray \cup (Names(e.c, e.ports) \ Names(e.c, ports))
                              \cup (IF e.fatal THEN {} ELSE Names(e.c, ports))
                  ELSE astray
  BY <1>4 DEF Receive
<1>6. e.status \in {"start", "kill"} /\ e.fatal \in BOOLEAN
  BY <1>2 DEF Event
<1>7. /\ e.status = "start" => actions[e.status] = "createBackend"
      /\ e.status = "kill" => actions[e.status] = "removeBackend"
  BY DEF actions
<1>8. jobs \subseteq Job
  BY <1>2, <1>3, <1>6, <1>7, JobsTyped
<1>9. \A j \in jobs : /\ j.fn = actions[e.status] /\ j.c = e.c /\ j.b \in Published(ports)
                      /\ RsID(j.c, j.b) \in Names(e.c, ports)
  BY JobsAre
<1>10. \A r \in Names(e.c, ports) : \E j \in jobs : RsID(j.c, j.b) = r
  BY JobsAre
<1>11. link'.pc = "work" /\ link'.jobs = jobs /\ link'.job = None
  BY <1>1 DEF LinkInv, LinkSane
<1>12. link' \in [pc : {"boot", "work", "getService", "createService", "createBackend",
                        "removeBackend"},
                  jobs : SUBSET Job, job : Job \cup {None}]
  BY <1>1, <1>8 DEF LinkInv, LinkSane
<1>13. \A r : /\ StartPending(r) => StartPending(r)'
                                    \/ (e.status = "start" /\ r \in Names(e.c, e.ports))
              /\ KillPending(r) => KillPending(r)'
                                   \/ (e.status = "kill" /\ e.fatal /\ r \in Names(e.c, e.ports))
  BY <1>1, TailPending
<1>14. /\ docker[e.c].status \in {"exited", "running", "dying"}
       /\ docker[e.c].status = "exited" => Names(e.c, ports) = {}
       /\ \A r : Wanted(r) /\ (r \in Names(e.c, e.ports) \/ r \in Names(e.c, ports)) =>
                    docker[e.c].status = "running" /\ r \in Names(e.c, ports)
  <2>1. docker[e.c].status \in {"exited", "running", "dying"}
    BY <1>2 DEF LinkInv, LinkTypeOK
  <2>2. docker[e.c].status = "exited" => Names(e.c, ports) = {}
    BY <1>2 DEF LinkInv, DockerSane, Names, Published
  <2>3. ASSUME NEW r, Wanted(r), r \in Names(e.c, e.ports) \/ r \in Names(e.c, ports)
        PROVE  docker[e.c].status = "running" /\ r \in Names(e.c, ports)
    <3>1. PICK x \in Containers : docker[x].status = "running" /\ r \in Names(x, docker[x].ports)
      BY <2>3 DEF Wanted
    <3>2. x = e.c
      BY <2>3, <3>1, NameOwner
    <3>. QED
      BY <3>1, <3>2
  <2>. QED
    BY <2>1, <2>2, <2>3
<1>15. e.status = "start" /\ docker[e.c].status = "dying" =>
          \A r \in Names(e.c, ports) : KillPending(r)'
  <2>. SUFFICES ASSUME e.status = "start", docker[e.c].status = "dying",
                       NEW r \in Names(e.c, ports)
                PROVE  KillPending(r)'
    OBVIOUS
  <2>1. PICK i \in DOMAIN events :
           /\ events[i].status = "kill" /\ events[i].fatal
           /\ events[i].c = e.c /\ events[i].ports = ports
    BY <1>2 DEF LinkInv, StartThenKill
  <2>2. KillPending(r)
    BY <2>1 DEF KillPending
  <2>. QED
    BY <1>13, <2>2
<1>16. e.status = "kill" /\ e.fatal /\ docker[e.c].status = "running" =>
          \A r \in Names(e.c, ports) : StartPending(r)'
  <2>. SUFFICES ASSUME e.status = "kill", e.fatal, docker[e.c].status = "running",
                       NEW r \in Names(e.c, ports)
                PROVE  StartPending(r)'
    OBVIOUS
  <2>1. PICK i \in DOMAIN events :
           /\ events[i].status = "start" /\ events[i].c = e.c /\ events[i].ports = ports
    BY <1>2 DEF LinkInv, KillThenStart
  <2>2. StartPending(r)
    BY <2>1 DEF StartPending
  <2>. QED
    BY <1>13, <2>2
<1>17. /\ \A r \in Names(e.c, ports) : \A fn : fn = actions[e.status] => HasJob(r, fn)'
       /\ \A r, fn : HasJob(r, fn)' => fn = actions[e.status] /\ r \in Names(e.c, ports)
  <2>. DEFINE n == link'.jobs
  <2>1. \A r, fn : HasJob(r, fn)' <=> \E j \in n : j.fn = fn /\ RsID(j.c, j.b) = r
    BY Zenon DEF HasJob, RsID
  <2>2. n = jobs
    BY <1>11
  <2>. HIDE DEF n, jobs, e, ports
  <2>3. \A r \in Names(e.c, ports) : \A fn : fn = actions[e.status] => HasJob(r, fn)'
    BY <1>9, <1>10, <2>1, <2>2
  <2>4. \A r, fn : HasJob(r, fn)' => fn = actions[e.status] /\ r \in Names(e.c, ports)
    BY <1>9, <2>1, <2>2
  <2>. QED
    BY <2>3, <2>4
<1>18. \A r, fn : ~HasJob(r, fn)
  BY <1>1 DEF HasJob
<1>19. ASSUME NEW j \in jobs, e.status = "start", Wanted(RsID(j.c, j.b))
       PROVE  WantedAt(RsID(j.c, j.b), Dest(j.b))
  BY <1>2, <1>9, <1>14, <1>19 DEF WantedAt
<1>. HIDE DEF e, ports, jobs
<1>20. astray \subseteq astray' /\ astray' \subseteq RsIDs
  BY <1>2, <1>3, <1>5 DEF LinkInv, LinkTypeOK
<1>21. LinkTypeOK'
  BY <1>1, <1>2, <1>8, <1>11, <1>20 DEF LinkInv, LinkTypeOK, LBTypeOK, lbVars
<1>22. LinkSane'
  <2>1. listening
    BY <1>1 DEF LinkInv, LinkSane
  <2>2. \A j \in jobs : \E p \in PortSets(j.c) : j.b \in Published(p)
    BY <1>3, <1>9
  <2>. QED
    BY <1>1, <1>9, <1>11, <1>12, <2>1, <2>2 DEF LinkSane, PortSets, Published
<1>23. RemovalStale'
  <2>. SUFFICES ASSUME NEW r \in RsIDs \ astray', HasJob(r, "removeBackend")', Wanted(r)
                PROVE  StartPending(r)'
    BY <1>1, SameDocker DEF RemovalStale
  <2>1. e.status = "kill" /\ r \in Names(e.c, ports)
    BY <1>6, <1>7, <1>17
  <2>. QED
    BY <1>5, <1>6, <1>14, <1>16, <2>1
<1>24. CreationFresh'
  <2>. SUFFICES ASSUME NEW j \in jobs, j.fn = "createBackend", Wanted(RsID(j.c, j.b))
                PROVE  WantedAt(RsID(j.c, j.b), Dest(j.b))
    BY <1>1, <1>11, SameDocker DEF CreationFresh
  <2>. QED
    BY <1>6, <1>7, <1>9, <1>19
<1>25. WantedComes'
  <2>. SUFFICES ASSUME NEW r \in RsIDs \ astray', Wanted(r), ~InStep(r, pool[r])
                PROVE  StartPending(r)' \/ HasJob(r, "createBackend")'
    BY <1>1, SameDocker DEF WantedComes, InStep, lbVars
  <2>1. StartPending(r)
    BY <1>1, <1>18, <1>20 DEF LinkInv, WantedComes
  <2>. QED
    BY <1>7, <1>13, <1>14, <1>17, <2>1
<1>26. UnwantedGoes'
  <2>. SUFFICES ASSUME NEW r \in RsIDs \ astray', ~Wanted(r), ~KillPending(r)',
                       ~HasJob(r, "removeBackend")'
                PROVE  pool[r] = None /\ ~HasJob(r, "createBackend")'
    BY <1>1, SameDocker DEF UnwantedGoes, lbVars
  <2>1. ~KillPending(r)
    BY <1>5, <1>7, <1>13, <1>17
  <2>2. pool[r] = None
    BY <1>18, <1>20, <2>1 DEF LinkInv, UnwantedGoes
  <2>3. ASSUME HasJob(r, "createBackend")' PROVE FALSE
    <3>1. e.status = "start" /\ r \in Names(e.c, ports)
      BY <1>6, <1>7, <1>17, <2>3
    <3>2. docker[e.c].status = "running"
      BY <1>14, <1>15, <3>1
    <3>3. Wanted(r)
      BY <1>2, <3>1, <3>2 DEF Wanted, ports
    <3>. QED
      BY <3>3
  <2>. QED
    BY <2>2, <2>3
<1>. QED
  BY <1>1, <1>2, <1>21, <1>22, <1>23, <1>24, <1>25, <1>26, TailOrder DEF LinkInv

LEMMA RestartLinkKeeps ==
    ASSUME LinkInv, RestartLink
    PROVE  LinkInv'
<1>1. /\ link' = [pc |-> "boot", jobs |-> {}, job |-> None]
      /\ listening' = FALSE /\ exposed' = {} /\ events' = <<>>
      /\ UNCHANGED <<lbVars, docker>>
  BY DEF RestartLink
<1>. DEFINE told == UNION {Names(events[i].c, events[i].ports) : i \in DOMAIN events}
            asked == {RsID(j.c, j.b) : j \in link.jobs}
<1>2. astray' = astray \cup asked \cup told
  BY DEF RestartLink
<1>3. told \subseteq RsIDs /\ asked \subseteq RsIDs /\ astray \subseteq RsIDs
  <2>1. \A i \in DOMAIN events : events[i] \in Event
    BY DEF LinkInv, LinkTypeOK
  <2>2. \A i \in DOMAIN events : events[i].c \in Containers
    BY <2>1 DEF Event
  <2>3. told \subseteq RsIDs
    BY <2>2, PortsTyped DEF LinkInv, DockerSane
  <2>4. asked \subseteq RsIDs
    BY JobTyped DEF LinkInv
  <2>. QED
    BY <2>3, <2>4 DEF LinkInv, LinkTypeOK
<1>4. /\ \A r, fn : HasJob(r, fn) => r \in asked
      /\ \A r : KillPending(r) => r \in told
  BY DEF HasJob, KillPending
<1>. HIDE DEF told, asked
<1>5. link'.pc = "boot" /\ link'.jobs = {} /\ link'.job = None /\ DOMAIN events' = {}
  BY <1>1
<1>6. LinkTypeOK'
  <2>1. <<>> \in Seq(Event) /\ Len(<<>>) = 0 /\ MaxEvents \in Nat
    BY LinkAssumption
  <2>2. events' \in Seq(Event) /\ Len(events') <= MaxEvents
    BY <1>1, <2>1
  <2>. QED
    BY <1>1, <1>2, <1>3, <1>5, <2>2 DEF LinkInv, LinkTypeOK, LBTypeOK, lbVars
<1>7. LinkSane'
  BY <1>1, <1>5 DEF LinkSane
<1>8. DockerSane' /\ KillThenStart' /\ StartThenKill'
  BY <1>1, <1>5 DEF LinkInv, DockerSane, PortSets, KillThenStart, StartThenKill
<1>9. \A r, fn : ~HasJob(r, fn)'
  BY <1>5 DEF HasJob
<1>10. RemovalStale' /\ CreationFresh' /\ WantedComes'
  BY <1>5, <1>9 DEF RemovalStale, CreationFresh, WantedComes
<1>11. UnwantedGoes'
  BY <1>1, <1>2, <1>4, <1>9, SameDocker DEF LinkInv, UnwantedGoes, lbVars
<1>. QED
  BY <1>6, <1>7, <1>8, <1>10, <1>11 DEF LinkInv

-----------------------------------------------------------------------------
(* GORB *)

LEMMA AddServiceTyped ==
    ASSUME LBTypeOK, NEW v \in VsIDs, NEW k \in Keys, NEW s \in Scheds, AddService(v, k, s)
    PROVE  LBTypeOK' /\ pool' = pool
  BY DEF LBTypeOK, AddService

LEMMA AddBackendTyped ==
    ASSUME LBTypeOK, NEW v \in VsIDs, NEW r \in RsIDs, NEW d \in Dests, NEW w \in Weights,
           AddBackend(v, r, d, w)
    PROVE  /\ LBTypeOK' /\ pool'[r] # None /\ pool'[r][2] = d
           /\ \A x \in RsIDs \ {r} : pool'[x] = pool[x]
<1>. DEFINE k == table[v]
<1>1. k \in Keys
  BY DEF LBTypeOK, AddBackend, CanAttach
<1>2. /\ pool' = [pool EXCEPT ![r] = <<k, d>>]
      /\ dests' = [dests EXCEPT ![<<k, d>>] = w]
      /\ UNCHANGED <<virtuals, table>>
  BY DEF AddBackend
<1>. HIDE DEF k
<1>3. <<k, d>> \in Keys \X Dests /\ <<k, d>> # None
  BY <1>1, LinkAssumption
<1>4. pool'[r] = <<k, d>>
  BY <1>2 DEF LBTypeOK
<1>. QED
  BY <1>2, <1>3, <1>4 DEF LBTypeOK

LEMMA DeleteBackendTyped ==
    ASSUME LBTypeOK, NEW r \in RsIDs, DeleteBackend(r)
    PROVE  /\ LBTypeOK' /\ pool'[r] = None
           /\ \A x \in RsIDs \ {r} : pool'[x] = pool[x]
  BY DEF LBTypeOK, DeleteBackend

LEMMA DeleteServiceTyped ==
    ASSUME LBTypeOK, NEW v \in VsIDs, DeleteService(v)
    PROVE  /\ LBTypeOK'
           /\ \A x \in RsIDs : pool'[x] = None \/ pool'[x] = pool[x]
<1>. DEFINE k == table[v]
<1>1. /\ table' = [table EXCEPT ![v] = None]
      /\ virtuals' = [virtuals EXCEPT ![k] = None]
      /\ dests' = [e \in Keys \X Dests |-> IF e[1] = k THEN None ELSE dests[e]]
      /\ pool' = [r \in RsIDs |-> IF pool[r] # None /\ pool[r][1] = k THEN None ELSE pool[r]]
  BY DEF DeleteService
<1>. HIDE DEF k
<1>. QED
  BY <1>1 DEF LBTypeOK

\* Another client takes only what then counts as astray.
LEMMA OtherClientKeeps ==
    ASSUME LinkInv, OtherClient
    PROVE  LinkInv'
<1>1. LBTypeOK /\ DefaultSched \in Scheds
  BY LinkAssumption DEF LinkInv, LinkTypeOK
<1>2. LBTypeOK' /\ \A x \in RsIDs : pool'[x] = None \/ pool'[x] = pool[x]
  <2>1. CASE \E v \in VsIDs, k \in Keys : AddService(v, k, DefaultSched)
    BY <1>1, <2>1, AddServiceTyped
  <2>2. CASE \E v \in VsIDs : DeleteService(v)
    BY <1>1, <2>2, DeleteServiceTyped
  <2>3. CASE \E r \in RsIDs : DeleteBackend(r)
    BY <1>1, <2>3, DeleteBackendTyped
  <2>. QED
    BY <2>1, <2>2, <2>3 DEF OtherClient
<1>3. /\ astray' = astray \cup {r \in RsIDs : pool[r] # None /\ pool'[r] = None}
      /\ UNCHANGED <<docker, events, listening, link, exposed>>
  BY DEF OtherClient
<1>4. \A r \in RsIDs \ astray' : r \in RsIDs \ astray /\ pool'[r] = pool[r]
  BY <1>2, <1>3
<1>5. LinkTypeOK'
  BY <1>2, <1>3 DEF LinkInv, LinkTypeOK
<1>6. LinkSane'
  BY <1>3 DEF LinkInv, LinkSane, PortSets, Published
<1>7. \A r, fn : HasJob(r, fn)' <=> HasJob(r, fn)
  BY <1>3 DEF HasJob
<1>8. RemovalStale'
  BY <1>3, <1>4, <1>7, SameDocker, SameEvents DEF LinkInv, RemovalStale
<1>9. CreationFresh'
  BY <1>3, SameDocker, SameEvents DEF LinkInv, CreationFresh
<1>10. WantedComes'
  BY <1>3, <1>4, <1>7, SameDocker, SameEvents DEF LinkInv, WantedComes, InStep
<1>11. UnwantedGoes'
  BY <1>3, <1>4, <1>7, SameDocker, SameEvents DEF LinkInv, UnwantedGoes
<1>. QED
  BY <1>3, <1>5, <1>6, <1>8, <1>9, <1>10, <1>11, SameOrder DEF LinkInv

-----------------------------------------------------------------------------
(* The link: its requests *)

\* fn returns an error, which is noted, or has done what it is for.
LEMMA FinishKeeps ==
    ASSUME LinkInv, link.job \in link.jobs, NEW error \in BOOLEAN, Finish(error),
           UNCHANGED <<docker, events, listening>>, LBTypeOK', exposed' \subseteq VsIDs,
           \A x \in RsIDs \ {rs} : pool'[x] = pool[x],
           \/ error
           \/ link.job.fn = "removeBackend" /\ pool'[rs] = None
           \/ /\ link.job.fn = "createBackend"
              /\ pool'[rs] # None /\ pool'[rs][2] = Dest(link.job.b)
    PROVE  LinkInv'
<1>. DEFINE j == link.job
            r0 == RsID(j.c, j.b)
            left == link.jobs \ {j}
            d0 == Dest(j.b)
            fn0 == j.fn
            last == \A x \in left : RsID(x.c, x.b) # r0
<1>1. /\ link' = [pc |-> "work", jobs |-> left, job |-> None]
      /\ astray' = IF last /\ InStep(r0, pool'[r0]) THEN astray \ {r0}
                   ELSE IF error THEN astray \cup {r0} ELSE astray
  BY DEF Finish, Settled, rs
<1>2. /\ j \in link.jobs /\ r0 \in RsIDs /\ link.pc # "boot"
      /\ \A x \in link.jobs : x.fn = fn0
      /\ link.jobs \in SUBSET Job
  BY JobTyped DEF LinkInv, LinkSane
<1>3. /\ HasJob(r0, fn0)
      /\ fn0 = "createBackend" /\ r0 \notin astray /\ Wanted(r0) =>
            StartPending(r0) \/ WantedAt(r0, d0)
  BY <1>2 DEF HasJob, LinkInv, CreationFresh
<1>4. \/ error
      \/ fn0 = "removeBackend" /\ pool'[r0] = None
      \/ fn0 = "createBackend" /\ pool'[r0] # None /\ pool'[r0][2] = d0
  BY DEF rs
<1>5. \A x \in RsIDs \ {r0} : pool'[x] = pool[x]
  BY DEF rs
<1>6. link'.pc = "work" /\ link'.jobs = left /\ link'.job = None /\ left \subseteq link.jobs
  BY <1>1
<1>7. \A r, fn : HasJob(r, fn)' <=> \E x \in left : x.fn = fn /\ RsID(x.c, x.b) = r
  <2>. DEFINE n == link'.jobs
  <2>1. \A r, fn : HasJob(r, fn)' <=> \E x \in n : x.fn = fn /\ RsID(x.c, x.b) = r
    BY Zenon DEF HasJob, RsID
  <2>2. n = left
    BY <1>6
  <2>. HIDE DEF n, left
  <2>. QED
    BY <2>1, <2>2
<1>8. /\ \A r, fn : HasJob(r, fn)' => HasJob(r, fn)
      /\ \A r, fn : r # r0 /\ HasJob(r, fn) => HasJob(r, fn)'
      /\ \A r, fn : last /\ r = r0 => ~HasJob(r, fn)'
      /\ \A r, fn : HasJob(r, fn) => fn = fn0
  <2>1. \A x : x \in left => x \in link.jobs
    OBVIOUS
  <2>2. \A x \in link.jobs : RsID(x.c, x.b) # r0 => x \in left
    OBVIOUS
  <2>. HIDE DEF left, r0, fn0
  <2>3. \A r, fn : HasJob(r, fn)' => HasJob(r, fn)
    BY <1>7, <2>1 DEF HasJob
  <2>4. \A r, fn : r # r0 /\ HasJob(r, fn) => HasJob(r, fn)'
    BY <1>7, <2>2 DEF HasJob
  <2>5. \A r, fn : last /\ r = r0 => ~HasJob(r, fn)'
    BY <1>7 DEF last
  <2>6. \A r, fn : HasJob(r, fn) => fn = fn0
    BY <1>2 DEF HasJob
  <2>. QED
    BY <2>3, <2>4, <2>5, <2>6
<1>. HIDE DEF j, r0, d0, fn0, last
<1>9. LinkTypeOK'
  BY <1>1, <1>2, <1>6 DEF LinkInv, LinkTypeOK
<1>10. LinkSane'
  BY <1>1, <1>2, <1>6 DEF LinkInv, LinkSane, PortSets, Published
<1>. HIDE DEF left
\* Another name than that of the job is concerned as before.
<1>11. \A r \in RsIDs \ astray' : r # r0 => r \in RsIDs \ astray /\ pool'[r] = pool[r]
  BY <1>1, <1>5
\* The name of the job is settled, or what was to be done was done.
<1>12. r0 \notin astray' =>
          \/ last /\ InStep(r0, pool'[r0])
          \/ ~error /\ r0 \notin astray
  BY <1>1
<1>13. RemovalStale'
  BY <1>8, <1>11, <1>12, SameDocker, SameEvents DEF LinkInv, RemovalStale
<1>14. CreationFresh'
  <2>. SUFFICES ASSUME NEW x \in left, x.fn = "createBackend",
                       RsID(x.c, x.b) \notin astray', Wanted(RsID(x.c, x.b))
                PROVE  StartPending(RsID(x.c, x.b)) \/ WantedAt(RsID(x.c, x.b), Dest(x.b))
    BY <1>6, SameDocker, SameEvents DEF CreationFresh
  <2>1. x \in link.jobs /\ RsID(x.c, x.b) \in RsIDs
    BY <1>6, JobTyped DEF LinkInv
  <2>2. RsID(x.c, x.b) \notin astray
    BY <1>11, <1>12, <2>1 DEF last
  <2>. QED
    BY <2>1, <2>2 DEF LinkInv, CreationFresh
<1>15. WantedComes'
  <2>. SUFFICES ASSUME NEW r \in RsIDs \ astray', Wanted(r), ~StartPending(r),
                       ~HasJob(r, "createBackend")'
                PROVE  InStep(r, pool'[r])
    BY SameDocker, SameEvents DEF WantedComes, InStep
  <2>1. CASE r # r0
    BY <1>2, <1>8, <1>11, <2>1 DEF LinkInv, WantedComes
  <2>2. CASE r = r0 /\ ~error /\ r0 \notin astray
    <3>1. fn0 # "removeBackend"
      BY <1>2, <1>3, <2>2 DEF LinkInv, RemovalStale
    <3>. QED
      BY <1>3, <1>4, <2>2, <3>1 DEF InStep
  <2>. QED
    BY <1>12, <2>1, <2>2
<1>16. UnwantedGoes'
  <2>. SUFFICES ASSUME NEW r \in RsIDs \ astray', ~Wanted(r), ~KillPending(r),
                       ~HasJob(r, "removeBackend")'
                PROVE  pool'[r] = None /\ ~HasJob(r, "createBackend")'
    BY SameDocker, SameEvents DEF UnwantedGoes
  <2>1. CASE r # r0
    BY <1>8, <1>11, <2>1 DEF LinkInv, UnwantedGoes
  <2>2. CASE r = r0 /\ last /\ InStep(r0, pool'[r0])
    BY <1>8, <2>2 DEF InStep
  <2>3. CASE r = r0 /\ ~error /\ r0 \notin astray
    <3>1. fn0 # "createBackend"
      BY <1>2, <1>3, <1>8, <2>3 DEF LinkInv, UnwantedGoes
    <3>. QED
      BY <1>4, <1>8, <2>3, <3>1
  <2>. QED
    BY <1>12, <2>1, <2>2, <2>3
<1>. QED
  BY <1>9, <1>10, <1>13, <1>14, <1>15, <1>16, SameOrder DEF LinkInv

LEMMA GotoKeeps ==
    ASSUME LinkInv, link.pc \in {"getService", "createService"},
           NEW pc \in {"createService", "createBackend"}, Goto(pc),
           UNCHANGED <<docker, events, listening, pool>>, LBTypeOK', exposed' \subseteq VsIDs
    PROVE  LinkInv'
<1>1. link' = [link EXCEPT !.pc = pc] /\ astray' = astray
  BY DEF Goto
<1>2. link'.pc = pc /\ link'.jobs = link.jobs /\ link'.job = link.job
  BY <1>1 DEF LinkInv, LinkSane
<1>3. LinkTypeOK'
  BY <1>1, <1>2 DEF LinkInv, LinkTypeOK
<1>4. LinkSane'
  BY <1>1, <1>2 DEF LinkInv, LinkSane, PortSets, Published
<1>. QED
  BY <1>1, <1>2, <1>3, <1>4, IdleKeeps

\* What every request has in hand.
LEMMA InHand ==
    ASSUME LinkInv, link.pc \notin {"boot", "work"}
    PROVE  /\ link.job \in link.jobs /\ vs \in VsIDs /\ rs \in RsIDs
           /\ Key(link.job.b) \in Keys /\ Dest(link.job.b) \in Dests
           /\ LBTypeOK /\ exposed \subseteq VsIDs
<1>1. link.job \in link.jobs
  BY DEF LinkInv, LinkTypeOK, LinkSane
<1>. QED
  BY <1>1, JobTyped DEF LinkInv, LinkTypeOK, vs, rs

LEMMA ExchangeKeeps ==
    ASSUME LinkInv, GetService \/ CreateService \/ CreateBackend \/ RemoveBackend \/ RequestLost
    PROVE  LinkInv'
<1>1. CASE GetService
  <2>1. /\ link.pc = "getService"
        /\ UNCHANGED <<lbVars, docker, events, listening>>
        /\ \/ Cache /\ Goto("createBackend")
           \/ UNCHANGED exposed /\ Goto("createService")
           \/ Finish(TRUE) /\ UNCHANGED exposed
    BY <1>1 DEF GetService, CommunicationError
  <2>2. LBTypeOK' /\ UNCHANGED pool
    BY <2>1, InHand DEF LBTypeOK, lbVars
  <2>3. CASE Cache /\ Goto("createBackend")
    <3>1. exposed' \subseteq VsIDs
      BY <2>1, <2>3, InHand DEF Cache
    <3>. QED
      BY <2>1, <2>2, <2>3, <3>1, GotoKeeps
  <2>4. CASE UNCHANGED exposed /\ Goto("createService")
    BY <2>1, <2>2, <2>4, InHand, GotoKeeps
  <2>5. CASE Finish(TRUE) /\ UNCHANGED exposed
    BY <2>1, <2>2, <2>5, InHand, FinishKeeps
  <2>. QED
    BY <2>1, <2>3, <2>4, <2>5
<1>2. CASE CreateService
  <2>1. /\ link.pc = "createService"
        /\ AddService(vs, Key(link.job.b), DefaultSched) \/ UNCHANGED lbVars
        /\ \/ UNCHANGED exposed /\ Goto("createBackend")
           \/ Cache /\ Goto("createBackend")
           \/ Finish(TRUE) /\ UNCHANGED exposed
        /\ UNCHANGED <<docker, events, listening>>
    BY <1>2, Zenon DEF CreateService, CommunicationError
  <2>2. LBTypeOK' /\ UNCHANGED pool
    <3>1. CASE AddService(vs, Key(link.job.b), DefaultSched)
      BY <2>1, <3>1, InHand, AddServiceTyped, LinkAssumption
    <3>2. CASE UNCHANGED lbVars
      BY <2>1, <3>2, InHand DEF LBTypeOK, lbVars
    <3>. QED
      BY <2>1, <3>1, <3>2
  <2>3. CASE (UNCHANGED exposed \/ Cache) /\ Goto("createBackend")
    <3>1. exposed' \subseteq VsIDs
      BY <2>1, <2>3, InHand DEF Cache
    <3>. QED
      BY <2>1, <2>2, <2>3, <3>1, GotoKeeps
  <2>4. CASE Finish(TRUE) /\ UNCHANGED exposed
    BY <2>1, <2>2, <2>4, InHand, FinishKeeps
  <2>. QED
    BY <2>1, <2>3, <2>4
<1>3. CASE CreateBackend
  <2>1. /\ link.pc = "createBackend"
        /\ \/ /\ AddBackend(vs, rs, Dest(link.job.b), DefaultWeight)
              /\ Finish(FALSE) \/ Finish(TRUE)
           \/ UNCHANGED lbVars /\ Finish(TRUE)
        /\ UNCHANGED <<docker, events, listening, exposed>>
    <3>. DEFINE status == Status(pool[rs] # None, table[vs] = None,
                                 ~CanAttach(vs, rs, Dest(link.job.b)))
    <3>1. /\ link.pc = "createBackend"
          /\ IF status = 200 THEN AddBackend(vs, rs, Dest(link.job.b), DefaultWeight)
                             ELSE UNCHANGED lbVars
          /\ Finish(status # 200) \/ Finish(TRUE)
          /\ UNCHANGED <<docker, events, listening, exposed>>
      BY <1>3, Zenon DEF CreateBackend, CommunicationError
    <3>. HIDE DEF status
    <3>2. CASE status = 200
      <4>1. (status # 200) = FALSE
        BY <3>2
      <4>. QED
        BY <3>1, <3>2, <4>1
    <3>3. CASE status # 200
      <4>1. (status # 200) = TRUE
        BY <3>3
      <4>. QED
        BY <3>1, <3>3, <4>1
    <3>. QED
      BY <3>2, <3>3
  <2>2. CASE AddBackend(vs, rs, Dest(link.job.b), DefaultWeight) /\ (Finish(FALSE) \/ Finish(TRUE))
    <3>1. /\ LBTypeOK' /\ pool'[rs] # None /\ pool'[rs][2] = Dest(link.job.b)
          /\ \A x \in RsIDs \ {rs} : pool'[x] = pool[x]
      BY <2>1, <2>2, InHand, AddBackendTyped, LinkAssumption
    <3>2. link.job.fn = "createBackend"
      BY <2>1 DEF LinkInv, LinkSane
    <3>. QED
      BY <2>1, <2>2, <3>1, <3>2, InHand, FinishKeeps
  <2>3. CASE UNCHANGED lbVars /\ Finish(TRUE)
    <3>1. LBTypeOK' /\ UNCHANGED pool
      BY <2>1, <2>3, InHand DEF LBTypeOK, lbVars
    <3>. QED
      BY <2>1, <2>3, <3>1, InHand, FinishKeeps
  <2>. QED
    BY <2>1, <2>2, <2>3
<1>4. CASE RemoveBackend
  <2>1. link.pc = "removeBackend" /\ UNCHANGED <<docker, events, listening, exposed>>
    BY <1>4 DEF RemoveBackend
  <2>2. link.job.fn = "removeBackend"
    BY <2>1 DEF LinkInv, LinkSane
  <2>3. CASE pool[rs] # None
    <3>1. DeleteBackend(rs) /\ (Finish(FALSE) \/ Finish(TRUE))
      <4>1. (pool[rs] = None) = FALSE
        BY <2>3
      <4>. QED
        BY <1>4, <2>3, <4>1 DEF RemoveBackend, CommunicationError
    <3>2. /\ LBTypeOK' /\ pool'[rs] = None
          /\ \A x \in RsIDs \ {rs} : pool'[x] = pool[x]
      BY <2>1, <3>1, InHand, DeleteBackendTyped
    <3>. QED
      BY <2>1, <2>2, <3>1, <3>2, InHand, FinishKeeps
  <2>4. CASE pool[rs] = None
    <3>1. UNCHANGED lbVars /\ Finish(TRUE)
      <4>1. (pool[rs] = None) = TRUE
        BY <2>4
      <4>. QED
        BY <1>4, <2>4, <4>1 DEF RemoveBackend, CommunicationError
    <3>2. LBTypeOK' /\ UNCHANGED pool
      BY <2>1, <3>1, InHand DEF LBTypeOK, lbVars
    <3>. QED
      BY <2>1, <3>1, <3>2, InHand, FinishKeeps
  <2>. QED
    BY <2>3, <2>4
<1>5. CASE RequestLost
  <2>1. /\ link.pc \in {"createService", "createBackend", "removeBackend"}
        /\ UNCHANGED <<lbVars, docker, events, listening, exposed>> /\ Finish(TRUE)
    BY <1>5 DEF RequestLost, CommunicationError
  <2>2. LBTypeOK' /\ UNCHANGED pool
    BY <2>1, InHand DEF LBTypeOK, lbVars
  <2>. QED
    BY <2>1, <2>2, InHand, FinishKeeps
<1>. QED
  BY <1>1, <1>2, <1>3, <1>4, <1>5

-----------------------------------------------------------------------------
(* Theorems *)

LEMMA LinkInitInv ==
    ASSUME LinkInit
    PROVE  LinkInv
<1>1. /\ docker = [c \in Containers |-> [status |-> "exited", ports |-> {}]]
      /\ events = <<>> /\ listening = FALSE /\ exposed = {} /\ astray = {}
      /\ link = [pc |-> "boot", jobs |-> {}, job |-> None]
  BY DEF LinkInit
<1>2. LBTypeOK /\ \A r \in RsIDs : pool[r] = None
  BY DEF LinkInit, Init, LBTypeOK
<1>3. /\ link.pc = "boot" /\ link.jobs = {} /\ link.job = None /\ DOMAIN events = {}
      /\ \A c \in Containers : docker[c].status = "exited" /\ docker[c].ports = {}
  BY <1>1
<1>4. LinkTypeOK
  <2>1. <<>> \in Seq(Event) /\ Len(<<>>) = 0 /\ MaxEvents \in Nat
    BY LinkAssumption
  <2>2. events \in Seq(Event) /\ Len(events) <= MaxEvents
    BY <1>1, <2>1
  <2>3. docker \in [Containers -> [status : {"exited", "running", "dying"},
                                  ports : SUBSET Bindings]]
    BY <1>1
  <2>4. /\ listening \in BOOLEAN /\ exposed \subseteq VsIDs /\ astray \subseteq RsIDs
        /\ link.jobs \subseteq Job /\ link.job \in link.jobs \cup {None}
    BY <1>1, <1>3
  <2>. QED
    BY <1>2, <1>3, <2>2, <2>3, <2>4 DEF LinkTypeOK
<1>5. DockerSane /\ LinkSane /\ KillThenStart /\ StartThenKill
  BY <1>1, <1>3 DEF DockerSane, LinkSane, PortSets, KillThenStart, StartThenKill
<1>6. RemovalStale /\ CreationFresh /\ WantedComes /\ UnwantedGoes
  BY <1>2, <1>3 DEF RemovalStale, CreationFresh, WantedComes, UnwantedGoes, HasJob
<1>. QED
  BY <1>4, <1>5, <1>6 DEF LinkInv

LEMMA LinkInvStep ==
    ASSUME LinkInv, [LinkNext]_linkVars
    PROVE  LinkInv'
<1>1. CASE LinkStep
  BY <1>1, ListContainersKeeps, AddEventListenerKeeps, ReceiveKeeps, InspectFailsKeeps,
     BeginKeeps, ExchangeKeeps DEF LinkStep
<1>2. CASE Docker
  BY <1>2, StartKeeps, KillKeeps, SignalKeeps, ExitKeeps DEF Docker
<1>3. CASE OtherClient
  BY <1>3, OtherClientKeeps
<1>4. CASE RestartLink
  BY <1>4, RestartLinkKeeps
<1>5. CASE UNCHANGED linkVars
  <2>1. UNCHANGED <<virtuals, dests, table, pool, docker, events, listening, link, exposed, astray>>
    BY <1>5 DEF linkVars, lbVars
  <2>2. LinkTypeOK'
    BY <2>1 DEF LinkInv, LinkTypeOK, LBTypeOK
  <2>3. LinkSane'
    BY <2>1 DEF LinkInv, LinkSane, PortSets, Published
  <2>. QED
    BY <2>1, <2>2, <2>3, IdleKeeps
<1>. QED
  BY <1>1, <1>2, <1>3, <1>4, <1>5 DEF LinkNext

LEMMA LinkInvariant == LinkSpec => []LinkInv
<1>1. LinkInit => LinkInv
  BY LinkInitInv
<1>2. LinkInv /\ [LinkNext]_linkVars => LinkInv'
  BY LinkInvStep
<1>. QED
  BY <1>1, <1>2, PTL DEF LinkSpec

\* The link asks GORB only for names and addresses Docker publishes, and never has more
\* in hand, or waiting, than the events it was told about.
THEOREM LinkTypes == LinkSpec => []LinkTypeOK
<1>1. LinkInv => LinkTypeOK
  BY DEF LinkInv
<1>. QED
  BY <1>1, LinkInvariant, PTL

\* Once the link has caught up, every name is as Docker has it, except for those the
\* link met an error about or could not know of.
THEOREM CaughtUpInStep == LinkSpec => []QuietInStep
<1>1. LinkInv => QuietInStep
  <2>. SUFFICES ASSUME LinkInv, Quiet, NEW r \in RsIDs \ astray
                PROVE  InStep(r, pool[r])
    BY DEF QuietInStep
  <2>1. events = <<>> /\ link.pc = "work" /\ link.jobs = {}
    BY DEF Quiet
  <2>2. \A fn : ~HasJob(r, fn)
    BY <2>1 DEF HasJob
  <2>3. ~StartPending(r) /\ ~KillPending(r)
    BY <2>1 DEF StartPending, KillPending
  <2>4. Wanted(r) => InStep(r, pool[r])
    BY <2>1, <2>2, <2>3 DEF LinkInv, WantedComes
  <2>5. ~Wanted(r) => pool[r] = None
    BY <2>2, <2>3 DEF LinkInv, UnwantedGoes
  <2>. QED
    BY <2>4, <2>5 DEF InStep
<1>. QED
  BY <1>1, LinkInvariant, PTL

\* The link never takes away the backend of a running container for good: its start is
\* among the events to come.
THEOREM RemovalsRestored == LinkSpec => RemovedThenRestored
<1>. DEFINE Restored ==
        \A r \in RsIDs :
           RemoveBackend /\ pool[r] # None /\ pool'[r] = None /\ Wanted(r) =>
               \/ r \in astray
               \/ \E i \in DOMAIN events :
                     /\ events[i].status = "start"
                     /\ r \in Names(events[i].c, events[i].ports)
<1>1. LinkInv /\ [LinkNext]_linkVars => [Restored]_linkVars
  <2>. SUFFICES ASSUME LinkInv, NEW r \in RsIDs, RemoveBackend, pool[r] # None, pool'[r] = None,
                       Wanted(r), r \notin astray
                PROVE  StartPending(r)
    BY DEF StartPending
  <2>1. link.pc = "removeBackend"
    BY DEF RemoveBackend
  <2>2. rs \in RsIDs /\ LBTypeOK
    BY <2>1, InHand
  <2>3. r = rs
    BY <2>2, DeleteBackendTyped DEF RemoveBackend, lbVars
  <2>4. link.job \in link.jobs /\ link.job.fn = "removeBackend"
    BY <2>1 DEF LinkInv, LinkSane
  <2>5. HasJob(r, "removeBackend")
    BY <2>3, <2>4 DEF HasJob, rs
  <2>. QED
    BY <2>5 DEF LinkInv, RemovalStale
<1>. QED
  BY <1>1, LinkInvariant, PTL DEF LinkSpec, RemovedThenRestored
=============================================================================
