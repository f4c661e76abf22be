----------------------------- MODULE DockerLink -----------------------------
(***************************************************************************)
(* gorb-docker-link: follows the containers of a Docker host and asks GORB *)
(* for a backend per published port, and for the service it belongs to.    *)
(*                                                                         *)
(* GORB is LoadBalancer: each HTTP request of the link is one step of it,  *)
(* and requests of other clients come in between. Docker changes at any    *)
(* time; the link lists the containers once, then receives events, and     *)
(* inspects a container when it gets to its event, not when that happened. *)
(***************************************************************************)
EXTENDS LoadBalancer, Naturals, Sequences

CONSTANTS
    Containers,     \* containers, which stand for their names too
    Image,          \* Image[c]: the image of a container
    Mangle,         \* Mangle[image]: the image with '/' and ':' made '-'
    Mappings,       \* Mappings[c]: the sets of port bindings c may start with
    HostIP,         \* hostIPs[0] of the link, and GORB's default endpoint
    DefaultSched, DefaultWeight,    \* what GORB fills in for the link's requests
    MaxEvents,      \* bound on events that wait
    Unreliable      \* an HTTP exchange or an inspection may fail

VARIABLES
    docker,     \* the state of each container, and the ports it published
    events,     \* events on their way to the link
    listening,  \* AddEventListener was called
    link,       \* where the link is, the bindings to process, the one in hand
    exposed,    \* its cache of services that exist
    astray      \* history: backends for which the link met an error, which it logs,
                \* or of whose container it was told nothing, too late or wrongly

linkVars == <<lbVars, docker, events, listening, link, exposed, astray>>

-----------------------------------------------------------------------------
(* invokeFunc *)

\* The bindings that are processed: both ports are known.
Published(ports) == {b \in ports : b.PrivatePort # 0 /\ b.PublicPort # 0}

VsID(c, b) == <<Mangle[Image[c]], b.PrivatePort, b.Type>>
RsID(c, b) == <<c, b.PublicPort, b.Type>>

\* "catch-all" is rewritten to a real address.
Host(b) == IF b.IP = "0.0.0.0" THEN HostIP ELSE b.IP

Dest(b) == <<Host(b), b.PublicPort>>

\* The address GORB gives a service that is created without a host.
Key(b) == <<HostIP, b.PrivatePort, b.Type>>

Names(c, ports) == {RsID(c, b) : b \in Published(ports)}

-----------------------------------------------------------------------------
(* Data *)

\* Every binding has its names and addresses among those GORB is told about.
ASSUME LinkAssumption ==
    /\ MaxEvents \in Nat
    /\ DefaultSched \in Scheds /\ DefaultWeight \in Weights
    /\ \A c \in Containers : \A ports \in Mappings[c] : \A b \in Published(ports) :
          /\ VsID(c, b) \in VsIDs /\ RsID(c, b) \in RsIDs
          /\ Key(b) \in Keys /\ Dest(b) \in Dests
    /\ None \notin Keys \X Dests

Bindings == UNION UNION {Mappings[c] : c \in Containers}

\* What a call of portAction is made with.
Job == [fn : {"createBackend", "removeBackend"}, c : Containers, b : Bindings]

Jobs(fn, c, ports) == {[fn |-> fn, c |-> c, b |-> b] : b \in Published(ports)}

\* An event has status and container; the link does not see what ports the container
\* had when it happened, or whether the signal ends it.
Event == [status : {"start", "kill"}, c : Containers, ports : SUBSET Bindings, fatal : BOOLEAN]

\* actions: what the link does on an event. It knows no others.
actions == [start |-> "createBackend", kill |-> "removeBackend"]

LinkTypeOK ==
    /\ LBTypeOK
    /\ docker \in [Containers -> [status : {"exited", "running", "dying"},
                                  ports : SUBSET Bindings]]
    /\ events \in Seq(Event) /\ Len(events) <= MaxEvents
    /\ listening \in BOOLEAN
    /\ link.pc \in {"boot", "work", "getService", "createService", "createBackend",
                    "removeBackend"}
    /\ link.jobs \subseteq Job
    /\ link.job \in link.jobs \cup {None}
    /\ exposed \subseteq VsIDs
    /\ astray \subseteq RsIDs

\* A running container publishes a port this name stands for; at that address. A port
\* published on two addresses of the host has one name.
Wanted(r) == \E c \in Containers : docker[c].status = "running" /\ r \in Names(c, docker[c].ports)
WantedAt(r, d) ==
    \E c \in Containers : /\ docker[c].status = "running"
                          /\ \E b \in Published(docker[c].ports) : r = RsID(c, b) /\ d = Dest(b)

\* backend is what GORB has, or should have, under the name r.
InStep(r, backend) ==
    IF Wanted(r) THEN backend # None /\ WantedAt(r, backend[2]) ELSE backend = None

-----------------------------------------------------------------------------
(* Docker: when something happens to a container, an event is emitted. *)

\* The event reaches a link that listens. A link that does not never hears of it.
Emit(status, c, ports, fatal) ==
    IF listening
      THEN /\ events' = Append(events, [status |-> status, c |-> c, ports |-> ports,
                                        fatal |-> fatal])
           /\ UNCHANGED astray
      ELSE /\ astray' = astray \cup Names(c, ports)
           /\ UNCHANGED events

Start(c, ports) ==
    /\ docker[c].status = "exited" /\ Len(events) < MaxEvents
    /\ docker' = [docker EXCEPT ![c] = [status |-> "running", ports |-> ports]]
    /\ Emit("start", c, ports, FALSE)
    /\ UNCHANGED <<lbVars, listening, link, exposed>>

\* docker stop or docker kill: the event comes first, the container ends later.
Kill(c) ==
    /\ docker[c].status \in {"running", "dying"} /\ Len(events) < MaxEvents
    /\ docker' = [docker EXCEPT ![c].status = "dying"]
    /\ Emit("kill", c, docker[c].ports, TRUE)
    /\ UNCHANGED <<lbVars, listening, link, exposed>>

\* docker kill with a signal the container handles.
Signal(c) ==
    /\ docker[c].status = "running" /\ Len(events) < MaxEvents
    /\ Emit("kill", c, docker[c].ports, FALSE)
    /\ UNCHANGED <<lbVars, docker, listening, link, exposed>>

\* It ends: killed, or by itself, which emits no event the link knows. A container
\* that is not running has no ports.
Exit(c) ==
    /\ docker[c].status # "exited"
    /\ docker' = [docker EXCEPT ![c] = [status |-> "exited", ports |-> {}]]
    /\ astray' = IF docker[c].status = "dying" THEN astray
                                               ELSE astray \cup Names(c, docker[c].ports)
    /\ UNCHANGED <<lbVars, events, listening, link, exposed>>

Docker ==
    \E c \in Containers :
        (\E ports \in Mappings[c] : Start(c, ports)) \/ Kill(c) \/ Signal(c) \/ Exit(c)

-----------------------------------------------------------------------------
(* The link: main *)

\* Existing containers. One that has been killed is listed until it ends.
ListContainers ==
    /\ link.pc = "boot"
    /\ link' = [pc |-> "work", job |-> None,
                jobs |-> UNION {Jobs("createBackend", c, docker[c].ports) : c \in Containers}]
    /\ astray' = astray \cup UNION {Names(c, docker[c].ports) :
                                       c \in {x \in Containers : docker[x].status = "dying"}}
    /\ UNCHANGED <<lbVars, docker, events, listening, exposed>>

AddEventListener ==
    /\ link.pc = "work" /\ link.jobs = {}
    /\ ~listening
    /\ listening' = TRUE
    /\ UNCHANGED <<lbVars, docker, events, link, exposed, astray>>

\* mutant of Receive: the latest event first
ReceiveLatest ==
    LET e    == events[Len(events)]
        jobs == Jobs(actions[e.status], e.c, docker[e.c].ports)
    IN
    /\ link.pc = "work" /\ link.jobs = {}
    /\ events # <<>>
    /\ events' = SubSeq(events, 1, Len(events) - 1)
    /\ link' = [link EXCEPT !.jobs = jobs]
    /\ astray' = IF e.status = "kill"
                   THEN astray \cup (Names(e.c, e.ports) \ {RsID(j.c, j.b) : j \in jobs})
                               \cup (IF e.fatal THEN {} ELSE {RsID(j.c, j.b) : j \in jobs})
                   ELSE astray
    /\ UNCHANGED <<lbVars, docker, listening, exposed>>

\* The next event, and InspectContainer: the ports are those of now. A kill whose
\* container has ended, or runs with other ports, leaves the backends it had.
Receive ==
    LET e    == Head(events)
        jobs == Jobs(actions[e.status], e.c, docker[e.c].ports)
    IN
    /\ link.pc = "work" /\ link.jobs = {}
    /\ events # <<>>
    /\ events' = Tail(events)
    /\ link' = [link EXCEPT !.jobs = jobs]
    /\ astray' = IF e.status = "kill"
                   THEN astray \cup (Names(e.c, e.ports) \ {RsID(j.c, j.b) : j \in jobs})
                               \cup (IF e.fatal THEN {} ELSE {RsID(j.c, j.b) : j \in jobs})
                   ELSE astray
    /\ UNCHANGED <<lbVars, docker, listening, exposed>>

\* InspectContainer fails, or the container has been removed: an error is logged.
InspectFails ==
    /\ Unreliable
    /\ link.pc = "work" /\ link.jobs = {}
    /\ events # <<>>
    /\ events' = Tail(events)
    /\ astray' = astray \cup Names(Head(events).c, Head(events).ports)
    /\ UNCHANGED <<lbVars, docker, listening, link, exposed>>

\* The next binding, in any order: they come from a map.
Begin(j) ==
    /\ link.pc = "work" /\ j \in link.jobs
    /\ link' = [jobs |-> link.jobs, job |-> j,
                pc |-> IF j.fn = "createBackend" /\ VsID(j.c, j.b) \notin exposed
                         THEN "getService" ELSE j.fn]
    /\ UNCHANGED <<lbVars, docker, events, listening, exposed, astray>>

-----------------------------------------------------------------------------
(* The link: createBackend, createService and removeBackend *)

vs == VsID(link.job.c, link.job.b)
rs == RsID(link.job.c, link.job.b)

Goto(pc) == link' = [link EXCEPT !.pc = pc] /\ UNCHANGED astray

\* No other binding of the same name is left, and GORB has what it should.
Settled ==
    /\ \A j \in link.jobs \ {link.job} : RsID(j.c, j.b) # rs
    /\ InStep(rs, pool'[rs])

\* mutant of Finish: an error is taken for success
FinishQuietly(error) ==
    /\ link' = [pc |-> "work", jobs |-> link.jobs \ {link.job}, job |-> None]
    /\ astray' = IF Settled THEN astray \ {rs} ELSE astray

\* fn returns. Its errors are logged after the last binding.
Finish(error) ==
    /\ link' = [pc |-> "work", jobs |-> link.jobs \ {link.job}, job |-> None]
    /\ astray' = IF Settled THEN astray \ {rs}
                 ELSE IF error THEN astray \cup {rs} ELSE astray

\* mutant of Cache: under the name of the backend
CacheBackend == exposed' = exposed \cup {rs}

Cache == exposed' = exposed \cup {vs}

\* The status of an answer: writeError, or 200.
Status(exists, missing, refused) ==
    CASE exists -> 409 [] missing -> 404 [] refused -> 500 [] OTHER -> 200

\* An exchange fails: the answer, if there was one, does not arrive.
CommunicationError == Unreliable /\ Finish(TRUE)

\* GET /service/<vs>
GetService ==
    /\ link.pc = "getService"
    /\ UNCHANGED <<lbVars, docker, events, listening>>
    /\ \/ table[vs] # None /\ Cache /\ Goto("createBackend")
       \/ table[vs] = None /\ UNCHANGED exposed /\ Goto("createService")
       \/ CommunicationError /\ UNCHANGED exposed

\* PUT /service/<vs>. That the name exists is not an error; that another service has
\* its address is.
CreateService ==
    LET key    == Key(link.job.b)
        status == Status(table[vs] # None, FALSE, virtuals[key] # None)
    IN
    /\ link.pc = "createService"
    /\ IF status = 200 THEN AddService(vs, key, DefaultSched) ELSE UNCHANGED lbVars
    /\ \/ status = 200 /\ UNCHANGED exposed /\ Goto("createBackend")
       \/ status = 409 /\ Cache /\ Goto("createBackend")
       \/ status \notin {200, 409} /\ UNCHANGED exposed /\ Finish(TRUE)
       \/ CommunicationError /\ UNCHANGED exposed
    /\ UNCHANGED <<docker, events, listening>>

\* PUT /service/<vs>/<rs>: every answer but 200 is an error, 404 and 409 included.
\* The Pulse of UDP backends, which is none, is not part of LoadBalancer.
CreateBackend ==
    LET d      == Dest(link.job.b)
        status == Status(pool[rs] # None, table[vs] = None, ~CanAttach(vs, rs, d))
    IN
    /\ link.pc = "createBackend"
    /\ IF status = 200 THEN AddBackend(vs, rs, d, DefaultWeight) ELSE UNCHANGED lbVars
    /\ Finish(status # 200) \/ CommunicationError
    /\ UNCHANGED <<docker, events, listening, exposed>>

\* DELETE /service/<vs>/<rs>
RemoveBackend ==
    /\ link.pc = "removeBackend"
    /\ IF pool[rs] # None THEN DeleteBackend(rs) ELSE UNCHANGED lbVars
    /\ Finish(pool[rs] = None) \/ CommunicationError
    /\ UNCHANGED <<docker, events, listening, exposed>>

\* A request is lost on its way to GORB.
RequestLost ==
    /\ link.pc \in {"createService", "createBackend", "removeBackend"}
    /\ UNCHANGED <<lbVars, docker, events, listening, exposed>>
    /\ CommunicationError

LinkStep ==
    \/ ListContainers
    \/ AddEventListener
    \/ Receive
    \/ InspectFails
    \/ \E j \in link.jobs : Begin(j)
    \/ GetService
    \/ CreateService
    \/ CreateBackend
    \/ RemoveBackend
    \/ RequestLost

\* The link is started again. It knows nothing of the run before.
RestartLink ==
    /\ link' = [pc |-> "boot", jobs |-> {}, job |-> None]
    /\ listening' = FALSE
    /\ exposed' = {}
    /\ events' = <<>>
    /\ astray' = astray
         \cup {RsID(j.c, j.b) : j \in link.jobs}
         \cup UNION {Names(events[i].c, events[i].ports) : i \in DOMAIN events}
    /\ UNCHANGED <<lbVars, docker>>

\* Another client of GORB, who may expose the link's services beforehand at addresses
\* of his own, and remove what the link created.
OtherClient ==
    /\ \/ \E v \in VsIDs, k \in Keys : AddService(v, k, DefaultSched)
       \/ \E v \in VsIDs : DeleteService(v)
       \/ \E r \in RsIDs : DeleteBackend(r)
    /\ astray' = astray \cup {r \in RsIDs : pool[r] # None /\ pool'[r] = None}
    /\ UNCHANGED <<docker, events, listening, link, exposed>>

LinkInit ==
    /\ Init
    /\ docker = [c \in Containers |-> [status |-> "exited", ports |-> {}]]
    /\ events = <<>>
    /\ listening = FALSE
    /\ link = [pc |-> "boot", jobs |-> {}, job |-> None]
    /\ exposed = {}
    /\ astray = {}

LinkNext == LinkStep \/ Docker \/ OtherClient \/ RestartLink

LinkSpec == LinkInit /\ [][LinkNext]_linkVars

-----------------------------------------------------------------------------
(* Properties *)

\* The link has nothing more to do.
Quiet == listening /\ events = <<>> /\ link.pc = "work" /\ link.jobs = {}

\* Whenever the link has caught up, GORB has a backend for each port of each running
\* container, at the address Docker published, and for no other: except for those the
\* link logged an error about, or was not told of in time. Stale caches, lost answers,
\* restarts of containers and requests of other clients cause no silent difference.
QuietInStep == Quiet => \A r \in RsIDs \ astray : InStep(r, pool[r])

\* The link takes the backend of a running container away only because an older kill
\* is still to be dealt with, and then the container's start comes after it, so that
\* the backend is created again: order of events makes up for late inspection.
RemovedThenRestored ==
    [][\A r \in RsIDs :
          RemoveBackend /\ pool[r] # None /\ pool'[r] = None /\ Wanted(r) =>
              \/ r \in astray
              \/ \E i \in DOMAIN events :
                    /\ events[i].status = "start"
                    /\ r \in Names(events[i].c, events[i].ports)]_linkVars
=============================================================================
