---------------------------- MODULE LoadBalancer ----------------------------
(***************************************************************************)
(* What GORB promises to a client of its REST API: named virtual services, *)
(* each with an address of its own, and named backends, each a destination *)
(* of one service with one weight. A request is carried out as a whole or  *)
(* not at all; one that is not is a stuttering step.                       *)
(*                                                                         *)
(* Context implements this specification (Context!Implements), and         *)
(* DockerLink uses it as the server it talks to.                           *)
(***************************************************************************)

CONSTANTS
    VsIDs, RsIDs,   \* names of virtual services and of backends
    Keys, Scheds,   \* addresses of virtual services, schedulers
    Dests, Weights, \* addresses of backends, weights
    None

VARIABLES
    virtuals,   \* the scheduler of each virtual service, by address
    dests,      \* the weight of each destination of a virtual service
    table,      \* the address each service name stands for
    pool        \* the service address and destination each backend name stands for

lbVars == <<virtuals, dests, table, pool>>

LBTypeOK ==
    /\ virtuals \in [Keys -> Scheds \cup {None}]
    /\ dests \in [Keys \X Dests -> Weights \cup {None}]
    /\ table \in [VsIDs -> Keys \cup {None}]
    /\ pool \in [RsIDs -> (Keys \X Dests) \cup {None}]

AddService(v, k, s) ==
    /\ table[v] = None /\ virtuals[k] = None
    /\ table' = [table EXCEPT ![v] = k]
    /\ virtuals' = [virtuals EXCEPT ![k] = s]
    /\ UNCHANGED <<dests, pool>>

SetScheduler(v, s) ==
    /\ table[v] # None
    /\ virtuals' = [virtuals EXCEPT ![table[v]] = s]
    /\ UNCHANGED <<dests, table, pool>>

\* "removes the specified virtual service and all its backends"
DeleteService(v) ==
    LET k == table[v] IN
    /\ k # None
    /\ table' = [table EXCEPT ![v] = None]
    /\ virtuals' = [virtuals EXCEPT ![k] = None]
    /\ dests' = [e \in Keys \X Dests |-> IF e[1] = k THEN None ELSE dests[e]]
    /\ pool' = [r \in RsIDs |-> IF pool[r] # None /\ pool[r][1] = k THEN None ELSE pool[r]]

CanAttach(v, r, d) ==
    /\ table[v] # None
    /\ pool[r] = None
    /\ dests[<<table[v], d>>] = None

AddBackend(v, r, d, w) ==
    /\ CanAttach(v, r, d)
    /\ pool' = [pool EXCEPT ![r] = <<table[v], d>>]
    /\ dests' = [dests EXCEPT ![<<table[v], d>>] = w]
    /\ UNCHANGED <<virtuals, table>>

SetWeight(r, w) ==
    /\ pool[r] # None
    /\ dests' = [dests EXCEPT ![pool[r]] = w]
    /\ UNCHANGED <<virtuals, table, pool>>

DeleteBackend(r) ==
    /\ pool[r] # None
    /\ pool' = [pool EXCEPT ![r] = None]
    /\ dests' = [dests EXCEPT ![pool[r]] = None]
    /\ UNCHANGED <<virtuals, table>>

Init ==
    /\ virtuals = [k \in Keys |-> None]
    /\ dests = [e \in Keys \X Dests |-> None]
    /\ table = [v \in VsIDs |-> None]
    /\ pool = [r \in RsIDs |-> None]

Next ==
    \/ \E v \in VsIDs, k \in Keys, s \in Scheds : AddService(v, k, s)
    \/ \E v \in VsIDs, s \in Scheds : SetScheduler(v, s)
    \/ \E v \in VsIDs : DeleteService(v)
    \/ \E v \in VsIDs, r \in RsIDs, d \in Dests, w \in Weights : AddBackend(v, r, d, w)
    \/ \E r \in RsIDs, w \in Weights : SetWeight(r, w)
    \/ \E r \in RsIDs : DeleteBackend(r)

Spec == Init /\ [][Next]_lbVars
=============================================================================
