------------------------------ MODULE Options ------------------------------
(***************************************************************************)
(* Validation and normalisation of the options a client or the external    *)
(* store supplies: core/options.go, pulse/options.go, the name tables of   *)
(* ipvs-shim and the address-family test of util/net.go.                   *)
(*                                                                         *)
(* An options record holds the exported (JSON) fields as they were sent.   *)
(* Flags are the parts of the "|"-separated list. Persistent is left out:  *)
(* it is stored and compared like Method and nothing else reads it.        *)
(***************************************************************************)
EXTENDS Integers, Sequences

CONSTANTS
    Lookup,     \* Lookup[name]: what net.ResolveIPAddr returns for a name; a
                \* name outside DOMAIN Lookup does not resolve
    Endpoint,   \* ctx.endpoint, the default host address, or None
    IPv6Addrs,  \* the addresses that are not IPv4
    None        \* nil

\* strings.ToLower on the names the tables below know.
ToLower(s) == CASE s = "TCP" -> "tcp"
                [] s = "UDP" -> "udp"
                [] s = "NAT" -> "nat"
                [] OTHER -> s

\* Replaces an omitted (empty) field by its default.
OrElse(field, default) == IF field = "" THEN default ELSE field

ValidProtocol(p) == p \in {"tcp", "udp"}

ValidFlag(f) == f \in {"sh-fallback", "sh-port", "flag-1", "flag-2", "flag-3"}

ValidForwarding(m) == m \in {"dr", "nat", "tunnel", "ipip"}

AddrFamily(ip) == IF ip \in IPv6Addrs THEN "IPv6" ELSE "IPv4"

-----------------------------------------------------------------------------
(* ServiceOptions *)

ServiceOptions == [Host : STRING, Port : Nat, Protocol : STRING, Method : STRING,
                   Flags : Seq(STRING)]

\* The address Fill resolves (the unexported field host).
ServiceHost(o) == IF o.Host # "" THEN Lookup[o.Host] ELSE Endpoint

\* The exported fields as Fill leaves them.
FillService(o) ==
    [Host |-> o.Host, Port |-> o.Port, Flags |-> o.Flags,
     Protocol |-> ToLower(OrElse(o.Protocol, "tcp")),
     Method   |-> OrElse(o.Method, "wrr")]

\* Fill returns no error.
ServiceValid(o) ==
    /\ o.Port # 0
    /\ IF o.Host # "" THEN o.Host \in DOMAIN Lookup ELSE Endpoint # None
    /\ ValidProtocol(FillService(o).Protocol)
    /\ \A i \in DOMAIN o.Flags : ValidFlag(o.Flags[i])

\* mutant of CompareServiceOptions: the scheduler is not compared
CompareServiceOptionsNoMethod(o, s) ==
    \A f \in {"Host", "Port", "Protocol", "Flags"} : o[f] = s[f]

\* ServiceOptions.CompareStoreOptions: a service's options and what the store has.
CompareServiceOptions(o, s) ==
    \A f \in {"Host", "Port", "Protocol", "Flags", "Method"} : o[f] = s[f]

-----------------------------------------------------------------------------
(* BackendOptions and the Pulse options inside them *)

BackendOptions == [Host : STRING, Port : Nat, Weight : Nat, Method : STRING,
                   Pulse : [Type : STRING, Interval : STRING]]

\* util.ParseInterval, in seconds, on the intervals used; others do not parse.
ParseInterval == [i \in {"1m", "5s", "-5s"} |->
                    CASE i = "1m" -> 60 [] i = "5s" -> 5 [] i = "-5s" -> -5]

\* The Pulse options as pulse.Options.Validate leaves them.
FillPulse(po) == [Type |-> ToLower(OrElse(po.Type, "tcp")), Interval |-> OrElse(po.Interval, "1m")]

\* Validate returns no error.
PulseValid(po) ==
    /\ FillPulse(po).Type \in {"tcp", "http", "none"}
    /\ FillPulse(po).Interval \in DOMAIN ParseInterval
    /\ ParseInterval[FillPulse(po).Interval] > 0

DefaultWeight == 100

\* The exported fields as Fill and pulse.New leave them.
FillBackend(o) ==
    [Host |-> o.Host, Port |-> o.Port,
     Weight |-> IF o.Weight <= 0 THEN DefaultWeight ELSE o.Weight,
     Method |-> ToLower(OrElse(o.Method, "nat")),
     Pulse  |-> FillPulse(o.Pulse)]

\* Fill and pulse.New return no error.
BackendValid(o) ==
    /\ o.Host # "" /\ o.Port # 0
    /\ o.Host \in DOMAIN Lookup
    /\ ValidForwarding(FillBackend(o).Method)
    /\ PulseValid(o.Pulse)

\* BackendOptions.CompareStoreOptions: weight, pulse and service are not compared.
CompareBackendOptions(o, s) == \A f \in {"Host", "Port", "Method"} : o[f] = s[f]
=============================================================================
