----------------------------- MODULE MCContext -----------------------------
(* Small instances of Context for TLC. *)
EXTENDS Context, TLC

CONSTANTS s1, s2, s3, p1, p2

\* Two services on one address, told apart by port and protocol; backends on
\* two addresses.
MCLookup == ("web" :> "10.0.0.1") @@ ("ftp" :> "10.0.0.2")
            @@ ("be1" :> "10.1.0.1") @@ ("be2" :> "10.1.0.2") @@ ("be6" :> "fd00::1")
MCEndpoint == "10.0.0.1"

Web == [Host |-> "web", Port |-> 80, Protocol |-> "", Method |-> "", Flags |-> <<>>]
Dns == [Host |-> "", Port |-> 53, Protocol |-> "UDP", Method |-> "sh", Flags |-> <<"sh-port">>]
BadFlag == [Web EXCEPT !.Flags = <<"sh-port", "does-not-match">>]

MCServiceRequests == {Web, Dns, BadFlag}
OneService == {Web}
\* Addresses 10.0.0.1 and 10.0.0.2.
TwoVips == {Web, [Web EXCEPT !.Host = "ftp"]}
MCServicePatches  == {[Web EXCEPT !.Method = "rr"], Dns}
OnePatch == {[Web EXCEPT !.Method = "rr"]}
NoPatches == {}

Be1 == [Host |-> "be1", Port |-> 8080, Weight |-> 0, Method |-> "",
        Pulse |-> [Type |-> "", Interval |-> ""]]
Be2 == [Host |-> "be2", Port |-> 8080, Weight |-> 5, Method |-> "NAT",
        Pulse |-> [Type |-> "none", Interval |-> "5s"]]
BadPulse == [Be1 EXCEPT !.Pulse = [Type |-> "tcp", Interval |-> "-5s"]]
OtherFamily == [Be1 EXCEPT !.Host = "be6"]

MCBackendRequests == {Be1, Be2, BadPulse, OtherFamily}
OneBackend == {Be1}
TwoBackends == {Be1, Be2}

MCSvcPtrs == {s1, s2, s3}
TwoSvcPtrs == {s1, s2}
OneSvcPtr == {s1}
MCPulses  == {p1, p2}
OnePulse  == {p1}
Symmetry  == Permutations(MCSvcPtrs) \cup Permutations(MCPulses)
=============================================================================
