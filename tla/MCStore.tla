------------------------------ MODULE MCStore ------------------------------
(* Small instances of Store for TLC. *)
EXTENDS Store, MCContext

TwoMethods == {Web, [Web EXCEPT !.Method = "rr"]}
TwoForwardings == {Be1, [Be1 EXCEPT !.Method = "tunnel"]}
=============================================================================
