----------------------------- MODULE MCExporter -----------------------------
(* Small instances of Exporter for TLC. *)
EXTENDS Exporter, MCContext
=============================================================================
