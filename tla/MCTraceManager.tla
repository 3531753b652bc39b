--------------------------- MODULE MCTraceManager ---------------------------
(* Small instances of the trace manager for TLC.                            *)
EXTENDS TraceManager, TLC

Symmetry == Permutations(Clients)
=============================================================================
