---------------------------- MODULE MCTraceCollect ----------------------------
(* Small instances of a tracing session for TLC.                            *)
EXTENDS TraceCollect, TLC

Symmetry == Permutations(IoThreads)
===============================================================================
