----------------------------- MODULE MCTraceRing -----------------------------
(* Small instances of the trace ring for TLC.  The thread sets and the      *)
(* payloads are interchangeable, the sizes are not.                         *)
EXTENDS TraceRing, TLC

Symmetry == Permutations(Producers) \cup Permutations(Consumers)
              \cup Permutations(Payloads)
==============================================================================
