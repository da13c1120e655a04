-------------------------- MODULE MCKarkainRuntime --------------------------
(* Small instances of KarkainRuntime: two workers and the main thread.     *)
EXTENDS KarkainRuntime, TLC

CONSTANTS k1, k2, m1, m2, m3, a1, main, none

Symmetry == Permutations(Tasks) \cup Permutations(Msgs)

\* Programs that use every operation; a task does not join itself.
AllMain == {"spawn", "send", "stop", "join", "wait_all"}
AllTask == {"spawn", "send", "stop"}
AllHandler == {"send", "stop"}

PlainTask == {"spawn", "send"}
PlainHandler == {"send"}
=============================================================================
