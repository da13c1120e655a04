------------------------- MODULE MCIncrementalBuild -------------------------
(* Small instances of IncrementalBuild: a library and a root module.       *)
EXTENDS IncrementalBuild

CONSTANTS lib, main, l1, l2, l3, m1, m2, mc, k1, k2, i1, i2

TwoFiles == <<lib, main>>

\* l1 and l2 differ in a body only, l3 in an enum; mc spawns a task.
AllContents == [m \in Modules |-> IF m = lib THEN {l1, l2, l3} ELSE {m1, mc}]
FewContents == [m \in Modules |-> IF m = lib THEN {l1, l3} ELSE {m1, m2}]

MCInterfaces ==
  [c \in Contents \cup {Absent} |-> IF c = Absent THEN Absent ELSE IF c = l3 THEN i2 ELSE i1]

\* main imports lib.
Chain == [m \in Modules |-> IF m = main THEN {lib} ELSE {}]
=============================================================================
