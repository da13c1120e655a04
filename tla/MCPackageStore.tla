--------------------------- MODULE MCPackageStore ---------------------------
(* Three publish commands, and a project whose manifest has had ^1.0.0,     *)
(* ~1.0.0 and 1.1.0 as requirement; the first two share a cache directory.  *)
EXTENDS PackageStore, TLC

CONSTANTS p1, p2, p3

MCPublishers == {p1, p2, p3}
Symmetry == Permutations(MCPublishers)
MCVersions == 1 .. 2          \* 1.0.0 and 1.1.0
MCReqs == {"caret", "tilde", "exact"}
MCAllows == [r \in MCReqs |-> CASE r = "caret" -> {1, 2} [] r = "tilde" -> {1} [] r = "exact" -> {2}]
MCDir == [r \in MCReqs |-> IF r = "exact" THEN "1.1.0" ELSE "_1.0.0"]
=============================================================================
