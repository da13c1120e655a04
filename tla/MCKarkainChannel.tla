-------------------------- MODULE MCKarkainChannel --------------------------
(* KarkainChannel for TLC.                                                 *)
EXTENDS KarkainChannel

\* Unbounded, the blocking capacity 0, and the smallest proper capacities.
AllCaps == {-1, 0, 1, 2}
=============================================================================
