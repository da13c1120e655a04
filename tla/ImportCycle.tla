---------------------------- MODULE ImportCycle ----------------------------
(***************************************************************************)
(* The import cycle that is named when a module graph is refused           *)
(* (pkg/module, findCycle).                                                *)
(***************************************************************************)
EXTENDS ModuleGraph, SequencesExt

RECURSIVE recur(_, _, _), recurAll(_, _, _)
\* The depth-first search of findCycle from u: the modules done with, and the
\* cycle, empty when there is none.
recur(u, path, done) ==
  IF u \in done THEN [done |-> done, cycle |-> <<>>]
  ELSE IF u \in ToSet(path)
  THEN [done |-> done,
        cycle |-> Append(SubSeq(path, CHOOSE i \in DOMAIN path : path[i] = u, Len(path)), u)]
  ELSE LET r == recurAll(SetToSortSeq({e[2] : e \in {e \in edges : e[1] = u}}, <), Append(path, u), done)
       IN [r EXCEPT !.done = @ \cup {u}]

recurAll(us, path, done) ==
  IF us = <<>> THEN [done |-> done, cycle |-> <<>>]
  ELSE LET r == recur(Head(us), path, done)
       IN IF r.cycle # <<>> THEN r ELSE recurAll(Tail(us), path, r.done)

findCycle == recurAll(SetToSortSeq({e[1] : e \in edges}, <), <<>>, {}).cycle

-----------------------------------------------------------------------------
(***************************************************************************)
(* topoOrder, finish and findCycle: a graph is accepted with an order that *)
(* has every module once and after all it imports, or refused for a cycle; *)
(* the cycle named in the report is one of the graph, edge by edge.        *)
(***************************************************************************)
OrderSound ==
  /\ OrderExact
  /\ outcome = "cycle" =>
       /\ Len(findCycle) > 1 /\ Head(findCycle) = Last(findCycle)
       /\ \A i \in 1..(Len(findCycle) - 1) : <<findCycle[i], findCycle[i + 1]>> \in edges
=============================================================================
