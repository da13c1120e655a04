---------------------------- MODULE ModuleGraph ----------------------------
(***************************************************************************)
(* Import resolution (pkg/module): the walk over source files that finds   *)
(* the modules of a compilation and their import edges, the topological    *)
(* order of the modules and the report of an import cycle.                 *)
(*                                                                         *)
(* Modules are numbered in the order of their names.  A file is a module   *)
(* and a position in the module's sorted file list.  The recursion of walk *)
(* is a stack of frames: the module whose imports are being followed, the  *)
(* imports left, the module being entered and its files left.  A file's    *)
(* import declarations are in any order.                                   *)
(***************************************************************************)
EXTENDS Integers, Sequences, FiniteSets, Functions

CONSTANTS
  Root,      \* the module of the root file
  FilesOf,   \* module -> number of source files; a module not here is not on disk
  Imported   \* what a file may import, file -> set of modules

OnDisk == DOMAIN FilesOf
SourceFiles == UNION {{<<m, i>> : i \in 1..FilesOf[m]} : m \in OnDisk}
RootFile == <<Root, 1>>

ASSUME ModuleAssumption ==
  /\ IsFiniteSet(OnDisk) /\ OnDisk \subseteq Nat /\ Root \in OnDisk
  /\ FilesOf \in [OnDisk -> Nat \ {0}]

VARIABLES
  importsOf,   \* the import declarations of each source file
  stack,       \* the frames of walk
  seen,        \* the files walked
  walkedMod,   \* the modules whose imports have been followed
  modules,     \* Graph.Modules
  edges,       \* Graph.Imports, deduplicated: <<from, to>>
  indeg, queue, result,   \* the state of topoOrder
  outcome      \* "walk", "sort", "ok", "notfound" or "cycle"

mgVars == <<importsOf, stack, seen, walkedMod, modules, edges, indeg, queue, result, outcome>>

Frame(m, imps) == [mod |-> m, imps |-> imps, into |-> m, files |-> <<>>]

MGInit ==
  /\ importsOf \in {g \in [SourceFiles -> SUBSET UNION {Imported[f] : f \in SourceFiles}] :
                      \A f \in SourceFiles : g[f] \subseteq Imported[f]}
  /\ stack = <<Frame(Root, importsOf[RootFile])>>
  /\ seen = {RootFile}
  /\ walkedMod = {Root}
  /\ modules = {Root}
  /\ edges = {}
  /\ indeg = <<>>
  /\ queue = {}
  /\ result = <<>>
  /\ outcome = "walk"

-----------------------------------------------------------------------------
top == stack[Len(stack)]
ReplaceTop(frame) == [stack EXCEPT ![Len(stack)] = frame]
sortVars == <<indeg, queue, result>>

\* Mutant: a module is taken for walked once it is in the graph.
skipped_Known(f, m) == f \in seen \/ m \in modules

\* A file walked before, or a further file of a module walked before.
skipped(f, m) == f \in seen \/ m \in walkedMod

\* walk on a file of the module being entered: its imports are followed
\* unless the module has been walked.
WalkFile ==
  /\ outcome = "walk" /\ stack # <<>> /\ top.files # <<>>
  /\ LET f == Head(top.files)
         rest == ReplaceTop([top EXCEPT !.files = Tail(@)])
     IN /\ seen' = seen \cup {f}
        /\ IF skipped(f, top.into)
           THEN stack' = rest /\ UNCHANGED walkedMod
           ELSE /\ stack' = Append(rest, Frame(top.into, importsOf[f]))
                /\ walkedMod' = walkedMod \cup {top.into}
  /\ UNCHANGED <<importsOf, modules, edges, sortVars, outcome>>

\* One import of the file being walked: resolveImport, the edge, and the
\* files of the target unless it has been walked.
FollowImport ==
  /\ outcome = "walk" /\ stack # <<>> /\ top.files = <<>>
  /\ \E t \in top.imps :
       IF t \notin OnDisk
       THEN outcome' = "notfound" /\ UNCHANGED <<stack, modules, edges>>
       ELSE /\ edges' = edges \cup {<<top.mod, t>>}
            /\ modules' = modules \cup {t}
            /\ stack' = ReplaceTop(
                 [top EXCEPT !.imps = @ \ {t}, !.into = t,
                             !.files = IF t \in walkedMod THEN <<>> ELSE [i \in 1..FilesOf[t] |-> <<t, i>>]])
            /\ UNCHANGED outcome
  /\ UNCHANGED <<importsOf, seen, walkedMod, sortVars>>

WalkReturns ==
  /\ outcome = "walk" /\ stack # <<>> /\ top.files = <<>> /\ top.imps = {}
  /\ stack' = SubSeq(stack, 1, Len(stack) - 1)
  /\ UNCHANGED <<importsOf, seen, walkedMod, modules, edges, sortVars, outcome>>

-----------------------------------------------------------------------------
Nodes == UNION {{e[1], e[2]} : e \in edges}

\* topoOrder: the in-degrees and the modules nothing imports.
StartSort ==
  /\ outcome = "walk" /\ stack = <<>>
  /\ indeg' = [n \in Nodes |-> Cardinality({e \in edges : e[2] = n})]
  /\ queue' = {n \in Nodes : \A e \in edges : e[2] # n}
  /\ outcome' = "sort"
  /\ UNCHANGED <<importsOf, stack, seen, walkedMod, modules, edges, result>>

\* Mutant: a module is queued while one of its importers is still to come.
ready_Early(n, deg) == deg[n] <= 1

ready(n, deg) == deg[n] = 0

PopSmallest ==
  /\ outcome = "sort"
  /\ \E u \in queue :
       /\ \A v \in queue : u <= v
       /\ LET out == {e[2] : e \in {e \in edges : e[1] = u}}
              deg == [n \in DOMAIN indeg |-> IF n \in out THEN indeg[n] - 1 ELSE indeg[n]]
          IN /\ indeg' = deg
             /\ queue' = (queue \ {u}) \cup {n \in out : ready(n, deg)}
       /\ result' = Append(result, u)
  /\ UNCHANGED <<importsOf, stack, seen, walkedMod, modules, edges, outcome>>

FinishOrder ==
  /\ outcome = "sort" /\ queue = {}
  /\ outcome' = IF Range(result) = Nodes THEN "ok" ELSE "cycle"
  /\ UNCHANGED <<importsOf, stack, seen, walkedMod, modules, edges, sortVars>>

MGNext == WalkFile \/ FollowImport \/ WalkReturns \/ StartSort \/ PopSmallest \/ FinishOrder

MGSpec == MGInit /\ [][MGNext]_mgVars

-----------------------------------------------------------------------------
reverseStrings(s) == [i \in 1..Len(s) |-> s[(Len(s) - i) + 1]]

\* Graph.Order: dependencies first; the root is there even without imports.
Order == IF Root \in Range(result) THEN reverseStrings(result) ELSE Append(reverseStrings(result), Root)

-----------------------------------------------------------------------------
Precedes(s, a, b) == \E i, j \in DOMAIN s : i < j /\ s[i] = a /\ s[j] = b

(***************************************************************************)
(* topoOrder and finish: a graph that is accepted is ordered with every    *)
(* module once and after all it imports; one that is refused has a set of  *)
(* modules each imported from within the set, so no order of it exists.    *)
(***************************************************************************)
OrderExact ==
  /\ outcome = "ok" =>
       /\ Range(Order) = modules /\ IsInjective(Order)
       /\ \A e \in edges : Precedes(Order, e[2], e[1])
  /\ outcome = "cycle" =>
       \E S \in SUBSET Nodes : S # {} /\ \A n \in S : \E e \in edges : e[1] \in S /\ e[2] = n

(***************************************************************************)
(* walk: when the resolution ends, every import declared in a file of a    *)
(* module of the graph is an edge, as the field comment says ("Imports are *)
(* all import edges"); this leaves out the files of a module after its     *)
(* first, whose imports walk does not follow.                              *)
(***************************************************************************)
ImportsComplete ==
  outcome \in {"ok", "cycle"} =>
    \A f \in seen : f[2] = 1 => \A t \in importsOf[f] : <<f[1], t>> \in edges /\ <<t, 1>> \in seen
=============================================================================
