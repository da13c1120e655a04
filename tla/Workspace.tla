----------------------------- MODULE Workspace -----------------------------
(***************************************************************************)
(* Workspaces (pkg/pm/workspace.go): members are added to and removed from *)
(* the workspace file, and the build order of the members is computed from *)
(* their manifests.  Directories are numbered in name order; a member      *)
(* entry is a spelling of the path of a directory ("lib", "./lib" or its   *)
(* absolute path).                                                         *)
(***************************************************************************)
EXTENDS Integers, Sequences, FiniteSets, Functions

CONSTANTS
  Dirs,       \* package directories under the workspace root
  Spellings,  \* the ways a member path is written, "abs" among them
  MaxEntries  \* entries of the workspace file

ASSUME WorkspaceAssumption == IsFiniteSet(Dirs) /\ Dirs \subseteq Nat

VARIABLES
  members,    \* the workspace file: a sequence of <<dir, spelling>>
  deps,       \* the member manifests: directory -> directories it depends on
  order,      \* WorkspaceOrder: the members emitted so far
  doneDeps,   \* dependencies left, per member of the snapshot
  wsQueue,    \* the ready members
  wsDone      \* "idle", "order", "ok" or "cycle"

wsVars == <<members, deps, order, doneDeps, wsQueue, wsDone>>

MemberDirs == {d \in Dirs : \E i \in DOMAIN members : members[i][1] = d}

WSInit ==
  /\ members = <<>>
  /\ deps \in [Dirs -> SUBSET Dirs]
  /\ order = <<>>
  /\ doneDeps = <<>>
  /\ wsQueue = {}
  /\ wsDone = "idle"

\* The order is a result, not a state: nothing of it is kept.
Forget == order' = <<>> /\ doneDeps' = <<>> /\ wsQueue' = {} /\ wsDone' = "idle" /\ UNCHANGED deps

\* Refused: the very spelling a second time, and a directory whose absolute
\* path is an entry.
AddWorkspaceMember(e) ==
  /\ wsDone # "order"
  /\ Len(members) < MaxEntries
  /\ e \notin Range(members) /\ <<e[1], "abs">> \notin Range(members)
  /\ members' = Append(members, e)
  /\ Forget

\* An entry names the directory another entry names: paths are made absolute.
names(e, d) == e[1] = d[1]

RemoveWorkspaceMember(e) ==
  /\ wsDone # "order"
  /\ \E i \in DOMAIN members : names(members[i], e)
  /\ members' = SelectSeq(members, LAMBDA m : ~names(m, e))
  /\ Forget

\* WorkspaceOrder: the members once per directory, the edges between members.
MemberDeps(d) == deps[d] \cap MemberDirs

StartOrder ==
  /\ wsDone = "idle" /\ members # <<>>
  /\ doneDeps' = [d \in MemberDirs |-> Cardinality(MemberDeps(d))]
  /\ wsQueue' = {d \in MemberDirs : MemberDeps(d) = {}}
  /\ order' = <<>>
  /\ wsDone' = "order"
  /\ UNCHANGED <<members, deps>>

\* Mutant: a member is ready while one of its dependencies is still to come.
released_Early(d, left) == left[d] <= 1

released(d, left) == left[d] = 0

EmitMember ==
  /\ wsDone = "order"
  /\ \E cur \in wsQueue :
       /\ \A d \in wsQueue : cur <= d
       /\ LET dependers == {d \in MemberDirs : cur \in MemberDeps(d)}
              left == [d \in DOMAIN doneDeps |-> IF d \in dependers THEN doneDeps[d] - 1 ELSE doneDeps[d]]
          IN /\ doneDeps' = left
             /\ wsQueue' = (wsQueue \ {cur}) \cup {d \in dependers : released(d, left)}
       /\ order' = Append(order, cur)
  /\ UNCHANGED <<members, deps, wsDone>>

FinishMembers ==
  /\ wsDone = "order" /\ wsQueue = {}
  /\ wsDone' = IF Len(order) = Cardinality(MemberDirs) THEN "ok" ELSE "cycle"
  /\ UNCHANGED <<members, deps, order, doneDeps, wsQueue>>

WSNext ==
  \/ \E e \in Dirs \X Spellings : AddWorkspaceMember(e) \/ RemoveWorkspaceMember(e)
  \/ StartOrder \/ EmitMember \/ FinishMembers

WSSpec == WSInit /\ [][WSNext]_wsVars

-----------------------------------------------------------------------------
\* The members named in the report of a cycle.
Reported == {d \in DOMAIN doneDeps : doneDeps[d] > 0}

\* No set of members that depend on one another: none can be built first.
Acyclic == \A S \in SUBSET MemberDirs : S # {} => \E d \in S : MemberDeps(d) \cap S = {}

(***************************************************************************)
(* WorkspaceOrder: "every member is listed after all members it depends    *)
(* on. A member is built exactly once"; a cycle, and nothing else, is an   *)
(* error, and every member of the report waits for another one in it.      *)
(***************************************************************************)
WorkspaceOrderSound ==
  /\ wsDone = "ok" =>
       /\ Range(order) = MemberDirs /\ Len(order) = Cardinality(MemberDirs)
       /\ \A i \in DOMAIN order : MemberDeps(order[i]) \subseteq {order[j] : j \in 1..(i - 1)}
  /\ wsDone \in {"ok", "cycle"} => (wsDone = "ok" <=> Acyclic)
  /\ wsDone = "cycle" => Reported # {} /\ \A d \in Reported : MemberDeps(d) \cap Reported # {}
=============================================================================
