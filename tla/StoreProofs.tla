----------------------------- MODULE StoreProofs ----------------------------
(***************************************************************************)
(* The stores that outlive a command.  The registry is immutable and its   *)
(* index sound, and the cache holds what a requirement admits, for any     *)
(* number of publish commands, versions and requirements.  The incremental *)
(* build leaves what a build from nothing would leave, for any modules,    *)
(* contents, interfaces and compiler keys, as long as its cache can be     *)
(* trusted.                                                                *)
(***************************************************************************)
EXTENDS PackageStore, IncrementalBuild, SequenceTheorems, TLAPS

-----------------------------------------------------------------------------
(* The registry and the cache of packages (PackageStore).                  *)

\* A publisher that is about to store or to list its version has one.
HasVersion ==
  \A p \in Publishers : pub[p].pc \in {"store", "read"} => pub[p].v \in Versions

\* The steps of the project's command, which leave the registry alone.
ProjectStep ==
  \/ \E r \in Reqs, force \in BOOLEAN : Fetch(r, force)
  \/ \E d \in Dirs : Clean(d)
  \/ Resolve \/ Copy \/ ClearSome \/ ClearRest \/ Promote \/ WriteChecksumFile
  \/ KillCommand \/ Exit

\* The commands of a project only read the registry.
LEMMA ProjectKeepsRegistry == ProjectStep => UNCHANGED registry
BY Zenon DEF ProjectStep, registry, Fetch, Clean, Resolve, Copy, ClearSome, ClearRest, Promote,
   WriteChecksumFile, KillCommand, Exit

\* An empty registry has the right type.
LEMMA RegistryTypeInit == Init => RegistryType /\ HasVersion
<1> SUFFICES ASSUME Init PROVE RegistryType /\ HasVersion
  BY Zenon
<1> USE DEF Init
<1>1. stored \in [Versions -> Publishers \cup {None}] /\ damaged \subseteq Versions
  BY Zenon
<1>2. file \in [{"index", "tmp"} -> Files]
  BY Zenon DEF Files, NoFile
<1>3. pub \in [Publishers ->
       [pc : {"off", "store", "read", "open", "write", "move", "remove", "done", "failed", "killed"},
        v : Versions \cup {None}, vs : SUBSET Versions]]
  BY Zenon
<1>4. fd \in [Publishers -> {"index", "tmp", "gone"}] /\ overlap \in BOOLEAN
  BY Zenon
<1>5. HasVersion
  BY Zenon DEF HasVersion
<1> QED
  BY Zenon, <1>1, <1>2, <1>3, <1>4, <1>5 DEF RegistryType

\* Every step keeps the registry's type, and a publisher past its test keeps its version.
LEMMA RegistryTypeStep ==
  ASSUME RegistryType, HasVersion, [Next]_vars
  PROVE  RegistryType' /\ HasVersion'
<1> USE DEF RegistryType, HasVersion, GoTo, Files
<1>1. ASSUME NEW p \in Publishers, NEW v \in Versions, Publish(p, v)
      PROVE  RegistryType' /\ HasVersion'
  <2> DEFINE to == IF Published(v) THEN "failed" ELSE "store"
             T == [pc : {"off", "store", "read", "open", "write", "move", "remove", "done",
                         "failed", "killed"}, v : Versions \cup {None}, vs : SUBSET Versions]
  <2>1. pub' = [pub EXCEPT ![p].pc = to, ![p].v = v] /\ to \in {"failed", "store"}
    BY Zenon, <1>1 DEF Publish
  <2> HIDE DEF to
  <2>2. UNCHANGED <<stored, damaged, file, fd, overlap>>
    BY Zenon, <1>1 DEF Publish
  <2>3. \A q \in Publishers : pub'[q] = IF q = p THEN [pub[p] EXCEPT !.pc = to, !.v = v] ELSE pub[q]
    BY Zenon, <2>1
  <2>4. [pub[p] EXCEPT !.pc = to, !.v = v] \in T /\ pub \in [Publishers -> T]
    <3>1. pub \in [Publishers -> T] /\ pub[p] \in T
      BY Zenon
    <3> QED
      BY Zenon, <2>1, <3>1
  <2>5. pub' = [q \in Publishers |-> pub'[q]]
    BY Zenon, <2>1
  <2> HIDE DEF T
  <2>6. pub' \in [Publishers -> T]
    BY ONLY <2>3, <2>4, <2>5
  <2>7. HasVersion'
    <3>1. pub'[p].v = v
      BY Zenon, <2>1
    <3>2. \A q \in Publishers : q # p => pub'[q] = pub[q]
      BY Zenon, <2>3
    <3> QED
      BY Zenon, <3>1, <3>2
  <2> QED
    BY Zenon, <2>2, <2>6, <2>7 DEF T
<1>2. ASSUME NEW p \in Publishers, Store(p) PROVE RegistryType' /\ HasVersion'
  BY <1>2 DEF Store
<1>3. ASSUME NEW p \in Publishers, ReadIndex(p) PROVE RegistryType' /\ HasVersion'
  <2>1. UNCHANGED <<stored, damaged, file, fd>>
    BY Zenon, <1>3 DEF ReadIndex
  <2>2. CASE file["index"].kind \in {"empty", "garbled"}
    BY <1>3, <2>1, <2>2 DEF ReadIndex
  <2>3. CASE file["index"].kind \notin {"empty", "garbled"}
    <3> DEFINE new == Extended(file["index"].vs, pub[p].v)
    <3>1. new \in SUBSET Versions
      BY Zenon, <1>3 DEF ReadIndex, Extended
    <3>2. pub' = [pub EXCEPT ![p] = [pc |-> "open", v |-> pub[p].v, vs |-> new]]
      BY <1>3, <2>3 DEF ReadIndex
    <3>3. overlap' \in BOOLEAN
      BY Zenon, <1>3, <2>3 DEF ReadIndex
    <3> HIDE DEF new
    <3> QED
      BY Zenon, <2>1, <3>1, <3>2, <3>3
  <2> QED
    BY Zenon, <2>2, <2>3
<1>4. ASSUME NEW p \in Publishers, OpenTmp(p) PROVE RegistryType' /\ HasVersion'
  BY <1>4 DEF OpenTmp, EmptyFile
<1>5. ASSUME NEW p \in Publishers, WriteTmp(p) PROVE RegistryType' /\ HasVersion'
  BY <1>5 DEF WriteTmp, Overwritten, List, Garbled
<1>6. ASSUME NEW p \in Publishers, MoveTmp(p) PROVE RegistryType' /\ HasVersion'
  <2>1. UNCHANGED <<stored, damaged, overlap>>
    BY Zenon, <1>6 DEF MoveTmp
  <2>2. PICK c \in {"remove", "done"} : pub' = [pub EXCEPT ![p].pc = c]
    BY Zenon, <1>6 DEF MoveTmp
  <2>3. pub' \in [Publishers -> [pc : {"off", "store", "read", "open", "write", "move", "remove", "done",
                                       "failed", "killed"},
                                 v : Versions \cup {None}, vs : SUBSET Versions]]
    BY <2>2
  <2>4. HasVersion'
    BY <2>2
  <2>5. file' \in [{"index", "tmp"} -> Files]
    BY <1>6 DEF MoveTmp, NoFile
  <2>6. fd' \in [Publishers -> {"index", "tmp", "gone"}]
    BY <1>6 DEF MoveTmp, Moved
  <2> QED
    BY Zenon, <2>1, <2>3, <2>4, <2>5, <2>6
<1>7. ASSUME NEW p \in Publishers, RemoveTmp(p) PROVE RegistryType' /\ HasVersion'
  BY <1>7 DEF RemoveTmp, NoFile
<1>8. ASSUME NEW p \in Publishers, KillPublisher(p) PROVE RegistryType' /\ HasVersion'
  BY <1>8 DEF KillPublisher
<1>9. ASSUME NEW v \in Versions, Damage(v) PROVE RegistryType' /\ HasVersion'
  BY Zenon, <1>9 DEF Damage
<1>10. CASE UNCHANGED registry
  BY Zenon, <1>10 DEF registry
<1> QED
  BY Zenon, <1>1, <1>2, <1>3, <1>4, <1>5, <1>6, <1>7, <1>8, <1>9, <1>10, ProjectKeepsRegistry
     DEF Next, ProjectStep, vars

\* Only the rename of PublishLocal changes what is stored, and it adds.
LEMMA StoredGrows ==
  ASSUME RegistryType, [Next]_vars
  PROVE  \A v \in Versions : Published(v) => stored'[v] = stored[v]
<1> SUFFICES ASSUME NEW v \in Versions, Published(v) PROVE stored'[v] = stored[v]
  BY Zenon
<1>1. ASSUME NEW p \in Publishers, Store(p) PROVE stored'[v] = stored[v]
  <2>1. CASE CanRename(pub[p].v)
    <3>1. pub[p].v # v
      BY Zenon, <2>1 DEF CanRename
    <3> QED
      BY Zenon, <1>1, <2>1, <3>1 DEF Store, RegistryType
  <2>2. CASE ~CanRename(pub[p].v)
    BY Zenon, <1>1, <2>2 DEF Store
  <2> QED
    BY Zenon, <2>1, <2>2
<1>2. CASE UNCHANGED stored
  BY Zenon, <1>2
<1>3. (\E p \in Publishers : Store(p)) \/ UNCHANGED stored
  BY Zenon, ProjectKeepsRegistry DEF Next, ProjectStep, vars, registry, Publish, ReadIndex, OpenTmp,
     WriteTmp, MoveTmp, RemoveTmp, KillPublisher, Damage
<1> QED
  BY Zenon, <1>1, <1>2, <1>3

\* A list of versions on its way to the index names stored trees only: the
\* index, its temporary file, and what a publisher has read and extended.
AllStored(vs) == \A v \in vs : Published(v)

ListsStored ==
  /\ \A f \in {"index", "tmp"} : AllStored(file[f].vs)
  /\ \A p \in Publishers : AllStored(pub[p].vs)
  /\ \A p \in Publishers : pub[p].pc = "read" => Published(pub[p].v)

\* Lists of stored versions stay lists of stored versions.
LEMMA ListsStoredStep ==
  ASSUME RegistryType, HasVersion, ListsStored, [Next]_vars
  PROVE  ListsStored'
<1> DEFINE Kept == \A v \in Versions : Published(v) => Published(v)'
<1>0. Kept
  BY Zenon, StoredGrows DEF Published
<1> USE DEF RegistryType, ListsStored, AllStored, GoTo, Files
<1>1. ASSUME NEW p \in Publishers, Store(p) PROVE ListsStored'
  <2>1. CASE CanRename(pub[p].v)
    <3>1. pub' = [pub EXCEPT ![p].pc = "read"] /\ UNCHANGED file
      BY Zenon, <1>1, <2>1 DEF Store
    <3>2. Published(pub[p].v)'
      <4>1. pub[p].v \in Versions /\ stored' = [stored EXCEPT ![pub[p].v] = p]
        BY Zenon, <1>1, <2>1 DEF Store, HasVersion
      <4>2. stored'[pub[p].v] = p /\ pub'[p].v = pub[p].v
        BY Zenon, <4>1, <3>1
      <4> QED
        BY Zenon, <4>2, StoreAssumption DEF Published
    <3>3. \A q \in Publishers : pub'[q].vs = pub[q].vs
      BY Zenon, <3>1
    <3>4. \A q \in Publishers \ {p} : pub'[q] = pub[q]
      BY Zenon, <3>1
    <3>5. \A q \in Publishers \ {p} : pub[q].pc = "read" => pub[q].v \in Versions
      BY Zenon DEF HasVersion
    <3> QED
      BY Zenon, <1>0, <3>1, <3>2, <3>3, <3>4, <3>5
  <2>2. CASE ~CanRename(pub[p].v)
    <3>1. UNCHANGED <<stored, file>> /\ pub' = [pub EXCEPT ![p].pc = "failed"]
      BY Zenon, <1>1, <2>2 DEF Store
    <3>2. \A q \in Publishers : pub'[q].vs = pub[q].vs /\ pub'[q].v = pub[q].v
      BY <3>1
    <3>3. \A q \in Publishers : pub'[q].pc = "read" => pub[q].pc = "read"
      BY <3>1
    <3> QED
      BY <3>1, <3>2, <3>3 DEF Published
  <2> QED
    BY Zenon, <2>1, <2>2
<1> USE DEF Published
<1>2. ASSUME NEW p \in Publishers, NEW v \in Versions, Publish(p, v) PROVE ListsStored'
  <2>1. UNCHANGED <<stored, file>>
    BY Zenon, <1>2 DEF Publish
  <2>2. \A q \in Publishers : pub'[q].vs = pub[q].vs
    BY <1>2 DEF Publish
  <2>3. \A q \in Publishers : pub'[q].pc = "read" => pub'[q] = pub[q]
    BY Zenon, <1>2 DEF Publish
  <2> QED
    BY Zenon, <2>1, <2>2, <2>3
<1>3. ASSUME NEW p \in Publishers, ReadIndex(p) PROVE ListsStored'
  <2>1. UNCHANGED <<stored, file>>
    BY Zenon, <1>3 DEF ReadIndex
  <2>2. \A q \in Publishers : pub'[q].pc = "read" => pub'[q] = pub[q]
    BY <1>3 DEF ReadIndex
  <2>3. \A q \in Publishers \ {p} : pub'[q] = pub[q]
    BY Zenon, <1>3 DEF ReadIndex
  <2>4. pub'[p].vs = pub[p].vs \/ pub'[p].vs = file["index"].vs \cup {pub[p].v}
    BY <1>3 DEF ReadIndex, Extended
  <2>5. Published(pub[p].v)
    BY Zenon, <1>3 DEF ReadIndex
  <2> QED
    BY <2>1, <2>2, <2>3, <2>4, <2>5
<1>4. ASSUME NEW p \in Publishers, OpenTmp(p) PROVE ListsStored'
  BY <1>4 DEF OpenTmp, EmptyFile
<1>5. ASSUME NEW p \in Publishers, WriteTmp(p) PROVE ListsStored'
  BY <1>5 DEF WriteTmp, Overwritten, List, Garbled
<1>6. ASSUME NEW p \in Publishers, MoveTmp(p) PROVE ListsStored'
  <2>1. UNCHANGED stored
    BY Zenon, <1>6 DEF MoveTmp
  <2>2. PICK to \in {"remove", "done"} : pub' = [pub EXCEPT ![p].pc = to]
    BY Zenon, <1>6 DEF MoveTmp
  <2>3. \A q \in Publishers : pub'[q].vs = pub[q].vs /\ pub'[q].v = pub[q].v
    BY <2>2
  <2>5. \A q \in Publishers : pub'[q].pc = "read" => pub[q].pc = "read"
    BY <2>2
  <2>4. \A f \in {"index", "tmp"} : file'[f].vs \in {file["index"].vs, file["tmp"].vs, {}}
    BY <1>6 DEF MoveTmp, NoFile
  <2> QED
    BY Zenon, <2>1, <2>3, <2>4, <2>5
<1>7. ASSUME NEW p \in Publishers, RemoveTmp(p) PROVE ListsStored'
  BY <1>7 DEF RemoveTmp, NoFile
<1>8. ASSUME NEW p \in Publishers, KillPublisher(p) PROVE ListsStored'
  BY <1>8 DEF KillPublisher
<1>9. CASE UNCHANGED <<stored, file, pub>>
  BY Zenon, <1>9
<1>10. (\E v \in Versions : Damage(v)) \/ UNCHANGED registry => UNCHANGED <<stored, file, pub>>
  BY Zenon DEF Damage, registry
<1> QED
  BY Zenon, <1>1, <1>2, <1>3, <1>4, <1>5, <1>6, <1>7, <1>8, <1>9, <1>10, ProjectKeepsRegistry
     DEF Next, ProjectStep, vars

RegistryInv == RegistryType /\ HasVersion /\ ListsStored

\* The invariant from which the registry's theorems follow.
LEMMA RegistryInvariant == Spec => []RegistryInv
<1>1. Init => RegistryInv
  BY RegistryTypeInit DEF RegistryInv, Init, ListsStored, AllStored, NoFile
<1>2. RegistryInv /\ [Next]_vars => RegistryInv'
  BY Zenon, RegistryTypeStep, ListsStoredStep DEF RegistryInv
<1> QED
  BY <1>1, <1>2, PTL DEF Spec

\* The index lists only versions whose tree PublishLocal has stored, for any
\* number of concurrent and killed publishers.
THEOREM IndexIsSound == Spec => []IndexSound
<1>1. RegistryInv => IndexSound
  BY Zenon DEF RegistryInv, ListsStored, AllStored, IndexSound
<1> QED
  BY <1>1, RegistryInvariant, PTL

\* PublishLocal never replaces or removes a published version.
THEOREM PublishedIsImmutable == Spec => PublishedImmutable
<1>1. RegistryInv /\ [Next]_vars
        => [\A v \in Versions : Published(v) => stored'[v] = stored[v]]_vars
  BY Zenon, StoredGrows DEF RegistryInv
<1> QED
  BY <1>1, RegistryInvariant, PTL DEF Spec, PublishedImmutable

-----------------------------------------------------------------------------
\* What the project's command and its cache hold.  A command that has chosen a
\* version chose a published one that its requirement admits; RemoveAll and
\* the rename work on the directory of the requirement; a tree that passed the
\* digest test is whole.
CommandInv ==
  /\ cmd.pc \in {"resolve", "copy", "promote", "sum", "ok"} => cmd.req \in Reqs
  /\ cmd.req \in Reqs => cmd.dir = Dir[cmd.req]
  /\ cmd.pc \in {"clear", "clearing"} => cmd.dir \in Dirs
  /\ cmd.pc \in {"copy", "promote", "sum"} \/ (cmd.pc \in {"clear", "clearing"} /\ cmd.req \in Reqs)
       => cmd.v \in Allows[cmd.req] /\ Published(cmd.v)
  /\ cmd.pc \in {"promote", "sum"} \/ (cmd.pc \in {"clear", "clearing"} /\ cmd.req \in Reqs)
       => cmd.tree = "whole"
  /\ cmd.pc \in {"sum", "ok"} => cache[cmd.dir].kind # "none"
  /\ cmd.pc = "sum" => cache[cmd.dir].kind = "whole"

Admitted(d, v) == \E r \in Reqs : Dir[r] = d /\ v \in Allows[r]

CacheInv ==
  \A d \in Dirs : cache[d].kind # "none" =>
    /\ cache[d].v \in Versions /\ Published(cache[d].v) /\ Admitted(d, cache[d].v)
    /\ cache[d].kind # "whole" =>
         \/ d \in torn \/ (cmd.pc = "clearing" /\ cmd.dir = d)

ProjectInv == ProjectType /\ CommandInv /\ CacheInv

\* Registry steps leave the project alone; what is stored stays stored.
LEMMA RegistryKeepsProject ==
  ASSUME RegistryType, ProjectInv, [Next]_vars, UNCHANGED project
  PROVE  ProjectInv'
<1>1. \A v \in Versions : Published(v) => Published(v)'
  BY Zenon, StoredGrows DEF Published
<1>2. ProjectType'
  BY Zenon DEF ProjectInv, ProjectType, project
<1>3. CommandInv'
  BY Zenon, <1>1, StoreAssumption DEF ProjectInv, CommandInv, project
<1>4. CacheInv'
  BY Zenon, <1>1 DEF ProjectInv, CacheInv, Admitted, project
<1> QED
  BY Zenon, <1>2, <1>3, <1>4 DEF ProjectInv

\* Every step of the project's command keeps the invariant.
LEMMA CommandStep ==
  ASSUME RegistryInv, ProjectInv, ProjectStep
  PROVE  ProjectInv'
<1>0. UNCHANGED <<stored, file>>
  BY Zenon, ProjectKeepsRegistry DEF registry
<1> USE <1>0, StoreAssumption DEF ProjectInv, ProjectType, CommandInv, CacheInv, Admitted,
        Published, Step, NoCmd, Dirs
<1>1. ASSUME NEW r \in Reqs, NEW force \in BOOLEAN, Fetch(r, force) PROVE ProjectInv'
  <2>0. PICK to \in {"ok", "resolve"} :
          cmd' = [pc |-> to, req |-> r, dir |-> Dir[r], v |-> None, tree |-> "none"]
    BY Zenon, <1>1 DEF Fetch
  <2>1. ProjectType'
    BY <1>1, <2>0 DEF Fetch
  <2>2. CommandInv'
    BY Zenon, <1>1 DEF Fetch, CachedValid
  <2>3. CacheInv'
    BY Zenon, <1>1 DEF Fetch, CachedValid
  <2> QED
    BY ONLY <2>1, <2>2, <2>3 DEF ProjectInv
<1>2. ASSUME NEW d \in Dirs, Clean(d) PROVE ProjectInv'
  BY Zenon, <1>2 DEF Clean
<1>3. CASE Resolve
  <2>1. cmd.pc = "resolve" /\ UNCHANGED <<cache, torn>>
    BY Zenon, <1>3 DEF Resolve
  <2>2. CASE cmd' = [cmd EXCEPT !.pc = "failed"]
    BY Zenon, <2>1, <2>2
  <2>3. ASSUME NEW v \in Candidates(cmd.req), cmd' = [cmd EXCEPT !.pc = "copy", !.v = v]
        PROVE  ProjectInv'
    <3>1. v \in Versions /\ v \in Allows[cmd.req] /\ Published(v)
      BY Zenon, <2>1 DEF Candidates, RegistryInv, ListsStored, AllStored
    <3> QED
      BY Zenon, <2>1, <2>3, <3>1
  <2> QED
    BY ONLY <1>3, <2>2, <2>3 DEF Resolve, Step
<1>4. CASE Copy
  <2>1. ProjectType'
    BY Zenon, <1>4 DEF Copy, DigestOK
  <2>2. CommandInv'
    BY <1>4 DEF Copy, DigestOK
  <2>3. CacheInv'
    BY Zenon, <1>4 DEF Copy, DigestOK
  <2> QED
    BY ONLY <2>1, <2>2, <2>3 DEF ProjectInv
<1>5. CASE ClearSome
  <2>1. ProjectType'
    BY <1>5 DEF ClearSome
  <2>2. CommandInv'
    BY Zenon, <1>5 DEF ClearSome
  <2>3. CacheInv'
    <3>1. PICK s \in {"none", "mismatch"} :
            cache' = [cache EXCEPT ![cmd.dir].kind = "partial", ![cmd.dir].sum = s]
      BY Zenon, <1>5 DEF ClearSome
    <3>2. cmd.dir \in Dirs /\ cache[cmd.dir].kind # "none"
      BY Zenon, <1>5 DEF ClearSome
    <3>3. \A d \in Dirs : cache'[d].v = cache[d].v /\ (d # cmd.dir => cache'[d] = cache[d])
      BY <3>1
    <3>4. cmd'.pc = "clearing" /\ cmd'.dir = cmd.dir /\ cmd.pc = "clear" /\ UNCHANGED torn
      BY Zenon, <1>5 DEF ClearSome
    <3> QED
      BY <3>2, <3>3, <3>4
  <2> QED
    BY ONLY <2>1, <2>2, <2>3 DEF ProjectInv
<1>6. CASE ClearRest
  BY <1>6 DEF ClearRest, NoDir
<1>7. CASE Promote
  BY <1>7 DEF Promote
<1>8. CASE WriteChecksumFile
  BY <1>8 DEF WriteChecksumFile
<1>9. CASE KillCommand
  BY <1>9 DEF KillCommand
<1>10. CASE Exit
  BY Zenon, <1>10 DEF Exit
<1> QED
  BY ONLY ProjectStep, <1>1, <1>2, <1>3, <1>4, <1>5, <1>6, <1>7, <1>8, <1>9, <1>10 DEF ProjectStep

\* An empty cache satisfies the invariant of the project.
LEMMA ProjectInvInit == Init => ProjectInv
<1> SUFFICES ASSUME Init PROVE ProjectInv
  BY Zenon
<1>1. ProjectType
  BY Zenon DEF Init, ProjectType, NoDir, NoCmd
<1>2. CommandInv
  BY Zenon, StoreAssumption DEF Init, CommandInv, NoCmd
<1>3. CacheInv
  BY Zenon DEF Init, CacheInv, NoDir
<1> QED
  BY Zenon, <1>1, <1>2, <1>3 DEF ProjectInv

\* The invariant of the registry and the project together.
LEMMA StoreInvariant == Spec => [](RegistryInv /\ ProjectInv)
<1>1. RegistryInv /\ ProjectInv /\ [Next]_vars => ProjectInv'
  <2> SUFFICES ASSUME RegistryInv, ProjectInv, [Next]_vars PROVE ProjectInv'
    BY Zenon
  <2>1. ProjectStep \/ UNCHANGED project
    BY DEF Next, ProjectStep, vars, project, Publish, Store, ReadIndex, OpenTmp, WriteTmp,
       MoveTmp, RemoveTmp, KillPublisher, Damage
  <2> QED
    BY Zenon, <2>1, CommandStep, RegistryKeepsProject DEF RegistryInv
<1> QED
  BY <1>1, ProjectInvInit, RegistryInvariant, PTL DEF Spec

\* The variables of the registry and of the cache keep their types.
THEOREM StoreTypes == Spec => []TypeOK
<1>1. RegistryInv /\ ProjectInv => TypeOK
  BY Zenon DEF RegistryInv, ProjectInv, TypeOK
<1> QED
  BY <1>1, StoreInvariant, PTL

\* A fetch that answers success leaves a published version in the cache that
\* a requirement of that cache directory admits.
THEOREM FetchIsAdmitted == Spec => []FetchSatisfies
<1>1. RegistryInv /\ ProjectInv => FetchSatisfies
  BY DEF ProjectInv, ProjectType, CommandInv, CacheInv, Admitted, FetchSatisfies, Dirs
<1> QED
  BY <1>1, StoreInvariant, PTL

\* CachedValid accepts no partial or damaged tree, except inside RemoveAll and
\* where a command was killed there.
THEOREM CacheIsSound == Spec => []CacheSound
<1>1. RegistryInv /\ ProjectInv => CacheSound
  BY Zenon DEF ProjectInv, CacheInv, CacheSound, CachedValid
<1> QED
  BY <1>1, StoreInvariant, PTL
-----------------------------------------------------------------------------
\* What keeps the index while no publisher has read it behind another's back:
\* one publisher at a time is between reading the index and renaming its list
\* over it, its list extends the index, and the temporary file is its own.
SoleWriter ==
  /\ \A p, q \in Publishers : Writing(p) /\ Writing(q) => p = q
  /\ file["index"].kind \in {"none", "list"}
  /\ \A p \in Publishers :
       /\ pub[p].pc # "remove"
       /\ pub[p].pc = "done" => pub[p].v \in file["index"].vs
       /\ Writing(p) => pub[p].v \in pub[p].vs /\ file["index"].vs \subseteq pub[p].vs
       /\ pub[p].pc = "write" => fd[p] = "tmp" /\ file["tmp"].kind = "empty"
       /\ pub[p].pc = "move" => file["tmp"] = List(pub[p].vs)

\* The rewriting of the index keeps the sole writer, unless the index was read
\* while another publisher was writing.
LEMMA SoleWriterStep ==
  ASSUME RegistryType, ~overlap => SoleWriter, ~overlap', [Next]_vars
  PROVE  SoleWriter'
<1> USE DEF GoTo
<1>0. SoleWriter
  BY Zenon DEF Next, ProjectStep, vars, registry, Publish, Store, ReadIndex, OpenTmp, WriteTmp, MoveTmp,
     RemoveTmp, KillPublisher, Damage, Fetch, Clean, Resolve, Copy, ClearSome, ClearRest, Promote,
     WriteChecksumFile, KillCommand, Exit
<1> USE <1>0 DEF RegistryType, SoleWriter, Writing
<1>1. ASSUME NEW p \in Publishers, NEW v \in Versions, Publish(p, v) PROVE SoleWriter'
  <2>1. UNCHANGED <<file, fd>>
    BY Zenon, <1>1 DEF Publish
  <2>0. PICK c \in {"failed", "store"} : pub' = [pub EXCEPT ![p].pc = c, ![p].v = v]
    BY Zenon, <1>1 DEF Publish
  <2>2. pub'[p].pc \in {"failed", "store"} /\ \A q \in Publishers \ {p} : pub'[q] = pub[q]
    BY <2>0
  <2> QED
    BY <2>1, <2>2
<1>2. ASSUME NEW p \in Publishers, Store(p) PROVE SoleWriter'
  <2>1. UNCHANGED <<file, fd>>
    BY Zenon, <1>2 DEF Store
  <2>2. pub'[p].pc \in {"failed", "read"} /\ \A q \in Publishers \ {p} : pub'[q] = pub[q]
    BY <1>2 DEF Store
  <2> QED
    BY <2>1, <2>2
<1>3. ASSUME NEW p \in Publishers, ReadIndex(p) PROVE SoleWriter'
  <2>1. UNCHANGED <<file, fd>>
    BY Zenon, <1>3 DEF ReadIndex
  <2>2. \A q \in Publishers \ {p} : pub'[q] = pub[q]
    BY Zenon, <1>3 DEF ReadIndex
  <2>3. /\ \A q \in Publishers \ {p} : ~Writing(q)
        /\ pub'[p].pc = "open" /\ pub'[p].v = pub[p].v
        /\ pub'[p].vs = file["index"].vs \cup {pub[p].v}
    <3>1. file["index"].kind \notin {"empty", "garbled"}
      BY Zenon
    <3>2. /\ pub' = [pub EXCEPT ![p].pc = "open", ![p].vs = file["index"].vs \cup {pub[p].v}]
          /\ overlap' = (overlap \/ \E q \in Publishers \ {p} : Writing(q))
      BY Zenon, <1>3, <3>1 DEF ReadIndex, Extended
    <3>3. \A q \in Publishers \ {p} : ~Writing(q)
      BY ONLY ~overlap', <3>2
    <3> QED
      BY <3>2, <3>3
  <2> QED
    BY <2>1, <2>2, <2>3
<1>4. ASSUME NEW p \in Publishers, OpenTmp(p) PROVE SoleWriter'
  <2>1. Writing(p) /\ \A q \in Publishers \ {p} : ~Writing(q) /\ pub'[q] = pub[q]
    BY Zenon, <1>4 DEF OpenTmp
  <2>2. pub'[p].pc = "write" /\ pub'[p].v = pub[p].v /\ pub'[p].vs = pub[p].vs /\ fd'[p] = "tmp"
    BY Zenon, <1>4 DEF OpenTmp
  <2>3. file'["index"] = file["index"] /\ file'["tmp"].kind = "empty"
    BY Zenon, <1>4 DEF OpenTmp, EmptyFile
  <2> QED
    BY <2>1, <2>2, <2>3
<1>5. ASSUME NEW p \in Publishers, WriteTmp(p) PROVE SoleWriter'
  <2>1. Writing(p) /\ \A q \in Publishers \ {p} : ~Writing(q) /\ pub'[q] = pub[q]
    BY Zenon, <1>5 DEF WriteTmp
  <2>2. pub'[p].pc = "move" /\ pub'[p].v = pub[p].v /\ pub'[p].vs = pub[p].vs
    BY Zenon, <1>5 DEF WriteTmp
  <2>3. file'["index"] = file["index"] /\ file'["tmp"] = List(pub[p].vs)
    <3>1. fd[p] = "tmp" /\ file["tmp"].kind = "empty"
      BY Zenon, <1>5 DEF WriteTmp
    <3>2. file' = [file EXCEPT !["tmp"] = List(pub[p].vs)]
      BY Zenon, <1>5, <3>1 DEF WriteTmp, Overwritten
    <3> QED
      BY Zenon, <3>2
  <2> QED
    BY <2>1, <2>2, <2>3
<1>6. ASSUME NEW p \in Publishers, MoveTmp(p) PROVE SoleWriter'
  <2>1. Writing(p) /\ \A q \in Publishers \ {p} : ~Writing(q) /\ pub'[q] = pub[q]
    BY Zenon, <1>6 DEF MoveTmp
  <2>2. file["tmp"] = List(pub[p].vs) /\ file["tmp"].kind = "list" /\ file["tmp"].vs = pub[p].vs
    BY <1>6 DEF MoveTmp, List
  <2>3. file'["index"] = file["tmp"]
    BY <1>6, <2>2 DEF MoveTmp
  <2>4. pub'[p].pc = "done" /\ pub'[p].v = pub[p].v
    BY <1>6, <2>2 DEF MoveTmp
  <2> QED
    BY <2>1, <2>2, <2>3, <2>4
<1>7. ASSUME NEW p \in Publishers, RemoveTmp(p) PROVE SoleWriter'
  BY Zenon, <1>7 DEF RemoveTmp
<1>8. ASSUME NEW p \in Publishers, KillPublisher(p) PROVE SoleWriter'
  <2>1. UNCHANGED file
    BY Zenon, <1>8 DEF KillPublisher
  <2>2. pub'[p].pc = "killed" /\ \A q \in Publishers \ {p} : pub'[q] = pub[q] /\ fd'[q] = fd[q]
    BY <1>8 DEF KillPublisher
  <2> QED
    BY <2>1, <2>2
<1>9. CASE UNCHANGED <<file, pub, fd>>
  BY Zenon, <1>9
<1>10. (\E v \in Versions : Damage(v)) \/ UNCHANGED registry => UNCHANGED <<file, pub, fd>>
  BY Zenon DEF Damage, registry
<1> QED
  BY Zenon, <1>1, <1>2, <1>3, <1>4, <1>5, <1>6, <1>7, <1>8, <1>9, <1>10, ProjectKeepsRegistry
     DEF Next, ProjectStep, vars

\* A publish that answered success is in the index, and the index is readable,
\* for any number of publish commands and kills, as long as no command read the
\* index while another was rewriting it (PublishLocal, writeLocalIndex).
THEOREM ListedWithoutOverlap == Spec => []ListedUnlessOverlap
<1> DEFINE Inv == ~overlap => SoleWriter
<1>1. Init => Inv
  BY DEF Init, SoleWriter, Writing, NoFile
<1>2. RegistryInv /\ Inv /\ [Next]_vars => Inv'
  BY Zenon, SoleWriterStep DEF RegistryInv
<1>3. RegistryInv /\ Inv => ListedUnlessOverlap
  BY Zenon DEF SoleWriter, ListedUnlessOverlap, RegistryInv, RegistryType
<1> QED
  BY <1>1, <1>2, <1>3, RegistryInvariant, PTL DEF Spec

-----------------------------------------------------------------------------
(* The incremental build (IncrementalBuild).                               *)

\* A unit is compiled against the modules its file imports, and no file is deleted:
\* where the plan looks at all that an object depends on.
DirectUses == \A m \in Modules : Uses[m] \subseteq Imports[m]
NothingDeleted == Removable = {}

IsConcurrent == \E m \in Present : src[m] \in Concurrent

IBType ==
  /\ src \in Sources
  /\ manifest # Nil =>
       /\ manifest.content \in Sources /\ manifest.key \in Keys
       /\ manifest.rtkey \in {Nil, manifest.key}
       /\ manifest.deps = [m \in Modules |-> DepInterfaces(m, manifest.content)]
  /\ DOMAIN objs = Modules /\ \A m \in Modules : objs[m] \in [ContentsOf[m] -> Objects]
  /\ rtobj \in Keys \cup {Nil, Partial}
  /\ exes \in [Sources -> Executables \cup {Nil, Partial}]
  /\ out \in Executables \cup {Nil, Partial}
  /\ pc \in {"idle", "whole", "runtime", "compile", "store1", "store2", "done"}
  /\ key \in Keys /\ status \in [Modules -> {"compiled", "invalidated", "reused"}]
  /\ rest \in Seq(Modules) /\ needLink \in BOOLEAN /\ past \subseteq {"change", "left"}

\* A manifest has an executable, and a build in progress is none the manifest
\* already stands for.
RecordsInv ==
  /\ manifest # Nil => exes[manifest.content] # Nil
  /\ pc = "store1" => out # Nil
  /\ pc = "store2" => exes[src] # Nil
  /\ NoopReplays

\* The manifest stands for module m of the present sources and compiler.
Current(m) ==
  manifest # Nil /\ manifest.key = key /\ manifest.content[m] = src[m] /\ ~DepsChanged(m)

\* The plan of a split build, and that it ends in a link.
PlanInv ==
  /\ pc \in {"runtime", "compile"} =>
       /\ ~IsConcurrent
       /\ \A m \in Modules : status[m] = "reused" <=> Current(m)
  /\ pc = "whole" => IsConcurrent
  /\ pc = "runtime" => rest = Assembly
  /\ pc = "compile" => needLink \/ \E m \in Range(rest) : status[m] # "reused"
  /\ pc \in {"store1", "store2"} => needLink

\* The object of content c of module m, with the interfaces as they are.
Made(m, c) == [own |-> c, seen |-> [d \in Uses[m] |-> Iface(src, d)], key |-> key]

\* As long as key and interfaces have not changed, whatever builds failed:
\* every object, executable and manifest is one for this key and these
\* interfaces, or unfinished.
SteadyCache ==
  /\ \A m \in Modules : \A c \in ContentsOf[m] : objs[m][c] \in {Nil, Partial, Made(m, c)}
  /\ rtobj \in {Nil, Partial, key}
  /\ \A s \in Sources : exes[s] \in {Nil, Image(s, key)}
  /\ manifest # Nil =>
       /\ manifest.key = key
       /\ \A d \in Modules : Iface(manifest.content, d) = Iface(src, d)
       /\ manifest.rtkey # Nil =>
            /\ rtobj = key
            /\ \A m \in Modules : objs[m][manifest.content[m]] = Made(m, manifest.content[m])

\* And of the build in progress: what it has passed is there, what it has
\* linked is the executable.
SteadyBuild ==
  /\ pc = "compile" =>
       /\ rtobj # Nil
       /\ \A m \in Modules \ Range(rest) : Object(m) # Nil
  /\ pc \in {"store1", "store2"} /\ ~IsConcurrent =>
       rtobj = key /\ \A m \in Modules : Object(m) = Made(m, src[m])
  /\ pc \in {"store1", "store2", "done"} => out = Image(src, key)

SteadyInv == SteadyCache /\ SteadyBuild

\* As long as every build was a split build that ended, whatever changed: the
\* manifest stands for the cache until objects are compiled, and the objects
\* that are reused or compiled are those of the sources.
ManifestHeld ==
  manifest # Nil =>
       /\ exes[manifest.content] = Image(manifest.content, manifest.key)
       /\ manifest.rtkey = manifest.key /\ rtobj = manifest.key
       /\ \A m \in Modules :
            objs[m][manifest.content[m]] = Unit(m, manifest.content, manifest.key)

PassedHeld ==
  /\ rtobj = key
  /\ \A m \in Modules : m \notin Range(rest) \/ status[m] = "reused" => Object(m) = Unit(m, src, key)

AllHeld == ~IsConcurrent /\ rtobj = key /\ \A m \in Modules : Object(m) = Unit(m, src, key)

EndedInv ==
  /\ pc \in {"idle", "done", "whole", "runtime"} => ManifestHeld
  /\ pc = "compile" => PassedHeld
  /\ pc \in {"store1", "store2"} => AllHeld
  /\ pc = "store2" => exes[src] = Image(src, key)
  /\ pc \in {"store1", "store2", "done"} => out = Image(src, key)

BuildInv ==
  /\ IBType /\ RecordsInv /\ PlanInv
  /\ "change" \notin past => SteadyInv
  /\ "left" \notin past => EndedInv

\* The elements of a sequence are its head and those of its tail.
LEMMA TailSet ==
  ASSUME NEW S, NEW s \in Seq(S), s # <<>>
  PROVE  Range(s) = {Head(s)} \cup Range(Tail(s))
<1>1. Len(s) \in Nat \ {0} /\ DOMAIN s = 1..Len(s) /\ Head(s) = s[1]
  BY EmptySeq, LenProperties
<1>2. /\ Tail(s) \in Seq(S) /\ Len(Tail(s)) = Len(s) - 1
      /\ \A i \in 1..Len(Tail(s)) : Tail(s)[i] = s[i + 1]
  BY Zenon, HeadTailProperties
<1>3. DOMAIN Tail(s) = 1..(Len(s) - 1)
  BY Zenon, <1>2, LenProperties
<1>4. ASSUME NEW x \in Range(s) PROVE x \in {Head(s)} \cup Range(Tail(s))
  <2>1. PICK i \in 1..Len(s) : x = s[i]
    BY Zenon, <1>1 DEF Range
  <2>2. CASE i = 1
    BY Zenon, <1>1, <2>1, <2>2
  <2>3. CASE i # 1
    <3>1. i - 1 \in 1..(Len(s) - 1) /\ Tail(s)[i - 1] = s[i]
      BY <1>1, <1>2, <2>1, <2>3
    <3> QED
      BY <1>3, <2>1, <3>1, Zenon DEF Range
  <2> QED
    BY Zenon, <2>2, <2>3
<1>5. ASSUME NEW x \in Range(Tail(s)) PROVE x \in Range(s)
  <2>1. PICK i \in 1..(Len(s) - 1) : x = Tail(s)[i]
    BY Zenon, <1>3 DEF Range
  <2>2. i + 1 \in 1..Len(s) /\ x = s[i + 1]
    BY <1>1, <1>2, <2>1
  <2> QED
    BY Zenon, <1>1, <2>2 DEF Range
<1>6. Head(s) \in Range(s)
  BY <1>1 DEF Range
<1> QED
  BY Zenon, <1>4, <1>5, <1>6

\* A source tree: every module has one of its contents, or has been deleted.
LEMMA SourceFacts ==
  ASSUME NEW s \in Sources, NEW m \in Modules
  PROVE  /\ s \in [Modules -> Contents \cup {Absent}]
         /\ s[m] \in Contents \cup {Absent} /\ IfaceOf[s[m]] \in Interfaces
         /\ s[m] # Absent => s[m] \in ContentsOf[m]
         /\ NothingDeleted => s[m] \in ContentsOf[m] /\ s[m] # Absent
<1>1. s \in [Modules -> Contents \cup {Absent}] /\ s[m] \in Contents \cup {Absent}
  BY Zenon DEF Sources
<1>2. s[m] \in ContentsOf[m] \/ (m \in Removable /\ s[m] = Absent)
  BY Zenon DEF Sources
<1>3. ContentsOf[m] \subseteq Contents
  BY Zenon DEF Contents
<1>4. NothingDeleted => s[m] \in ContentsOf[m] /\ s[m] # Absent
  BY Zenon, <1>2, <1>3, BuildAssumption DEF NothingDeleted
<1>5. IfaceOf[s[m]] \in Interfaces
  BY Zenon, <1>1 DEF Interfaces
<1> QED
  BY Zenon, <1>1, <1>2, <1>4, <1>5

\* What the C compiler makes is an object, and what is linked an executable.
LEMMA ImageTypes ==
  ASSUME NEW s \in Sources, NEW k \in Keys
  PROVE  /\ \A m \in Modules : Unit(m, s, k) \in Units /\ Unit(m, s, k) # Nil
         /\ Image(s, k) \in Executables /\ Image(s, k) # Nil
<1>1. ASSUME NEW m \in Modules PROVE Unit(m, s, k) \in Units
  <2>1. Uses[m] \subseteq Modules
    BY Zenon, BuildAssumption
  <2>2. [d \in Uses[m] |-> Iface(s, d)] \in [Uses[m] -> Interfaces]
    BY Zenon, <2>1, SourceFacts DEF Iface
  <2>3. s[m] \in Contents \cup {Absent}
    BY Zenon, SourceFacts
  <2> QED
    BY Zenon, <2>2, <2>3 DEF Unit, Units
<1>2. Image(s, k) \in Executables
  <2> DEFINE S == {n \in Modules : s[n] # Absent}
             u == [m \in S |-> Unit(m, s, k)]
  <2>1. u \in [S -> Objects] /\ S \in SUBSET Modules
    BY Zenon, <1>1 DEF Objects
  <2>2. u \in UNION {[T -> Objects] : T \in SUBSET Modules}
    BY Zenon, <2>1
  <2>3. Image(s, k) = [rt |-> k, unit |-> u]
    BY Zenon DEF Image
  <2> HIDE DEF u
  <2> QED
    BY <2>2, <2>3 DEF Executables
<1> QED
  BY Zenon, <1>1, <1>2, NilAssumption

\* What buildSplitFlow links is an executable.
LEMMA LinkedType ==
  ASSUME IBType PROVE Linked \in Executables /\ Linked # Nil
<1>1. Present \in SUBSET Modules
  BY Zenon DEF Present
<1>2. ASSUME NEW m \in Present PROVE Object(m) \in Objects
  BY Zenon, <1>1, <1>2, SourceFacts DEF IBType, Object, ObjectName, Present
<1> DEFINE u == [m \in Present |-> Object(m)]
<1>3. u \in [Present -> Objects]
  BY Zenon, <1>2
<1>4. u \in UNION {[T -> Objects] : T \in SUBSET Modules}
  BY Zenon, <1>1, <1>3
<1>5. Linked = [rt |-> rtobj, unit |-> u]
  BY Zenon DEF Linked
<1> HIDE DEF u
<1>6. Linked \in Executables
  BY Zenon, <1>4, <1>5 DEF IBType, Executables
<1> QED
  BY Zenon, <1>6, NilAssumption

\* Compiling or spoiling the object of a module changes that object only.
LEMMA ObjsExcept ==
  ASSUME IBType, NEW m \in Present, NEW o \in Objects,
         objs' = [objs EXCEPT ![m][ObjectName(m)] = o]
  PROVE  /\ DOMAIN objs' = Modules
         /\ \A n \in Modules : objs'[n] \in [ContentsOf[n] -> Objects]
         /\ objs'[m][src[m]] = o
         /\ \A n \in Modules : \A c \in ContentsOf[n] :
              n # m \/ c # src[m] => objs'[n][c] = objs[n][c]
<1>1. m \in Modules /\ src[m] \in ContentsOf[m]
  BY Zenon, SourceFacts DEF IBType, Present
<1>2. DOMAIN objs = Modules /\ \A n \in Modules : objs[n] \in [ContentsOf[n] -> Objects]
  BY Zenon DEF IBType
<1>3. objs' = [objs EXCEPT ![m] = [objs[m] EXCEPT ![src[m]] = o]]
  BY Zenon, <1>1, <1>2 DEF ObjectName
<1>4. [objs[m] EXCEPT ![src[m]] = o] \in [ContentsOf[m] -> Objects]
  BY Zenon, <1>1, <1>2
<1>5. objs'[m] = [objs[m] EXCEPT ![src[m]] = o] /\ \A n \in Modules : n # m => objs'[n] = objs[n]
  BY <1>1, <1>2, <1>3, Zenon
<1>6. DOMAIN objs' = Modules
  BY Zenon, <1>2, <1>3
<1>7. \A n \in Modules : objs'[n] \in [ContentsOf[n] -> Objects]
  BY Zenon, <1>2, <1>4, <1>5
<1>8. objs'[m][src[m]] = o /\ \A c \in ContentsOf[m] : c # src[m] => objs'[m][c] = objs[m][c]
  BY Zenon, <1>1, <1>2, <1>5
<1> QED
  BY <1>5, <1>6, <1>7, <1>8

-----------------------------------------------------------------------------
\* An empty cache has the right types.
LEMMA TypeInit == IBInit => IBType /\ RecordsInv
<1> SUFFICES ASSUME IBInit PROVE IBType /\ RecordsInv
  BY Zenon
<1>1. /\ src \in Sources /\ manifest = Nil /\ rtobj = Nil /\ out = Nil /\ pc = "idle" /\ key \in Keys
      /\ rest = <<>> /\ needLink = FALSE /\ past = {}
      /\ status \in [Modules -> {"compiled", "invalidated", "reused"}]
  BY Zenon DEF IBInit
<1>2. DOMAIN objs = Modules /\ \A m \in Modules : objs[m] \in [ContentsOf[m] -> Objects]
  BY Zenon DEF IBInit, Objects
<1>3. exes \in [Sources -> Executables \cup {Nil, Partial}]
  BY Zenon DEF IBInit
<1>4. IBType
  <2>1. rest \in Seq(Modules) /\ needLink \in BOOLEAN /\ past \subseteq {"change", "left"}
    BY <1>1, EmptySeq, Zenon
  <2> QED
    BY Zenon, <1>1, <1>2, <1>3, <2>1 DEF IBType
<1>5. RecordsInv
  BY Zenon, <1>1 DEF RecordsInv, NoopReplays
<1> QED
  BY Zenon, <1>4, <1>5

\* Every step of a build, and every edit, keeps the types.
LEMMA TypeStep == IBType /\ [IBNext]_ibVars => IBType'
<1> SUFFICES ASSUME IBType, [IBNext]_ibVars PROVE IBType'
  BY Zenon
<1> DEFINE ManifestType ==
      manifest # Nil =>
       /\ manifest.content \in Sources /\ manifest.key \in Keys
       /\ manifest.rtkey \in {Nil, manifest.key}
       /\ manifest.deps = [m \in Modules |-> DepInterfaces(m, manifest.content)]
<1>0. UNCHANGED manifest => ManifestType'
  BY DEF IBType, DepInterfaces, Iface
<1>1. ASSUME NEW m \in Modules, Edit(m) PROVE IBType'
  <2>1. PICK c \in ContentsOf[m] \cup (IF m \in Removable THEN {Absent} ELSE {}) :
          src' = [src EXCEPT ![m] = c]
    BY Zenon, <1>1 DEF Edit
  <2>2. src' \in Sources
    <3>1. src \in [Modules -> Contents \cup {Absent}] /\ c \in Contents \cup {Absent}
      BY SourceFacts DEF IBType, Contents
    <3>2. src' \in [Modules -> Contents \cup {Absent}]
      BY Zenon, <2>1, <3>1
    <3>3. \A n \in Modules : src[n] \in ContentsOf[n] \cup (IF n \in Removable THEN {Absent} ELSE {})
      BY Zenon DEF IBType, Sources
    <3>4. \A n \in Modules : src'[n] = IF n = m THEN c ELSE src[n]
      BY Zenon, <2>1, <3>1
    <3> QED
      BY Zenon, <3>2, <3>3, <3>4 DEF Sources
  <2>3. past' \subseteq {"change", "left"}
    BY <1>1, Zenon DEF Edit, Remember, IBType
  <2>4. UNCHANGED <<manifest, objs, rtobj, exes, out, pc, key, status, rest, needLink>>
    BY Zenon, <1>1 DEF Edit, cacheVars, buildVars
  <2> QED
    BY Zenon, <1>0, <2>2, <2>3, <2>4 DEF IBType
<1>2. ASSUME NEW k \in Keys, Begin(k) PROVE IBType'
  <2>1. out' \in Executables \cup {Nil, Partial} /\ pc' \in {"done", "whole", "runtime"}
    <3>1. out' \in {out, exes[src]} /\ pc' \in {"done", "whole", "runtime"}
      BY Zenon, <1>2 DEF Begin
    <3> QED
      BY <3>1 DEF IBType
  <2>2. key' \in Keys /\ rest' = Assembly /\ needLink' = FALSE
    BY Zenon, <1>2 DEF Begin
  <2>3. status' \in [Modules -> {"compiled", "invalidated", "reused"}]
    <3>1. \A m \in Modules : StatusOf(m, k) \in {"compiled", "invalidated", "reused"}
      BY Zenon DEF StatusOf
    <3> QED
      BY Zenon, <1>2, <3>1 DEF Begin
  <2>4. past' \subseteq {"change", "left"}
    BY Zenon, <1>2 DEF Begin, Remember, IBType
  <2>5. UNCHANGED <<src, manifest, objs, rtobj, exes>>
    BY Zenon, <1>2 DEF Begin, cacheVars
  <2> QED
    BY Zenon, <1>0, <2>1, <2>2, <2>3, <2>4, <2>5, BuildAssumption DEF IBType
<1>3. CASE Whole
  <2>1. UNCHANGED <<src, manifest, objs, rtobj, exes, key, status, rest>>
    BY Zenon, <1>3 DEF Whole, cacheVars
  <2>2. out' \in Executables
    BY Zenon, <1>3, ImageTypes DEF Whole, IBType
  <2>3. pc' = "store1" /\ needLink' = TRUE /\ past' = past \cup {"left"}
    BY Zenon, <1>3 DEF Whole, Remember
  <2> QED
    BY Zenon, <1>0, <2>1, <2>2, <2>3 DEF IBType
<1>4. CASE Runtime
  <2>1. UNCHANGED <<src, manifest, objs, exes, out, key, rest, past>> /\ pc' = "compile"
    BY Zenon, <1>4 DEF Runtime
  <2>2. status' \in [Modules -> {"compiled", "invalidated", "reused"}]
    BY Zenon, <1>4 DEF Runtime, IBType
  <2>3. rtobj' \in Keys \cup {Nil, Partial}
    BY Zenon, <1>4 DEF Runtime, IBType
  <2>4. needLink' \in BOOLEAN
    BY Zenon, <1>4 DEF Runtime, NeedRuntime
  <2> QED
    BY Zenon, <1>0, <2>1, <2>2, <2>3, <2>4 DEF IBType
<1>5. CASE CompileModule
  <2> DEFINE m == Head(rest)
  <2>1. UNCHANGED <<src, manifest, rtobj, exes, out, pc, key, status, past>>
    BY Zenon, <1>5 DEF CompileModule
  <2>2. rest # <<>> /\ rest' = Tail(rest) /\ rest \in Seq(Modules)
    BY Zenon, <1>5 DEF CompileModule, IBType
  <2>3. rest' \in Seq(Modules) /\ m \in Modules
    BY <2>2
  <2>4. needLink' \in BOOLEAN
    BY Zenon, <1>5 DEF CompileModule, IBType
  <2>5. DOMAIN objs' = Modules /\ \A n \in Modules : objs'[n] \in [ContentsOf[n] -> Objects]
    <3>1. CASE MustCompile(m)
      <4>1. m \in Present /\ objs' = [objs EXCEPT ![m][ObjectName(m)] = Unit(m, src, key)]
        BY Zenon, <1>5, <3>1 DEF CompileModule, MustCompile
      <4>2. Unit(m, src, key) \in Objects
        BY Zenon, <2>3, ImageTypes DEF IBType, Objects
      <4> QED
        BY <4>1, <4>2, ObjsExcept, Zenon
    <3>2. CASE ~MustCompile(m)
      BY Zenon, <1>5, <3>2 DEF CompileModule, IBType
    <3> QED
      BY Zenon, <3>1, <3>2
  <2> QED
    BY Zenon, <1>0, <2>1, <2>3, <2>4, <2>5 DEF IBType
<1>6. CASE Link
  <2>1. UNCHANGED <<src, manifest, objs, rtobj, exes, key, status, rest, needLink>>
    BY Zenon, <1>6 DEF Link, cacheVars
  <2>2. out' \in {out, Linked} /\ pc' \in {"idle", "store1"}
    BY Zenon, <1>6 DEF Link
  <2>3. past' \subseteq {"change", "left"}
    BY Zenon, <1>6 DEF Link, Remember, IBType
  <2>4. out' \in Executables \cup {Nil, Partial}
    BY Zenon, <2>2, LinkedType DEF IBType
  <2> QED
    BY Zenon, <1>0, <2>1, <2>2, <2>3, <2>4 DEF IBType
<1>7. ASSUME NEW i \in 1..2, StoreArtifacts(i) PROVE IBType'
  <2>1. UNCHANGED <<src, objs, rtobj, out, key, status, rest, needLink, past>>
    BY Zenon, <1>7 DEF StoreArtifacts
  <2>2. pc' \in {"store2", "done"}
    BY <1>7 DEF StoreArtifacts
  <2>3. StoreExe \/ StoreManifest
    BY Zenon, <1>7 DEF StoreArtifacts
  <2>4. ManifestType'
    <3>1. CASE StoreExe
      BY Zenon, <1>0, <3>1 DEF StoreExe
    <3>2. CASE StoreManifest
      <4>1. PICK r \in {Nil, key} :
              manifest' = [content |-> src, deps |-> Snapshot, key |-> key, rtkey |-> r]
        BY Zenon, <3>2 DEF StoreManifest
      <4>2. Snapshot = [m \in Modules |-> DepInterfaces(m, src)]
        BY Zenon DEF Snapshot
      <4>3. /\ manifest'.content = src /\ manifest'.key = key /\ manifest'.rtkey \in {Nil, key}
            /\ manifest'.deps = [m \in Modules |-> DepInterfaces(m, src)]
        BY Zenon, <4>1, <4>2
      <4>4. src \in Sources /\ key \in Keys
        BY Zenon DEF IBType
      <4> QED
        BY Zenon, <4>3, <4>4 DEF DepInterfaces, Iface
    <3> QED
      BY Zenon, <2>3, <3>1, <3>2
  <2>5. exes' \in [Sources -> Executables \cup {Nil, Partial}]
    BY Zenon, <2>3 DEF StoreExe, StoreManifest, IBType
  <2> QED
    BY Zenon, <2>1, <2>2, <2>4, <2>5 DEF IBType
<1>8. CASE Return
  BY Zenon, <1>0, <1>8 DEF Return, cacheVars, IBType
<1>9. CASE Fail
  <2>1. UNCHANGED <<src, manifest, exes, key, status, rest, needLink>> /\ pc' = "idle"
    BY Zenon, <1>9 DEF Fail
  <2>2. past' \subseteq {"change", "left"}
    BY Zenon, <1>9 DEF Fail, Remember, IBType
  <2>3. rtobj' \in Keys \cup {Nil, Partial} /\ out' \in Executables \cup {Nil, Partial}
    BY Zenon, <1>9 DEF Fail, IBType
  <2>4. DOMAIN objs' = Modules /\ \A n \in Modules : objs'[n] \in [ContentsOf[n] -> Objects]
    <3>1. CASE UNCHANGED objs
      BY Zenon, <3>1 DEF IBType
    <3>2. CASE ~UNCHANGED objs
      <4>1. PICK o \in {Nil, Partial} : /\ MustCompile(Head(rest))
                                        /\ objs' = [objs EXCEPT ![Head(rest)][ObjectName(Head(rest))] = o]
        BY Zenon, <1>9, <3>2 DEF Fail
      <4>2. Head(rest) \in Present /\ o \in Objects
        BY Zenon, <4>1 DEF MustCompile, Objects
      <4> QED
        BY Zenon, <4>1, <4>2, ObjsExcept
    <3> QED
      BY Zenon, <3>1, <3>2
  <2> QED
    BY Zenon, <1>0, <2>1, <2>2, <2>3, <2>4 DEF IBType
<1>10. CASE UNCHANGED ibVars
  BY Zenon, <1>0, <1>10 DEF ibVars, cacheVars, buildVars, IBType
<1> QED
  BY Zenon, <1>1, <1>2, <1>3, <1>4, <1>5, <1>6, <1>7, <1>8, <1>9, <1>10 DEF IBNext

\* The plan reuses a module exactly when the manifest stands for it.
LEMMA StatusFacts ==
  ASSUME IBType, NEW m \in Present, NEW k
  PROVE  StatusOf(m, k) = "reused" <=>
           /\ manifest # Nil /\ manifest.key = k
           /\ manifest.content[m] = src[m] /\ ~DepsChanged(m)
<1>1. m \in Modules /\ src[m] # Absent
  BY Zenon DEF Present
<1>2. CASE manifest = Nil
  BY Zenon, <1>2 DEF StatusOf
<1>3. CASE manifest # Nil /\ manifest.content[m] = Absent
  BY Zenon, <1>1, <1>3 DEF StatusOf
<1>4. CASE manifest # Nil /\ manifest.content[m] # Absent /\ manifest.key # k
  BY Zenon, <1>4 DEF StatusOf
<1>5. CASE manifest # Nil /\ manifest.content[m] # Absent /\ manifest.key = k
  <2>1. StatusOf(m, k) = IF manifest.content[m] # src[m] THEN "compiled"
                         ELSE IF DepsChanged(m) THEN "invalidated" ELSE "reused"
    BY Zenon, <1>5 DEF StatusOf
  <2> QED
    BY Zenon, <1>5, <2>1
<1> QED
  BY Zenon, <1>2, <1>3, <1>4, <1>5

\* A build that is not replayed is one the manifest does not stand for.
LEMMA BeginRebuilds ==
  ASSUME IBType, RecordsInv, NEW k \in Keys, Rebuild(k) \/ exes[src] = Nil,
         manifest # Nil
  PROVE  manifest.content # src \/ manifest.key # k
<1> SUFFICES ASSUME manifest.content = src, manifest.key = k PROVE FALSE
  BY Zenon
<1>1. exes[src] # Nil
  BY Zenon DEF RecordsInv
<1>2. PICK m \in Present : StatusOf(m, k) # "reused"
  BY Zenon, <1>1 DEF Rebuild
<1>3. m \in Modules
  BY Zenon DEF Present
<1>4. manifest.deps[m] = DepInterfaces(m, src)
  BY Zenon, <1>3 DEF IBType
<1> QED
  BY Zenon, <1>2, <1>4, StatusFacts DEF DepsChanged

\* A manifest keeps an executable, and a build that compiles has something to compile.
LEMMA RecordsStep == IBType /\ RecordsInv /\ [IBNext]_ibVars => RecordsInv'
<1> SUFFICES ASSUME IBType, RecordsInv, [IBNext]_ibVars PROVE RecordsInv'
  BY Zenon
<1> USE DEF RecordsInv, NoopReplays
<1>1. ASSUME NEW m \in Modules, Edit(m) PROVE RecordsInv'
  BY Zenon, <1>1 DEF Edit, cacheVars, buildVars
<1>2. ASSUME NEW k \in Keys, Begin(k) PROVE RecordsInv'
  <2>1. UNCHANGED <<src, manifest, exes>> /\ key' = k /\ pc' \in {"done", "whole", "runtime"}
    BY Zenon, <1>2 DEF Begin, cacheVars
  <2>2. pc' # "done" => Rebuild(k) \/ exes[src] = Nil
    BY Zenon, <1>2 DEF Begin
  <2> QED
    BY Zenon, <2>1, <2>2, BeginRebuilds
<1>3. CASE Whole
  <2>1. UNCHANGED <<src, manifest, exes, key>> /\ pc' = "store1" /\ pc = "whole"
    BY Zenon, <1>3 DEF Whole, cacheVars
  <2>2. out' # Nil
    BY Zenon, <1>3, ImageTypes DEF Whole, IBType
  <2> QED
    BY Zenon, <2>1, <2>2
<1>4. CASE Runtime
  BY Zenon, <1>4 DEF Runtime
<1>5. CASE CompileModule
  BY Zenon, <1>5 DEF CompileModule
<1>6. CASE Link
  <2>1. UNCHANGED <<src, manifest, exes, key>> /\ pc' \in {"idle", "store1"} /\ pc = "compile"
    BY Zenon, <1>6 DEF Link, cacheVars
  <2>2. pc' = "store1" => out' # Nil
    BY Zenon, <1>6, LinkedType DEF Link, MustLink
  <2> QED
    BY Zenon, <2>1, <2>2
<1>7. ASSUME NEW i \in 1..2, StoreArtifacts(i) PROVE RecordsInv'
  <2>1. UNCHANGED <<src, key>>
    BY Zenon, <1>7 DEF StoreArtifacts
  <2>2. CASE i = 1
    <3>1. pc = "store1" /\ pc' = "store2" /\ StoreExe
      BY Zenon, <1>7, <2>2 DEF StoreArtifacts, StoreOrder
    <3>2. exes'[src] # Nil /\ \A s \in Sources : exes'[s] = exes[s] \/ exes'[s] = out
      BY Zenon, <3>1 DEF StoreExe, Fresh, IBType
    <3>3. UNCHANGED manifest
      BY Zenon, <3>1 DEF StoreExe
    <3>4. manifest # Nil => manifest.content \in Sources
      BY Zenon DEF IBType
    <3> QED
      BY Zenon, <2>1, <3>1, <3>2, <3>3, <3>4
  <2>3. CASE i = 2
    <3>1. pc = "store2" /\ pc' = "done" /\ StoreManifest
      BY Zenon, <1>7, <2>3 DEF StoreArtifacts, StoreOrder
    <3>2. manifest'.content = src /\ UNCHANGED exes
      BY Zenon, <3>1 DEF StoreManifest
    <3> QED
      BY Zenon, <2>1, <3>1, <3>2
  <2> QED
    BY <2>2, <2>3
<1>8. CASE Return
  BY Zenon, <1>8 DEF Return, cacheVars
<1>9. CASE Fail
  BY Zenon, <1>9 DEF Fail
<1>10. CASE UNCHANGED ibVars
  BY Zenon, <1>10 DEF ibVars, cacheVars, buildVars
<1> QED
  BY Zenon, <1>1, <1>2, <1>3, <1>4, <1>5, <1>6, <1>7, <1>8, <1>9, <1>10 DEF IBNext

\* The types and the records of every build.
LEMMA RecordsInvariant == IBSpec => [](IBType /\ RecordsInv)
BY TypeInit, TypeStep, RecordsStep, PTL DEF IBSpec

\* A build of sources and compiler that the manifest stands for compiles and
\* links nothing (BuildCommandIncremental's no-op path), whatever failed or
\* changed before.
THEOREM NoopIsReplayed == IBSpec => []NoopReplays
<1>1. IBType /\ RecordsInv => NoopReplays
  BY Zenon DEF RecordsInv
<1> QED
  BY <1>1, RecordsInvariant, PTL

-----------------------------------------------------------------------------
\* Without deletions every module is there.
LEMMA AllPresent ==
  ASSUME NothingDeleted, IBType
  PROVE  /\ Present = Modules
         /\ \A m \in Modules : src[m] \in ContentsOf[m]
         /\ \A m \in Modules : manifest # Nil => manifest.content[m] \in ContentsOf[m]
BY Zenon, SourceFacts DEF IBType, Present

\* PlanBuild and the loop of buildSplitFlow: a module is reused exactly when the manifest
\* stands for it, and a build that is not replayed links.
LEMMA PlanStep ==
  ASSUME NothingDeleted, IBType, RecordsInv, PlanInv, [IBNext]_ibVars
  PROVE  PlanInv'
<1>0. Present = Modules
  BY Zenon, AllPresent
<1> USE DEF PlanInv
<1>1. ASSUME NEW m \in Modules, Edit(m) PROVE PlanInv'
  BY Zenon, <1>1 DEF Edit, buildVars
<1>2. ASSUME NEW k \in Keys, Begin(k) PROVE PlanInv'
  <2>1. UNCHANGED <<src, manifest>> /\ key' = k /\ pc' \in {"done", "whole", "runtime"} /\ rest' = Assembly
    BY <1>2, Zenon DEF Begin, cacheVars
  <2>2. (pc' = "runtime" => ~IsConcurrent) /\ (pc' = "whole" => IsConcurrent)
    BY Zenon, <1>2 DEF Begin, IsConcurrent
  <2>3. \A m \in Modules : status'[m] = StatusOf(m, k)
    BY Zenon, <1>0, <1>2 DEF Begin
  <2>4. \A m \in Modules : status'[m] = "reused" <=> Current(m)'
    <3> SUFFICES ASSUME NEW m \in Modules PROVE status'[m] = "reused" <=> Current(m)'
      BY Zenon
    <3>1. DepsChanged(m)' = DepsChanged(m)
      BY Zenon, <2>1 DEF DepsChanged, DepInterfaces, Iface
    <3>2. Current(m)' <=> manifest # Nil /\ manifest.key = k /\ manifest.content[m] = src[m] /\ ~DepsChanged(m)
      BY Zenon, <2>1, <3>1 DEF Current
    <3> QED
      BY Zenon, <1>0, <2>3, <3>2, StatusFacts
  <2>5. IsConcurrent' <=> IsConcurrent
    BY Zenon, <2>1 DEF IsConcurrent, Present
  <2> QED
    BY Zenon, <2>1, <2>2, <2>4, <2>5
<1>3. CASE Whole
  BY Zenon, <1>3 DEF Whole
<1>4. CASE Runtime
  <2>1. UNCHANGED <<src, manifest, key, rest>> /\ pc' = "compile" /\ pc = "runtime"
    BY Zenon, <1>4 DEF Runtime
  <2>2. \A m \in Modules : Current(m)' <=> Current(m)
    BY Zenon, <2>1 DEF Current, DepsChanged, DepInterfaces, Iface
  <2>3. ASSUME NEW m \in Modules PROVE status'[m] = "reused" <=> Current(m)
    <3>1. CASE RecordedKey \notin {Nil, key}
      <4>1. ~Current(m)
        BY Zenon, <3>1 DEF RecordedKey, Current, IBType
      <4> QED
        BY Zenon, <1>4, <2>1, <3>1, <4>1 DEF Runtime
    <3>2. CASE RecordedKey \in {Nil, key}
      BY Zenon, <1>4, <2>1, <3>2 DEF Runtime
    <3> QED
      BY Zenon, <3>1, <3>2
  <2>4. \E m \in Range(rest') : status'[m] # "reused"
    <3>1. \E m \in Modules : ~Current(m)
      <4>1. CASE manifest = Nil \/ manifest.key # key
        <5>1. Len(Assembly) \in Nat \ {0} /\ DOMAIN Assembly = 1..Len(Assembly)
          BY Zenon, BuildAssumption, EmptySeq, LenProperties
        <5>2. Assembly[1] \in Modules
          BY <5>1 DEF Modules, Range
        <5> QED
          BY Zenon, <4>1, <5>2 DEF Current
      <4>2. CASE manifest # Nil /\ manifest.content # src
        <5>1. manifest.content \in [Modules -> Contents \cup {Absent}]
          BY Zenon, <4>2 DEF IBType, Sources
        <5>2. src \in [Modules -> Contents \cup {Absent}]
          BY Zenon DEF IBType, Sources
        <5>3. \E m \in Modules : manifest.content[m] # src[m]
          BY <4>2, <5>1, <5>2
        <5> QED
          BY Zenon, <5>3 DEF Current
      <4> QED
        BY Zenon, <2>1, <4>1, <4>2 DEF RecordsInv, NoopReplays
    <3>2. Range(rest') = Modules
      BY Zenon, <2>1 DEF Modules
    <3> QED
      BY Zenon, <2>3, <3>1, <3>2
  <2>5. IsConcurrent' <=> IsConcurrent
    BY Zenon, <2>1 DEF IsConcurrent, Present
  <2> QED
    BY Zenon, <2>1, <2>2, <2>3, <2>4, <2>5
<1>5. CASE CompileModule
  <2>1. UNCHANGED <<src, manifest, key, status, pc>> /\ pc = "compile" /\ rest # <<>> /\ rest' = Tail(rest)
    BY Zenon, <1>5 DEF CompileModule
  <2>2. \A m \in Modules : Current(m)' <=> Current(m)
    BY Zenon, <2>1 DEF Current, DepsChanged, DepInterfaces, Iface
  <2>3. IsConcurrent' <=> IsConcurrent
    BY Zenon, <2>1 DEF IsConcurrent, Present
  <2>4. ASSUME ~needLink' PROVE \E m \in Range(rest') : status[m] # "reused"
    <3>1. ~needLink /\ ~MustCompile(Head(rest))
      BY Zenon, <1>5, <2>4 DEF CompileModule, IBType
    <3>2. rest \in Seq(Modules) /\ Head(rest) \in Modules
      BY <2>1 DEF IBType
    <3>3. status[Head(rest)] = "reused"
      BY Zenon, <1>0, <3>1, <3>2 DEF MustCompile, Reuse
    <3>4. PICK m \in Range(rest) : status[m] # "reused"
      BY Zenon, <2>1, <3>1
    <3>5. m \in Range(Tail(rest))
      BY Zenon, <2>1, <3>2, <3>3, <3>4, TailSet
    <3> QED
      BY Zenon, <2>1, <3>4, <3>5
  <2> QED
    BY Zenon, <2>1, <2>2, <2>3, <2>4
<1>6. CASE Link
  <2>1. pc = "compile" /\ rest = <<>> /\ UNCHANGED needLink /\ pc' \in {"idle", "store1"}
    BY Zenon, <1>6 DEF Link
  <2>2. needLink
    BY <2>1 DEF Range
  <2> QED
    BY Zenon, <2>1, <2>2
<1>7. ASSUME NEW i \in 1..2, StoreArtifacts(i) PROVE PlanInv'
  <2>1. pc \in {"store1", "store2"} /\ pc' \in {"store2", "done"} /\ UNCHANGED needLink
    BY <1>7 DEF StoreArtifacts
  <2> QED
    BY Zenon, <2>1
<1>8. CASE Return
  BY Zenon, <1>8 DEF Return
<1>9. CASE Fail
  BY Zenon, <1>9 DEF Fail
<1>10. CASE UNCHANGED ibVars
  BY Zenon, <1>10 DEF ibVars, cacheVars, buildVars, IsConcurrent, Present, Current, DepsChanged, DepInterfaces, Iface
<1> QED
  BY Zenon, <1>1, <1>2, <1>3, <1>4, <1>5, <1>6, <1>7, <1>8, <1>9, <1>10 DEF IBNext

-----------------------------------------------------------------------------
\* Linking current objects with a current runtime makes the image of the sources.
LEMMA LinkedImage ==
  ASSUME rtobj = key, \A m \in Present : Object(m) = Unit(m, src, key)
  PROVE  Linked = Image(src, key)
<1>1. Present = {n \in Modules : src[n] # Absent}
  BY Zenon DEF Present
<1>2. [m \in Present |-> Object(m)] = [m \in Present |-> Unit(m, src, key)]
  BY Zenon
<1> QED
  BY Zenon, <1>1, <1>2 DEF Linked, Image

\* Objects depend on key and interfaces only.
LEMMA MadeSame ==
  ASSUME key' = key, \A d \in Modules : Iface(src, d)' = Iface(src, d), NEW m \in Modules, NEW c
  PROVE  Made(m, c)' = Made(m, c)
<1>1. Uses[m] \subseteq Modules
  BY Zenon, BuildAssumption
<1>2. [d \in Uses[m] |-> Iface(src, d)]' = [d \in Uses[m] |-> Iface(src, d)]
  BY Zenon, <1>1
<1> QED
  BY Zenon, <1>2 DEF Made

\* An object that the manifest stands for is reused, and so never compiled or
\* spoilt, while key and interfaces stay what they were.
LEMMA SteadyReuse ==
  ASSUME NothingDeleted, IBType, PlanInv, SteadyInv, pc = "compile",
         manifest # Nil, manifest.rtkey # Nil,
         NEW m \in Modules, manifest.content[m] = src[m]
  PROVE  ~MustCompile(m)
<1>1. manifest.deps[m] = DepInterfaces(m, manifest.content)
  BY Zenon DEF IBType
<1>2. Imports[m] \subseteq Modules
  BY Zenon, BuildAssumption
<1>3. DepInterfaces(m, manifest.content) = DepInterfaces(m, src)
  BY Zenon, <1>2 DEF DepInterfaces, SteadyInv, SteadyCache
<1>4. Current(m)
  BY Zenon, <1>1, <1>3 DEF Current, DepsChanged, SteadyInv, SteadyCache
<1>5. status[m] = "reused"
  BY Zenon, <1>4 DEF PlanInv
<1>6. Object(m) = Unit(m, src, key)
  BY Zenon DEF SteadyInv, SteadyCache, Object, ObjectName, Made, Unit
<1>7. Object(m) # Nil
  BY <1>6, ImageTypes DEF IBType
<1> QED
  BY Zenon, <1>5, <1>7 DEF MustCompile, Reuse

\* No runtime object is made that the manifest stands for.
LEMMA SteadyRuntime ==
  ASSUME IBType, SteadyInv, manifest # Nil, manifest.rtkey # Nil
  PROVE  ~NeedRuntime
BY Zenon, NilAssumption DEF IBType, SteadyInv, SteadyCache, NeedRuntime, RecordedKey

\* What is to be shown of a step that leaves the manifest alone.
LEMMA SteadyCacheKept ==
  ASSUME NothingDeleted, IBType, key' = key, UNCHANGED manifest,
         \A d \in Modules : Iface(src, d)' = Iface(src, d),
         \A n \in Modules : \A c \in ContentsOf[n] : objs'[n][c] \in {Nil, Partial, Made(n, c)},
         rtobj' \in {Nil, Partial, key},
         \A s \in Sources : exes'[s] \in {Nil, Image(s, key)},
         manifest # Nil =>
           /\ manifest.key = key
           /\ \A d \in Modules : Iface(manifest.content, d) = Iface(src, d)
           /\ manifest.rtkey # Nil =>
                /\ rtobj' = key
                /\ \A m \in Modules : objs'[m][manifest.content[m]] = Made(m, manifest.content[m])
  PROVE  SteadyCache'
<1>1. \A n \in Modules, c \in Contents : Made(n, c)' = Made(n, c)
  BY Zenon, MadeSame
<1>2. \A m \in Modules : ContentsOf[m] \subseteq Contents
  BY Zenon DEF Contents
<1>3. manifest # Nil => \A m \in Modules : manifest.content[m] \in Contents
  BY Zenon, <1>2, AllPresent
<1>4. \A n \in Modules : \A c \in ContentsOf[n] : objs'[n][c] \in {Nil, Partial, Made(n, c)'}
  BY Zenon, <1>1, <1>2
<1>5. \A s \in Sources : Image(s, key)' = Image(s, key)
  BY Zenon DEF Image, Unit, Iface
<1>6. manifest # Nil =>
        \A m \in Modules : Made(m, manifest.content[m])' = Made(m, manifest.content[m])
  BY Zenon, <1>1, <1>3, MadeSame
<1>7. \A d \in Modules : Iface(manifest.content, d)' = Iface(manifest.content, d)
  BY Zenon DEF Iface
<1> QED
  BY Zenon, <1>4, <1>5, <1>6, <1>7 DEF SteadyCache

\* While key and interfaces do not change, no step - not even a kill - makes
\* the cache hold anything but objects and executables for them.
LEMMA SteadyStep ==
  ASSUME NothingDeleted, IBType, RecordsInv, PlanInv, SteadyInv, [IBNext]_ibVars,
         "change" \notin past'
  PROVE  SteadyInv'
<1>0. Present = Modules /\ \A m \in Modules : src[m] \in ContentsOf[m]
  BY Zenon, AllPresent
<1>c. manifest # Nil => \A m \in Modules : manifest.content[m] \in ContentsOf[m]
  BY Zenon, AllPresent
<1>i. UNCHANGED <<key, src>> =>
        /\ \A m \in Modules, c \in Contents : Made(m, c)' = Made(m, c)
        /\ IsConcurrent' = IsConcurrent
  BY Zenon, MadeSame DEF Iface, IsConcurrent, Present
<1>s. \A m \in Modules : ContentsOf[m] \subseteq Contents
  BY Zenon DEF Contents
<1>k. UNCHANGED <<key, src, objs, rtobj, exes, manifest>> => SteadyCache'
  BY SteadyCacheKept, Zenon DEF SteadyInv, SteadyCache, Iface
<1>1. ASSUME NEW m \in Modules, Edit(m) PROVE SteadyInv'
  <2>1. PICK c : src' = [src EXCEPT ![m] = c] /\ IfaceOf[c] = IfaceOf[src[m]]
    BY Zenon, <1>1 DEF Edit, Remember
  <2>2. src \in [Modules -> Contents \cup {Absent}]
    BY Zenon, SourceFacts DEF IBType
  <2>3. \A d \in Modules : Iface(src, d)' = Iface(src, d)
    BY Zenon, <2>1, <2>2 DEF Iface
  <2>4. UNCHANGED <<manifest, objs, rtobj, exes, key, pc>> /\ pc = "idle"
    BY Zenon, <1>1 DEF Edit, cacheVars, buildVars
  <2>6. SteadyCache'
    BY <2>3, <2>4, SteadyCacheKept, Zenon DEF SteadyInv, SteadyCache
  <2> QED
    BY Zenon, <2>4, <2>6 DEF SteadyInv, SteadyBuild
<1>2. ASSUME NEW k \in Keys, Begin(k) PROVE SteadyInv'
  <2>1. UNCHANGED <<src, manifest, objs, rtobj, exes, key>> /\ key = k
    BY Zenon, <1>2 DEF Begin, cacheVars, Remember
  <2>2. pc' \in {"done", "whole", "runtime"} /\ (pc' = "done" => out' = exes[src] /\ exes[src] # Nil)
    BY Zenon, <1>2 DEF Begin
  <2>3. pc' = "done" => out' = Image(src, key)
    BY Zenon, <2>2 DEF SteadyInv, SteadyCache, IBType
  <2>4. pc' = "done" => out' = Image(src, key)'
    BY Zenon, <2>1, <2>3 DEF Image, Unit, Iface
  <2> QED
    BY Zenon, <1>k, <2>1, <2>2, <2>4 DEF SteadyInv, SteadyBuild
<1>3. CASE Whole
  <2>1. UNCHANGED <<src, manifest, objs, rtobj, exes, key>> /\ pc' = "store1" /\ out' = Image(src, key)
    BY Zenon, <1>3 DEF Whole, cacheVars
  <2>2. out' = Image(src, key)'
    BY Zenon, <2>1 DEF Image, Unit, Iface
  <2>3. IsConcurrent
    BY Zenon, <1>3 DEF Whole, PlanInv
  <2> QED
    BY Zenon, <1>i, <1>k, <2>1, <2>2, <2>3 DEF SteadyInv, SteadyBuild
<1>4. CASE Runtime
  <2>1. UNCHANGED <<src, manifest, objs, exes, key, rest>> /\ pc' = "compile" /\ pc = "runtime"
    BY Zenon, <1>4 DEF Runtime
  <2>2. rtobj' = IF NeedRuntime THEN key ELSE rtobj
    BY Zenon, <1>4 DEF Runtime
  <2>3. rtobj' \in {Nil, Partial, key} /\ rtobj' # Nil
    BY Zenon, <2>2, NilAssumption DEF NeedRuntime, SteadyInv, SteadyCache, IBType
  <2>4. manifest # Nil /\ manifest.rtkey # Nil => rtobj' = key
    BY Zenon, <2>2, SteadyRuntime DEF SteadyInv, SteadyCache
  <2>5. SteadyCache'
    BY Zenon, <2>1, <2>3, <2>4, SteadyCacheKept DEF SteadyInv, SteadyCache, Iface
  <2>6. Modules \ Range(rest') = {}
    BY Zenon, <2>1 DEF PlanInv, Modules
  <2> QED
    BY Zenon, <2>1, <2>3, <2>5, <2>6 DEF SteadyInv, SteadyBuild
<1>5. CASE CompileModule
  <2>1. /\ UNCHANGED <<src, manifest, rtobj, exes, key, pc>> /\ pc = "compile"
        /\ rest # <<>> /\ rest' = Tail(rest) /\ rest \in Seq(Modules)
    BY Zenon, <1>5 DEF CompileModule, IBType
  <2>h. PICK m \in Modules : m = Head(rest)
    BY <2>1
  <2>2. Range(rest) = {m} \cup Range(rest')
    BY Zenon, <2>1, <2>h, TailSet
  <2>o. objs' = IF MustCompile(m) THEN [objs EXCEPT ![m][ObjectName(m)] = Unit(m, src, key)] ELSE objs
    BY Zenon, <1>5, <2>h DEF CompileModule
  <2>3. CASE MustCompile(m)
    <3>0. Unit(m, src, key) \in Objects /\ m \in Present /\ Unit(m, src, key) # Nil
      BY Zenon, <1>0, ImageTypes DEF IBType, Objects
    <3>1. /\ objs'[m][src[m]] = Unit(m, src, key)
          /\ \A n \in Modules : \A c \in ContentsOf[n] : n # m \/ c # src[m] => objs'[n][c] = objs[n][c]
      BY ONLY IBType, <2>3, <2>o, <3>0, ObjsExcept, Zenon
    <3>2. Unit(m, src, key) = Made(m, src[m])
      BY Zenon DEF Unit, Made
    <3>3. \A n \in Modules : \A c \in ContentsOf[n] : objs'[n][c] \in {Nil, Partial, Made(n, c)}
      BY Zenon, <3>1, <3>2 DEF SteadyInv, SteadyCache
    <3>4. ASSUME manifest # Nil, manifest.rtkey # Nil, NEW n \in Modules
          PROVE  objs'[n][manifest.content[n]] = Made(n, manifest.content[n])
      <4>1. n # m \/ manifest.content[n] # src[m]
        BY Zenon, <2>1, <2>3, <3>4, SteadyReuse
      <4> QED
        BY Zenon, <1>c, <3>1, <3>4, <4>1 DEF SteadyInv, SteadyCache
    <3>5. SteadyCache'
      BY <2>1, <3>3, <3>4, SteadyCacheKept, Zenon DEF SteadyInv, SteadyCache, Iface
    <3>6. ASSUME NEW n \in Modules \ Range(rest') PROVE objs'[n][src[n]] # Nil
      <4>1. CASE n = m
        BY Zenon, <3>0, <3>1, <4>1
      <4>2. CASE n # m
        <5>1. n \notin Range(rest) /\ objs'[n][src[n]] = objs[n][src[n]]
          BY <1>0, <2>2, <3>1, <4>2, Zenon
        <5> QED
          BY <2>1, <5>1, Zenon DEF Object, ObjectName, SteadyInv, SteadyBuild
      <4> QED
        BY Zenon, <4>1, <4>2
    <3> QED
      BY Zenon, <2>1, <3>5, <3>6 DEF SteadyInv, SteadyBuild, Object, ObjectName
  <2>4. CASE ~MustCompile(m)
    <3>1. UNCHANGED objs /\ Object(m) # Nil
      BY Zenon, <1>0, <2>4, <2>o DEF MustCompile, Reuse
    <3>2. \A n \in Modules \ Range(rest') : Object(n) # Nil
      BY Zenon, <2>1, <2>2, <3>1 DEF SteadyInv, SteadyBuild
    <3> QED
      BY Zenon, <1>k, <2>1, <3>1, <3>2 DEF SteadyInv, SteadyBuild, Object, ObjectName
  <2> QED
    BY Zenon, <2>3, <2>4
<1>6. CASE Link
  <2>1. UNCHANGED <<src, manifest, objs, rtobj, exes, key>> /\ pc = "compile" /\ rest = <<>>
    BY Zenon, <1>6 DEF Link, cacheVars
  <2>2. pc' \in {"idle", "store1"}
    BY Zenon, <1>6 DEF Link
  <2>3. ASSUME pc' = "store1"
        PROVE  out' = Linked /\ rtobj = key /\ \A m \in Modules : Object(m) = Made(m, src[m])
    <3>1. needLink
      BY <2>1 DEF PlanInv, Range
    <3>2. Linkable /\ out' = Linked
      BY Zenon, <1>6, <2>3, <3>1 DEF Link, MustLink
    <3>3. rtobj = key
      BY Zenon, <2>1, <3>2 DEF Linkable, SteadyInv, SteadyCache, SteadyBuild
    <3>4. ASSUME NEW m \in Modules PROVE Object(m) = Made(m, src[m])
      <4>1. Object(m) \in {Nil, Partial, Made(m, src[m])}
        BY Zenon, <1>0 DEF Object, ObjectName, SteadyInv, SteadyCache
      <4>2. Object(m) # Partial
        BY Zenon, <1>0, <3>2 DEF Linkable
      <4>3. m \notin Range(rest)
        BY <2>1 DEF Range
      <4>4. Object(m) # Nil
        BY Zenon, <2>1, <4>3 DEF SteadyInv, SteadyBuild
      <4> QED
        BY Zenon, <4>1, <4>2, <4>4
    <3> QED
      BY Zenon, <3>2, <3>3, <3>4
  <2>4. pc' = "store1" => out' = Image(src, key)
    <3>1. \A m \in Modules : Made(m, src[m]) = Unit(m, src, key)
      BY Zenon DEF Made, Unit
    <3> QED
      BY Zenon, <1>0, <2>3, <3>1, LinkedImage
  <2>5. pc' = "store1" => out' = Image(src, key)'
    BY Zenon, <2>1, <2>4 DEF Image, Unit, Iface
  <2>6. pc' = "store1" => rtobj' = key' /\ \A m \in Modules : Object(m)' = Made(m, src[m])'
    BY Zenon, <2>1, <2>3 DEF Object, ObjectName, Made, Iface
  <2> QED
    BY Zenon, <1>k, <2>1, <2>2, <2>5, <2>6 DEF SteadyInv, SteadyBuild
<1>7. ASSUME NEW i \in 1..2, StoreArtifacts(i) PROVE SteadyInv'
  <2>1. UNCHANGED <<src, objs, rtobj, out, key>>
    BY Zenon, <1>7 DEF StoreArtifacts
  <2>2. out' = Image(src, key)' /\ out = Image(src, key)
    <3>1. pc \in {"store1", "store2"}
      BY <1>7 DEF StoreArtifacts
    <3>2. out = Image(src, key)
      BY Zenon, <3>1 DEF SteadyInv, SteadyBuild
    <3> QED
      BY Zenon, <2>1, <3>2 DEF Image, Unit, Iface
  <2>3. CASE i = 1
    <3>1. pc = "store1" /\ pc' = "store2" /\ StoreExe
      BY Zenon, <1>7, <2>3 DEF StoreArtifacts, StoreOrder
    <3>2. \A s \in Sources : exes'[s] \in {Nil, Image(s, key)}
      BY Zenon, <2>2, <3>1 DEF StoreExe, IBType, SteadyInv, SteadyCache
    <3>3. UNCHANGED manifest
      BY Zenon, <3>1 DEF StoreExe
    <3>4. SteadyCache'
      BY <2>1, <3>2, <3>3, SteadyCacheKept, Zenon DEF SteadyInv, SteadyCache, Iface
    <3>5. ~IsConcurrent' => rtobj' = key' /\ \A m \in Modules : Object(m)' = Made(m, src[m])'
      BY Zenon, <1>i, <2>1, <3>1 DEF SteadyInv, SteadyBuild, Object, ObjectName, Made, Iface
    <3> QED
      BY Zenon, <2>2, <3>1, <3>4, <3>5 DEF SteadyInv, SteadyBuild
  <2>4. CASE i = 2
    <3>1. pc = "store2" /\ pc' = "done" /\ StoreManifest
      BY Zenon, <1>7, <2>4 DEF StoreArtifacts, StoreOrder
    <3>2. /\ manifest' = [content |-> src, deps |-> Snapshot, key |-> key,
                          rtkey |-> IF IsConcurrent THEN Nil ELSE key]
          /\ UNCHANGED exes
      BY Zenon, <3>1 DEF StoreManifest, IsConcurrent
    <3>3. manifest'.content = src /\ manifest'.key = key /\ (manifest'.rtkey # Nil => ~IsConcurrent)
      BY Zenon, <3>2
    <3>4. manifest'.rtkey # Nil => rtobj = key /\ \A m \in Modules : objs[m][src[m]] = Made(m, src[m])
      BY Zenon, <3>1, <3>3 DEF SteadyInv, SteadyBuild, Object, ObjectName
    <3>5. SteadyCache'
      <4>1. \A m \in Modules : \A c \in ContentsOf[m] : Made(m, c)' = Made(m, c)
        BY Zenon, <1>i, <1>s, <2>1
      <4>2. \A m \in Modules : Made(m, src[m])' = Made(m, src[m])
        BY Zenon, <2>1, <4>1 DEF Made, Iface
      <4>3. \A s \in Sources : Image(s, key)' = Image(s, key)
        BY Zenon, <2>1 DEF Image, Unit, Iface
      <4>4. \A d \in Modules : Iface(manifest.content, d)' = Iface(src, d)'
        BY Zenon, <2>1, <3>3 DEF Iface
      <4>5. \A s \in Sources : exes'[s] \in {Nil, Image(s, key)'}
        BY Zenon, <3>2, <4>3 DEF SteadyInv, SteadyCache
      <4>6. \A m \in Modules : \A c \in ContentsOf[m] : objs'[m][c] \in {Nil, Partial, Made(m, c)'}
        BY Zenon, <2>1, <4>1 DEF SteadyInv, SteadyCache
      <4>7. rtobj' \in {Nil, Partial, key'}
        BY Zenon, <2>1 DEF SteadyInv, SteadyCache
      <4>8. manifest'.rtkey # Nil =>
              rtobj' = key' /\ \A m \in Modules : objs'[m][manifest'.content[m]] = Made(m, manifest.content[m])'
        BY Zenon, <2>1, <3>3, <3>4, <4>2
      <4> QED
        BY Zenon, <2>1, <3>3, <4>4, <4>5, <4>6, <4>7, <4>8 DEF SteadyCache
    <3> QED
      BY Zenon, <2>2, <3>1, <3>5 DEF SteadyInv, SteadyBuild
  <2> QED
    BY <2>3, <2>4
<1>8. CASE Return
  BY Zenon, <1>k, <1>8 DEF Return, cacheVars, SteadyInv, SteadyBuild
<1>9. CASE Fail
  <2>1. UNCHANGED <<src, manifest, exes, key>> /\ pc' = "idle"
    BY Zenon, <1>9 DEF Fail
  <2>2. \/ UNCHANGED <<objs, rtobj>>
        \/ NeedRuntime /\ rtobj' \in {Nil, Partial} /\ UNCHANGED objs
        \/ /\ pc = "compile" /\ rest # <<>> /\ MustCompile(Head(rest)) /\ UNCHANGED rtobj
           /\ \E o \in {Nil, Partial} : objs' = [objs EXCEPT ![Head(rest)][ObjectName(Head(rest))] = o]
    BY Zenon, <1>9 DEF Fail
  <2>3. CASE UNCHANGED <<objs, rtobj>>
    BY Zenon, <1>k, <2>1, <2>3 DEF SteadyInv, SteadyBuild
  <2>4. CASE NeedRuntime /\ rtobj' \in {Nil, Partial} /\ UNCHANGED objs
    <3>1. manifest # Nil => manifest.rtkey = Nil
      BY Zenon, <2>4, SteadyRuntime
    <3>2. SteadyCache'
      BY <2>1, <2>4, <3>1, SteadyCacheKept, Zenon DEF SteadyInv, SteadyCache, Iface
    <3> QED
      BY Zenon, <2>1, <3>2 DEF SteadyInv, SteadyBuild
  <2>5. ASSUME pc = "compile", rest # <<>>, MustCompile(Head(rest)), UNCHANGED rtobj,
               NEW o \in {Nil, Partial}, objs' = [objs EXCEPT ![Head(rest)][ObjectName(Head(rest))] = o]
        PROVE  SteadyInv'
    <3>1. PICK m \in Present : m = Head(rest)
      BY Zenon, <2>5 DEF MustCompile
    <3>2. o \in Objects
      BY Zenon DEF Objects
    <3>3. objs' = [objs EXCEPT ![m][ObjectName(m)] = o]
      BY Zenon, <2>5, <3>1
    <3>4. /\ objs'[m][src[m]] = o
          /\ \A n \in Modules : \A c \in ContentsOf[n] : n # m \/ c # src[m] => objs'[n][c] = objs[n][c]
      BY ONLY IBType, <3>2, <3>3, ObjsExcept, Zenon
    <3>5. \A n \in Modules : \A c \in ContentsOf[n] : objs'[n][c] \in {Nil, Partial, Made(n, c)}
      BY Zenon, <3>4 DEF SteadyInv, SteadyCache
    <3>6. ASSUME manifest # Nil, manifest.rtkey # Nil, NEW n \in Modules
          PROVE  objs'[n][manifest.content[n]] = Made(n, manifest.content[n])
      <4>1. n # m \/ manifest.content[n] # src[m]
        BY Zenon, <2>5, <3>1, <3>6, SteadyReuse
      <4> QED
        BY Zenon, <1>c, <3>4, <3>6, <4>1 DEF SteadyInv, SteadyCache
    <3>7. SteadyCache'
      BY Zenon, <2>1, <2>5, <3>5, <3>6, SteadyCacheKept DEF SteadyInv, SteadyCache, Iface
    <3> QED
      BY Zenon, <2>1, <3>7 DEF SteadyInv, SteadyBuild
  <2> QED
    BY Zenon, <2>2, <2>3, <2>4, <2>5
<1>10. CASE UNCHANGED ibVars
  <2>1. UNCHANGED <<key, src, objs, rtobj, exes, manifest, out, pc, rest>>
    BY Zenon, <1>10 DEF ibVars, cacheVars, buildVars
  <2>2. SteadyBuild'
    BY <1>i, <1>s, <1>0, <2>1, Zenon DEF SteadyInv, SteadyBuild, Object, ObjectName, Image, Unit, Iface
  <2> QED
    BY Zenon, <1>k, <2>1, <2>2 DEF SteadyInv
<1> QED
  BY Zenon, <1>1, <1>2, <1>3, <1>4, <1>5, <1>6, <1>7, <1>8, <1>9, <1>10 DEF IBNext

-----------------------------------------------------------------------------
\* The object of a module that the manifest stands for is the object of the sources:
\* the plan compares the interfaces of all that the unit was compiled against.
LEMMA CurrentUnit ==
  ASSUME DirectUses, IBType, NEW m \in Modules, Current(m)
  PROVE  Unit(m, manifest.content, manifest.key) = Unit(m, src, key)
<1>1. DepInterfaces(m, manifest.content) = DepInterfaces(m, src)
  BY Zenon DEF IBType, Current, DepsChanged
<1>2. \A d \in Imports[m] : Iface(manifest.content, d) = Iface(src, d)
  <2> SUFFICES ASSUME NEW d \in Imports[m] PROVE Iface(manifest.content, d) = Iface(src, d)
    BY Zenon
  <2>1. DepInterfaces(m, manifest.content)[d] = DepInterfaces(m, src)[d]
    BY Zenon, <1>1
  <2> QED
    BY Zenon, <2>1 DEF DepInterfaces
<1>3. [d \in Uses[m] |-> Iface(manifest.content, d)] = [d \in Uses[m] |-> Iface(src, d)]
  BY Zenon, <1>2 DEF DirectUses
<1> QED
  BY Zenon, <1>3 DEF Unit, Current

\* While every build is a split build that ends, no step makes the manifest
\* stand for anything but what the cache holds, whatever was edited.
LEMMA EndedStep ==
  ASSUME NothingDeleted, DirectUses, IBType, RecordsInv, PlanInv, EndedInv, [IBNext]_ibVars,
         "left" \notin past'
  PROVE  EndedInv'
<1>0. Present = Modules /\ \A m \in Modules : src[m] \in ContentsOf[m]
  BY Zenon, AllPresent
<1>k. UNCHANGED <<objs, rtobj, exes, manifest>> /\ ManifestHeld => ManifestHeld'
  BY Zenon DEF ManifestHeld, Image, Unit, Iface
<1>h. pc \in {"idle", "done", "whole", "runtime"} => ManifestHeld
  BY Zenon DEF EndedInv
<1>u. UNCHANGED <<src, key>> =>
        /\ Image(src, key)' = Image(src, key) /\ IsConcurrent' = IsConcurrent
        /\ \A m \in Modules : Unit(m, src, key)' = Unit(m, src, key)
  BY Zenon DEF Image, Unit, Iface, IsConcurrent, Present
<1>1. ASSUME NEW m \in Modules, Edit(m) PROVE EndedInv'
  <2>1. UNCHANGED <<manifest, objs, rtobj, exes, pc>> /\ pc = "idle"
    BY Zenon, <1>1 DEF Edit, cacheVars, buildVars
  <2> QED
    BY Zenon, <1>k, <1>h, <2>1 DEF EndedInv
<1>2. ASSUME NEW k \in Keys, Begin(k) PROVE EndedInv'
  <2>1. UNCHANGED <<src, manifest, objs, rtobj, exes>> /\ key' = k /\ pc = "idle"
    BY <1>2, Zenon DEF Begin, cacheVars
  <2>2. pc' \in {"done", "whole", "runtime"} /\ (pc' = "done" => out' = exes[src] /\ ~Rebuild(k))
    BY Zenon, <1>2 DEF Begin
  <2>3. ManifestHeld'
    BY Zenon, <1>k, <1>h, <2>1
  <2>4. pc' = "done" => out' = Image(src, k)
    BY Zenon, <1>h, <2>1, <2>2 DEF Rebuild, ManifestHeld
  <2>5. Image(src, k) = Image(src, key)'
    BY Zenon, <2>1 DEF Image, Unit, Iface
  <2> QED
    BY Zenon, <2>2, <2>3, <2>4, <2>5 DEF EndedInv
<1>3. ~Whole /\ ~Fail
  BY Zenon DEF Whole, Fail, Remember
<1>4. CASE Runtime
  <2>1. UNCHANGED <<src, manifest, objs, key>> /\ pc' = "compile" /\ pc = "runtime" /\ rest' = Assembly
    BY Zenon, <1>4 DEF Runtime, PlanInv
  <2>2. rtobj' = key
    <3>1. CASE NeedRuntime
      BY Zenon, <1>4, <3>1 DEF Runtime
    <3>2. CASE ~NeedRuntime
      <4>1. RecordedKey = key /\ key # Nil /\ rtobj' = rtobj
        BY Zenon, <1>4, <3>2, NilAssumption DEF Runtime, NeedRuntime, IBType
      <4> QED
        BY Zenon, <1>h, <2>1, <4>1 DEF RecordedKey, ManifestHeld
    <3> QED
      BY Zenon, <3>1, <3>2
  <2>3. ASSUME NEW m \in Modules, status'[m] = "reused" PROVE Object(m) = Unit(m, src, key)
    <3>1. status[m] = "reused"
      BY Zenon, <1>4, <2>3 DEF Runtime, IBType
    <3>2. Current(m)
      BY Zenon, <2>1, <3>1 DEF PlanInv
    <3>3. objs[m][manifest.content[m]] = Unit(m, manifest.content, manifest.key)
      BY Zenon, <1>h, <2>1, <3>2 DEF ManifestHeld, Current
    <3> QED
      BY Zenon, <3>2, <3>3, CurrentUnit DEF Object, ObjectName, Current
  <2>4. \A m \in Modules : m \in Range(rest')
    BY Zenon, <2>1 DEF Modules
  <2>5. PassedHeld'
    BY Zenon, <1>u, <2>1, <2>2, <2>3, <2>4 DEF PassedHeld, Object, ObjectName
  <2> QED
    BY Zenon, <2>1, <2>5 DEF EndedInv
<1>5. CASE CompileModule
  <2>1. /\ UNCHANGED <<src, manifest, rtobj, exes, key, pc, status>> /\ pc = "compile"
        /\ rest # <<>> /\ rest' = Tail(rest) /\ rest \in Seq(Modules)
    BY Zenon, <1>5 DEF CompileModule, IBType
  <2>h. PICK m \in Modules : m = Head(rest)
    BY <2>1
  <2>2. Range(rest) = {m} \cup Range(rest')
    BY Zenon, <2>1, <2>h, TailSet
  <2>o. objs' = IF MustCompile(m) THEN [objs EXCEPT ![m][ObjectName(m)] = Unit(m, src, key)] ELSE objs
    BY Zenon, <1>5, <2>h DEF CompileModule
  <2>3. objs'[m][src[m]] = Unit(m, src, key) /\ \A n \in Modules : n # m => objs'[n][src[n]] = objs[n][src[n]]
    <3>1. CASE MustCompile(m)
      <4>1. Unit(m, src, key) \in Objects /\ m \in Present
        BY Zenon, <1>0, ImageTypes DEF IBType, Objects
      <4>2. /\ objs'[m][src[m]] = Unit(m, src, key)
            /\ \A n \in Modules : \A c \in ContentsOf[n] : n # m \/ c # src[m] => objs'[n][c] = objs[n][c]
        BY ONLY IBType, <2>o, <3>1, <4>1, ObjsExcept, Zenon
      <4> QED
        BY Zenon, <1>0, <4>2
    <3>2. CASE ~MustCompile(m)
      <4>1. status[m] = "reused" /\ UNCHANGED objs
        BY Zenon, <1>0, <2>o, <3>2 DEF MustCompile, Reuse
      <4> QED
        BY Zenon, <2>1, <4>1 DEF EndedInv, PassedHeld, Object, ObjectName
    <3> QED
      BY Zenon, <3>1, <3>2
  <2>4. ASSUME NEW n \in Modules, n \notin Range(rest') \/ status[n] = "reused"
        PROVE  objs'[n][src[n]] = Unit(n, src, key)
    <3>1. CASE n = m
      BY Zenon, <2>3, <3>1
    <3>2. CASE n # m
      <4>1. Object(n) = Unit(n, src, key)
        BY Zenon, <2>1, <2>2, <2>4, <3>2 DEF EndedInv, PassedHeld
      <4> QED
        BY Zenon, <2>3, <3>2, <4>1 DEF Object, ObjectName
    <3> QED
      BY Zenon, <3>1, <3>2
  <2>5. \A n \in Modules : n \notin Range(rest') \/ status'[n] = "reused" => Object(n)' = Unit(n, src, key)'
    BY Zenon, <1>u, <2>1, <2>4 DEF Object, ObjectName
  <2>6. rtobj' = key'
    BY Zenon, <2>1 DEF EndedInv, PassedHeld
  <2>7. PassedHeld'
    BY Zenon, <2>5, <2>6 DEF PassedHeld
  <2> QED
    BY Zenon, <2>1, <2>7 DEF EndedInv
<1>6. CASE Link
  <2>1. UNCHANGED <<src, objs, rtobj, key>> /\ pc = "compile" /\ rest = <<>>
    BY Zenon, <1>6 DEF Link, cacheVars
  <2>2. pc' = "store1" /\ out' = Linked
    <3>1. needLink
      BY <2>1 DEF PlanInv, Range
    <3> QED
      BY Zenon, <1>6, <3>1 DEF Link, MustLink, Remember
  <2>3. rtobj = key /\ \A m \in Modules : Object(m) = Unit(m, src, key)
    <3>1. Range(rest) = {}
      BY <2>1 DEF Range
    <3> QED
      BY Zenon, <2>1, <3>1 DEF EndedInv, PassedHeld
  <2>4. out' = Image(src, key)
    BY Zenon, <1>0, <2>2, <2>3, LinkedImage
  <2>5. ~IsConcurrent
    BY Zenon, <2>1 DEF PlanInv
  <2>6. \A m \in Modules : Object(m)' = Object(m)
    BY Zenon, <2>1 DEF Object, ObjectName
  <2>7. AllHeld'
    BY <1>u, <2>1, <2>3, <2>5, <2>6 DEF AllHeld
  <2>8. out' = Image(src, key)'
    BY Zenon, <1>u, <2>1, <2>4
  <2> QED
    BY Zenon, <2>2, <2>7, <2>8 DEF EndedInv
<1>7. ASSUME NEW i \in 1..2, StoreArtifacts(i) PROVE EndedInv'
  <2>1. UNCHANGED <<src, objs, rtobj, out, key>> /\ pc \in {"store1", "store2"}
    BY <1>7 DEF StoreArtifacts
  <2>2. /\ out = Image(src, key) /\ ~IsConcurrent /\ rtobj = key
        /\ \A m \in Modules : Object(m) = Unit(m, src, key)
    BY Zenon, <2>1 DEF EndedInv, AllHeld
  <2>o. \A m \in Modules : Object(m)' = Object(m)
    BY Zenon, <2>1 DEF Object, ObjectName
  <2>a. AllHeld' /\ out' = Image(src, key)'
    BY <1>u, <2>1, <2>2, <2>o DEF AllHeld
  <2>3. CASE i = 1
    <3>1. pc = "store1" /\ pc' = "store2" /\ StoreExe
      BY Zenon, <1>7, <2>3 DEF StoreArtifacts, StoreOrder
    <3>2. needLink
      BY Zenon, <3>1 DEF PlanInv
    <3>3. exes'[src] = out
      BY Zenon, <3>1, <3>2 DEF StoreExe, Fresh, IBType
    <3>4. exes'[src'] = Image(src, key)'
      BY Zenon, <1>u, <2>1, <2>2, <3>3
    <3> QED
      BY Zenon, <2>a, <3>1, <3>4 DEF EndedInv
  <2>4. CASE i = 2
    <3>1. pc = "store2" /\ pc' = "done" /\ StoreManifest
      BY Zenon, <1>7, <2>4 DEF StoreArtifacts, StoreOrder
    <3>2. /\ manifest' = [content |-> src, deps |-> Snapshot, key |-> key,
                          rtkey |-> IF IsConcurrent THEN Nil ELSE key]
          /\ UNCHANGED exes
      BY Zenon, <3>1 DEF StoreManifest, IsConcurrent
    <3>3. manifest'.content = src /\ manifest'.key = key /\ manifest'.rtkey = key
      BY Zenon, <2>2, <3>2
    <3>4. exes[src] = Image(src, key)
      BY Zenon, <3>1 DEF EndedInv
    <3>5. /\ Image(manifest.content, manifest.key)' = Image(src, key)
          /\ \A m \in Modules : Unit(m, manifest.content, manifest.key)' = Unit(m, src, key)
      BY Zenon, <3>3 DEF Image, Unit, Iface
    <3>6. ManifestHeld'
      BY Zenon, <2>1, <2>2, <3>2, <3>3, <3>4, <3>5 DEF ManifestHeld, Object, ObjectName
    <3> QED
      BY Zenon, <2>a, <3>1, <3>6 DEF EndedInv
  <2> QED
    BY <2>3, <2>4
<1>8. CASE Return
  <2>1. UNCHANGED <<objs, rtobj, exes, manifest>> /\ pc = "done" /\ pc' = "idle"
    BY Zenon, <1>8 DEF Return, cacheVars
  <2> QED
    BY Zenon, <1>k, <1>h, <2>1 DEF EndedInv
<1>10. CASE UNCHANGED ibVars
  <2>1. UNCHANGED <<src, manifest, objs, rtobj, exes, out, pc, key, status, rest>>
    BY Zenon, <1>10 DEF ibVars, cacheVars, buildVars
  <2>2. \A m \in Modules : Object(m)' = Object(m)
    BY Zenon, <2>1 DEF Object, ObjectName
  <2>3. ManifestHeld => ManifestHeld'
    BY Zenon, <1>k, <2>1
  <2>4. PassedHeld => PassedHeld'
    BY Zenon, <1>u, <2>1, <2>2 DEF PassedHeld
  <2>5. AllHeld => AllHeld'
    BY Zenon, <1>u, <2>1, <2>2 DEF AllHeld
  <2>6. exes'[src'] = exes[src] /\ Image(src, key)' = Image(src, key) /\ out' = out /\ pc' = pc
    BY Zenon, <1>u, <2>1
  <2> QED
    BY Zenon, <2>3, <2>4, <2>5, <2>6 DEF EndedInv
<1> QED
  BY Zenon, <1>1, <1>2, <1>3, <1>4, <1>5, <1>6, <1>7, <1>8, <1>10 DEF IBNext

-----------------------------------------------------------------------------
\* The invariant of the incremental build.
LEMMA BuildInvariant ==
  ASSUME NothingDeleted, DirectUses
  PROVE  IBSpec => []BuildInv
<1>1. IBInit => BuildInv
  <2> SUFFICES ASSUME IBInit PROVE BuildInv
    BY Zenon
  <2>1. /\ manifest = Nil /\ rtobj = Nil /\ pc = "idle"
        /\ \A m \in Modules : \A c \in ContentsOf[m] : objs[m][c] = Nil
        /\ \A s \in Sources : exes[s] = Nil
    BY Zenon DEF IBInit
  <2>2. PlanInv /\ SteadyInv /\ EndedInv
    BY Zenon, <2>1 DEF PlanInv, SteadyInv, SteadyCache, SteadyBuild, EndedInv, ManifestHeld
  <2> QED
    BY Zenon, <2>2, TypeInit DEF BuildInv
<1>2. BuildInv /\ [IBNext]_ibVars => BuildInv'
  <2> SUFFICES ASSUME BuildInv, [IBNext]_ibVars PROVE BuildInv'
    BY Zenon
  <2>1. past \subseteq past'
    BY Zenon DEF IBNext, ibVars, Edit, Begin, Whole, Runtime, CompileModule, Link, StoreArtifacts, Return,
       Fail, Remember
  <2>2. IBType' /\ RecordsInv' /\ PlanInv'
    BY Zenon, TypeStep, RecordsStep, PlanStep DEF BuildInv
  <2>3. "change" \notin past' => SteadyInv'
    BY Zenon, <2>1, SteadyStep DEF BuildInv
  <2>4. "left" \notin past' => EndedInv'
    BY Zenon, <2>1, EndedStep DEF BuildInv
  <2> QED
    BY Zenon, <2>2, <2>3, <2>4 DEF BuildInv
<1> QED
  BY <1>1, <1>2, PTL DEF IBSpec

\* A trusted cache has seen no change or no build that left its objects.
LEMMA TrustedCases == BuildInv /\ Trusted => "change" \notin past \/ "left" \notin past
BY Zenon DEF BuildInv, IBType, Trusted

\* A build that ends leaves the executable that a build from nothing would make
\* of the same sources and compiler, for any modules, contents, interfaces and
\* keys, whatever was edited, failed or killed before, as long as the two kinds
\* of disturbance are not mixed, no file is deleted and units depend on direct
\* imports only (BuildCommandIncremental, buildSplitFlow).
THEOREM BuildIsCurrent ==
  ASSUME NothingDeleted, DirectUses
  PROVE  IBSpec => []BuildCurrent
<1>1. BuildInv => BuildCurrent
  BY Zenon, TrustedCases DEF BuildInv, SteadyInv, SteadyBuild, EndedInv, BuildCurrent
<1> QED
  BY <1>1, BuildInvariant, PTL

\* Between builds the manifest stands for what the cache holds, under the same
\* conditions (StoreArtifacts, "a failed build never poisons the cache").
THEOREM ManifestIsSound ==
  ASSUME NothingDeleted, DirectUses
  PROVE  IBSpec => []ManifestSoundIfTrusted
<1>1. BuildInv => ManifestSoundIfTrusted
  <2> SUFFICES ASSUME BuildInv, Trusted, pc = "idle", manifest # Nil
               PROVE  /\ exes[manifest.content] = Image(manifest.content, manifest.key)
                      /\ manifest.rtkey # Nil =>
                           /\ rtobj = manifest.key
                           /\ \A m \in Modules : manifest.content[m] # Absent =>
                                objs[m][manifest.content[m]] = Unit(m, manifest.content, manifest.key)
    BY Zenon DEF ManifestSoundIfTrusted, ManifestSound
  <2>1. CASE "left" \notin past
    BY Zenon, <2>1 DEF BuildInv, EndedInv, ManifestHeld
  <2>2. CASE "change" \notin past
    <3>1. SteadyCache /\ IBType /\ RecordsInv
      BY Zenon, <2>2 DEF BuildInv, SteadyInv
    <3>2. exes[manifest.content] = Image(manifest.content, manifest.key)
      BY <3>1, Zenon DEF SteadyCache, IBType, RecordsInv
    <3>3. ASSUME NEW m \in Modules PROVE Made(m, manifest.content[m]) = Unit(m, manifest.content, manifest.key)
      <4>1. Uses[m] \subseteq Modules /\ \A d \in Modules : Iface(manifest.content, d) = Iface(src, d)
        BY Zenon, <3>1, BuildAssumption DEF SteadyCache
      <4>2. [d \in Uses[m] |-> Iface(src, d)] = [d \in Uses[m] |-> Iface(manifest.content, d)]
        BY Zenon, <4>1
      <4> QED
        BY Zenon, <3>1, <4>2 DEF Made, Unit, SteadyCache
    <3> QED
      BY Zenon, <3>1, <3>2, <3>3 DEF SteadyCache
  <2> QED
    BY <2>1, <2>2, TrustedCases, Zenon
<1> QED
  BY <1>1, BuildInvariant, PTL
=============================================================================
