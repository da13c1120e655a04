---------------------------- MODULE PackageStore ----------------------------
(***************************************************************************)
(* The local package registry (pkg/pm/local_registry.go) and the package   *)
(* cache of a project (pkg/pm/flow.go, manager.go), for one package.       *)
(* Every publish command is a process; the project runs one package        *)
(* command at a time.  A process may be killed, or meet an I/O error,      *)
(* between two file operations.                                            *)
(*                                                                         *)
(* A version is a number, ordered as semver orders it.  The index and its  *)
(* temporary file are inodes that a rename moves: a publisher keeps        *)
(* writing to the file it opened.                                          *)
(***************************************************************************)
EXTENDS Naturals

CONSTANTS
  Publishers,          \* the publish commands
  Versions,            \* the versions a publisher may have in its manifest
  Reqs,                \* version requirements of the project's manifest
  Allows,              \* the versions a requirement admits (semver.go)
  Dir,                 \* cacheDirName of a requirement
  None

ASSUME StoreAssumption ==
  /\ Versions \subseteq Nat /\ None \notin Publishers /\ None \notin Reqs
  /\ Allows \in [Reqs -> SUBSET Versions] /\ DOMAIN Dir = Reqs

VARIABLES
  stored,      \* packages/<name>/<version>: whose tree it holds
  damaged,     \* stored trees that no longer match their digest
  file,        \* index/<name> and index/<name>.tmp
  pub,         \* publishers: position, version, index read
  fd,          \* which of the two files a publisher has open
  overlap,     \* (history) an index was read while another was being written
  cache,       \* .karkain/cache/<dir>: tree, its version, its .checksum
  cmd,         \* the project's command: position, requirement, tree fetched
  torn         \* (history) directories whose removal was cut short

registry == <<stored, damaged, file, pub, fd, overlap>>
project == <<cache, cmd, torn>>
vars == <<registry, project>>

Dirs == {Dir[r] : r \in Reqs}
NoFile == [kind |-> "none", vs |-> {}]
EmptyFile == [kind |-> "empty", vs |-> {}]
List(s) == [kind |-> "list", vs |-> s]
Garbled == [kind |-> "garbled", vs |-> {}]
NoDir == [kind |-> "none", v |-> None, sum |-> "none"]
NoCmd == [pc |-> "off", req |-> None, dir |-> None, v |-> None, tree |-> "none"]

Init ==
  /\ stored = [v \in Versions |-> None] /\ damaged = {}
  /\ file = [f \in {"index", "tmp"} |-> NoFile]
  /\ pub = [p \in Publishers |-> [pc |-> "off", v |-> None, vs |-> {}]]
  /\ fd = [p \in Publishers |-> "gone"] /\ overlap = FALSE
  /\ cache = [d \in Dirs |-> NoDir] /\ torn = {}
  /\ cmd = NoCmd

-----------------------------------------------------------------------------
(* PublishLocal                                                            *)
GoTo(p, pc) == pub' = [pub EXCEPT ![p].pc = pc]

Published(v) == stored[v] # None

\* Mutant: the index is written before the tree is stored.
Publish_IndexFirst(p, v) ==
  /\ pub[p].pc = "off" /\ ~Published(v)
  /\ pub' = [pub EXCEPT ![p].pc = "read", ![p].v = v]
  /\ UNCHANGED <<stored, damaged, file, fd, overlap, project>>

\* Refused if the version directory exists; else the tree is staged, out of
\* everybody's sight.
Publish(p, v) ==
  /\ pub[p].pc = "off"
  /\ pub' = [pub EXCEPT ![p].pc = IF Published(v) THEN "failed" ELSE "store", ![p].v = v]
  /\ UNCHANGED <<stored, damaged, file, fd, overlap, project>>

\* Mutant: a directory that appeared since the test is replaced.
CanRename_Always(v) == TRUE

\* os.Rename of a directory onto an existing one fails.
CanRename(v) == ~Published(v)

Store(p) ==
  /\ pub[p].pc = "store"
  /\ IF CanRename(pub[p].v)
     THEN stored' = [stored EXCEPT ![pub[p].v] = p] /\ GoTo(p, "read")
     ELSE GoTo(p, "failed") /\ UNCHANGED stored
  /\ UNCHANGED <<damaged, file, fd, overlap, project>>

\* Mutant: the list starts afresh.
Extended_New(vs, v) == {v}

Extended(vs, v) == vs \cup {v}

Writing(q) == pub[q].pc \in {"open", "write", "move"}

\* ReadLocalIndex, and the version added: an empty or garbled file is an error.
ReadIndex(p) ==
  /\ pub[p].pc = "read"
  /\ IF file["index"].kind \in {"empty", "garbled"}
     THEN GoTo(p, "failed") /\ UNCHANGED overlap
     ELSE /\ pub' = [pub EXCEPT ![p].pc = "open",
                                ![p].vs = Extended(file["index"].vs, pub[p].v)]
          /\ overlap' = (overlap \/ \E q \in Publishers \ {p} : Writing(q))
  /\ UNCHANGED <<stored, damaged, file, fd, project>>

\* writeLocalIndex: the temporary file has one name for all publishers, so
\* opening it truncates what another is writing.
OpenTmp(p) ==
  /\ pub[p].pc = "open" /\ GoTo(p, "write")
  /\ file' = [file EXCEPT !["tmp"] = EmptyFile]
  /\ fd' = [fd EXCEPT ![p] = "tmp"]
  /\ UNCHANGED <<stored, damaged, overlap, project>>

\* Two writers of one file, both from its start: a list that is not longer
\* may keep the tail of what it overwrites.
Overwritten(old, new) ==
  IF old.kind = "empty" \/ (old.kind = "list" /\ old.vs \subseteq new.vs)
  THEN {new} ELSE {new, Garbled}

WriteTmp(p) ==
  /\ pub[p].pc = "write" /\ GoTo(p, "move")
  /\ IF fd[p] = "gone" THEN UNCHANGED file
     ELSE \E c \in Overwritten(file[fd[p]], List(pub[p].vs)) : file' = [file EXCEPT ![fd[p]] = c]
  /\ UNCHANGED <<stored, damaged, fd, overlap, project>>

\* Who had the old index open writes to a file without a name; who had the
\* temporary file open, to the index.
Moved(p, q) ==
  IF q = p \/ fd[q] = "index" THEN "gone" ELSE IF fd[q] = "tmp" THEN "index" ELSE fd[q]

MoveTmp(p) ==
  /\ pub[p].pc = "move"
  /\ IF file["tmp"].kind = "none"
     THEN GoTo(p, "remove") /\ UNCHANGED <<file, fd>>
     ELSE /\ file' = [index |-> file["tmp"], tmp |-> NoFile] /\ GoTo(p, "done")
          /\ fd' = [q \in Publishers |-> Moved(p, q)]
  /\ UNCHANGED <<stored, damaged, overlap, project>>

RemoveTmp(p) ==
  /\ pub[p].pc = "remove" /\ GoTo(p, "failed")
  /\ file' = [file EXCEPT !["tmp"] = NoFile]
  /\ fd' = [q \in Publishers |-> IF q = p \/ fd[q] = "tmp" THEN "gone" ELSE fd[q]]
  /\ UNCHANGED <<stored, damaged, overlap, project>>

KillPublisher(p) ==
  /\ pub[p].pc \notin {"off", "done", "failed", "killed"} /\ GoTo(p, "killed")
  /\ fd' = [fd EXCEPT ![p] = "gone"]
  /\ UNCHANGED <<stored, damaged, file, overlap, project>>

\* A stored tree changes on disk.
Damage(v) ==
  /\ Published(v) /\ damaged' = damaged \cup {v}
  /\ UNCHANGED <<stored, file, pub, fd, overlap, project>>

-----------------------------------------------------------------------------
(* The project's cache: FetchModuleWithRegistry, registered fetches, clean *)
Step(pc) == cmd' = [cmd EXCEPT !.pc = pc]

\* A directory is good if its checksum is, or if it has none.
CachedValid(d) == cache[d].kind # "none" /\ cache[d].sum # "mismatch"

\* `fetch` looks at the cache first; `add`, `update <pkg>` and `upgrade`
\* (force) fetch anyway.
Fetch(r, force) ==
  /\ cmd.pc = "off"
  /\ cmd' = [NoCmd EXCEPT !.req = r, !.dir = Dir[r],
             !.pc = IF ~force /\ CachedValid(Dir[r]) THEN "ok" ELSE "resolve"]
  /\ UNCHANGED <<registry, cache, torn>>

\* Mutant: a version the requirement does not admit.
Candidates_All(r) == file["index"].vs

Candidates(r) == file["index"].vs \cap Allows[r]

\* ResolveLocalVersion: the newest listed version that satisfies.
Resolve ==
  /\ cmd.pc = "resolve"
  /\ \/ Candidates(cmd.req) = {} /\ Step("failed")
     \/ \E v \in Candidates(cmd.req) :
          /\ \A w \in Candidates(cmd.req) : w <= v
          /\ cmd' = [cmd EXCEPT !.pc = "copy", !.v = v]
  /\ UNCHANGED <<registry, cache, torn>>

\* Mutant: the digest is not compared.
DigestOK_Any(v) == TRUE

DigestOK(v) == v \notin damaged

\* FetchLocal into a temporary directory; disks do not fail in mid-copy.
Copy ==
  /\ cmd.pc = "copy"
  /\ cmd' = IF Published(cmd.v) /\ DigestOK(cmd.v)
            THEN [cmd EXCEPT !.pc = "clear", !.tree = IF cmd.v \in damaged THEN "damaged" ELSE "whole"]
            ELSE [cmd EXCEPT !.pc = "failed"]
  /\ UNCHANGED <<registry, cache, torn>>

\* CleanCache, one directory of its loop.
Clean(d) ==
  /\ cmd.pc = "off" /\ cache[d].kind # "none"
  /\ cmd' = [NoCmd EXCEPT !.pc = "clear", !.dir = d]
  /\ UNCHANGED <<registry, cache, torn>>

\* RemoveAll deletes entry by entry, in any order.
ClearSome ==
  /\ cmd.pc = "clear" /\ cache[cmd.dir].kind # "none"
  /\ Step("clearing")
  /\ \E s \in {"none", "mismatch"} :
       cache' = [cache EXCEPT ![cmd.dir].kind = "partial",
                              ![cmd.dir].sum = IF cache[cmd.dir].sum = "none" THEN "none" ELSE s]
  /\ UNCHANGED <<registry, torn>>

ClearRest ==
  /\ cmd.pc = "clearing" \/ (cmd.pc = "clear" /\ cache[cmd.dir].kind = "none")
  /\ Step(IF cmd.req = None THEN "off" ELSE "promote")
  /\ cache' = [cache EXCEPT ![cmd.dir] = NoDir] /\ torn' = torn \ {cmd.dir}
  /\ UNCHANGED registry

\* writeChecksumAndPromote: the rename, then the checksum of what is there.
Promote ==
  /\ cmd.pc = "promote" /\ Step("sum")
  /\ cache' = [cache EXCEPT ![cmd.dir] = [kind |-> cmd.tree, v |-> cmd.v, sum |-> "none"]]
  /\ UNCHANGED <<registry, torn>>

WriteChecksumFile ==
  /\ cmd.pc = "sum" /\ Step("ok")
  /\ cache' = [cache EXCEPT ![cmd.dir].sum = "match"]
  /\ UNCHANGED <<registry, torn>>

KillCommand ==
  /\ cmd.pc \notin {"off", "ok", "failed"} /\ Step("failed")
  /\ torn' = IF cmd.pc = "clearing" THEN torn \cup {cmd.dir} ELSE torn
  /\ UNCHANGED <<registry, cache>>

\* The command has answered; another may be started.
Exit ==
  /\ cmd.pc \in {"ok", "failed"} /\ cmd' = NoCmd
  /\ UNCHANGED <<registry, cache, torn>>

-----------------------------------------------------------------------------
Next ==
  \/ \E p \in Publishers :
       \/ \E v \in Versions : Publish(p, v)
       \/ Store(p) \/ ReadIndex(p) \/ OpenTmp(p) \/ WriteTmp(p) \/ MoveTmp(p) \/ RemoveTmp(p)
       \/ KillPublisher(p)
  \/ \E v \in Versions : Damage(v)
  \/ \E r \in Reqs, force \in BOOLEAN : Fetch(r, force)
  \/ \E d \in Dirs : Clean(d)
  \/ Resolve \/ Copy \/ ClearSome \/ ClearRest \/ Promote \/ WriteChecksumFile
  \/ KillCommand \/ Exit

Spec == Init /\ [][Next]_vars

-----------------------------------------------------------------------------
Files == [kind : {"none", "empty", "list", "garbled"}, vs : SUBSET Versions]

RegistryType ==
  /\ stored \in [Versions -> Publishers \cup {None}] /\ damaged \subseteq Versions
  /\ file \in [{"index", "tmp"} -> Files]
  /\ pub \in [Publishers ->
       [pc : {"off", "store", "read", "open", "write", "move", "remove", "done", "failed", "killed"},
        v : Versions \cup {None}, vs : SUBSET Versions]]
  /\ fd \in [Publishers -> {"index", "tmp", "gone"}]
  /\ overlap \in BOOLEAN

ProjectType ==
  /\ cache \in [Dirs -> [kind : {"none", "whole", "partial", "damaged"},
                         v : Versions \cup {None}, sum : {"none", "match", "mismatch"}]]
  /\ cmd \in [pc : {"off", "resolve", "copy", "clear", "clearing", "promote", "sum", "ok", "failed"},
              req : Reqs \cup {None}, dir : Dirs \cup {None}, v : Versions \cup {None},
              tree : {"none", "whole", "damaged"}]
  /\ torn \subseteq Dirs

\* Every variable of the registry and of the project's cache stays in its type.
TypeOK == RegistryType /\ ProjectType

\* A published version is never replaced or taken back, whatever publishers
\* race for it ("published versions are immutable", local_registry.go).
PublishedImmutable ==
  [][\A v \in Versions : Published(v) => stored'[v] = stored[v]]_vars

\* Whatever interleaving or kill, the index lists only versions whose tree is
\* stored: PublishLocal renames the tree before it touches the index.
IndexSound == \A v \in file["index"].vs : Published(v)

\* A publish that answered success is listed, and the index is readable, as
\* long as no index was read while another publisher was rewriting it.
ListedUnlessOverlap ==
  overlap \/ ( /\ file["index"].kind \in {"none", "list"}
              /\ \A p \in Publishers : pub[p].pc = "done" => pub[p].v \in file["index"].vs )

\* A cached directory that CachedValid accepts holds a whole and undamaged
\* tree, except inside RemoveAll and after a command was killed there.
CacheSound ==
  \A d \in Dirs : CachedValid(d) /\ d \notin torn /\ ~(cmd.pc = "clearing" /\ cmd.dir = d)
                   => cache[d].kind = "whole"

\* A fetch that answers success leaves a published version, admitted by the
\* requirement or by one that has the same cache directory.
FetchSatisfies ==
  cmd.pc = "ok" =>
    /\ cache[cmd.dir].v \in Versions /\ Published(cache[cmd.dir].v)
    /\ \E r \in Reqs : Dir[r] = cmd.dir /\ cache[cmd.dir].v \in Allows[r]
=============================================================================
