-------------------------- MODULE IncrementalBuild --------------------------
(***************************************************************************)
(* The incremental build (`karkain build --incremental`): the persistent   *)
(* cache and the build plan of pkg/compiler/incremental.go, driven by      *)
(* BuildCommandIncremental and buildSplitFlow of pkg/cli/incremental.go.   *)
(*                                                                         *)
(* Hashes are the values they hash.  A translation unit is what its object *)
(* depends on: the module's content, the interfaces of the modules whose   *)
(* declarations it uses, and the compiler key.  Objects are files named    *)
(* after module and content only; executables after the contents of all    *)
(* modules only.  The runtime header and flags follow the compiler key, so *)
(* RuntimeKey is that key.  Builds run one at a time and sources change    *)
(* between builds.                                                         *)
(***************************************************************************)
EXTENDS Naturals, Sequences, Functions

CONSTANTS
  Assembly,           \* the assembly order: dependencies first, root last
  ContentsOf,         \* the contents each module may have
  IfaceOf,            \* ModuleInterface of a content
  Concurrent,         \* contents that need the whole-assembly flow
  Imports,            \* FileImports: the modules a module imports
  Uses,               \* the modules whose declarations its code depends on
  Removable,          \* modules that may be deleted from the project
  Keys,               \* compiler keys: target, debug flag, toolchain
  Absent, Nil, Partial,
  Failures            \* whether a build may fail or be killed at any step

Modules == Range(Assembly)
Contents == UNION {ContentsOf[m] : m \in Modules}
Sources == {s \in [Modules -> Contents \cup {Absent}] :
              \A m \in Modules : s[m] \in ContentsOf[m] \cup (IF m \in Removable THEN {Absent} ELSE {})}

ASSUME BuildAssumption ==
  /\ Assembly \in Seq(Modules) /\ Assembly # <<>> /\ Absent \notin Contents
  /\ DOMAIN ContentsOf = Modules /\ DOMAIN IfaceOf = Contents \cup {Absent}
  /\ Imports \in [Modules -> SUBSET Modules] /\ Uses \in [Modules -> SUBSET Modules]
  /\ Concurrent \subseteq Contents /\ Removable \subseteq Modules /\ Failures \in BOOLEAN

Interfaces == {IfaceOf[c] : c \in Contents \cup {Absent}}
Units == [own : Contents \cup {Absent}, seen : UNION {[Uses[m] -> Interfaces] : m \in Modules}, key : Keys]
Objects == Units \cup {Nil, Partial}
Executables ==
  [rt : Keys \cup {Nil, Partial}, unit : UNION {[S -> Objects] : S \in SUBSET Modules}]

\* Nil is no key, object or executable.
ASSUME NilAssumption == Nil \notin Keys \cup Units \cup Executables

VARIABLES
  src,                \* the source files
  manifest,           \* manifest.json: Nil or [content, deps, key, rtkey]
  objs, rtobj,        \* object files in the cache, and runtime.o
  exes,               \* cached executables, by the contents they were built from
  out,                \* the executable at the output path
  pc, key, status,    \* the build in progress: step, compiler key, plan
  rest, needLink,     \* modules still to compile, whether anything is fresh
  past                \* (history) "change": the compiler key or an interface has
                      \* changed; "left": a build left the cached objects as
                      \* they were (failed, or whole assembly)

cacheVars == <<manifest, objs, rtobj, exes>>
buildVars == <<pc, key, status, rest, needLink>>
ibVars == <<src, cacheVars, out, buildVars, past>>

Present == {m \in Modules : src[m] # Absent}
Iface(s, d) == IfaceOf[s[d]]

\* What the C compiler makes of module m of sources s.
Unit(m, s, k) == [own |-> s[m], seen |-> [d \in Uses[m] |-> Iface(s, d)], key |-> k]

\* What a build of sources s from nothing links.
Image(s, k) ==
  [rt |-> k, unit |-> [m \in {n \in Modules : s[n] # Absent} |-> Unit(m, s, k)]]

IBInit ==
  /\ src \in Sources
  /\ manifest = Nil /\ rtobj = Nil /\ out = Nil
  /\ objs = [m \in Modules |-> [c \in ContentsOf[m] |-> Nil]]
  /\ exes = [s \in Sources |-> Nil]
  /\ pc = "idle" /\ key \in Keys /\ status = [m \in Modules |-> "reused"]
  /\ rest = <<>> /\ needLink = FALSE /\ past = {}

\* The history: e has happened.
Remember(e) == past' = past \cup {e}

\* The user edits, adds or deletes a file.
Edit(m) ==
  /\ pc = "idle"
  /\ \E c \in ContentsOf[m] \cup (IF m \in Removable THEN {Absent} ELSE {}) :
       /\ c # src[m] /\ src' = [src EXCEPT ![m] = c]
       /\ IF IfaceOf[c] # IfaceOf[src[m]] THEN Remember("change") ELSE UNCHANGED past
  /\ UNCHANGED <<cacheVars, out, buildVars>>

-----------------------------------------------------------------------------
(* PlanBuild                                                               *)
DepInterfaces(m, s) == [d \in Imports[m] |-> Iface(s, d)]

\* Mutant: an interface change of a dependency goes unnoticed.
DepsChanged_Never(m) == FALSE

DepsChanged(m) == manifest.deps[m] # DepInterfaces(m, src)

StatusOf(m, k) ==
  CASE manifest = Nil -> "compiled"
    [] manifest # Nil /\ manifest.content[m] = Absent -> "compiled"
    [] manifest # Nil /\ manifest.content[m] # Absent /\ manifest.key # k -> "invalidated"
    [] OTHER -> IF manifest.content[m] # src[m] THEN "compiled"
                ELSE IF DepsChanged(m) THEN "invalidated" ELSE "reused"

Rebuild(k) ==
  \/ manifest = Nil
  \/ manifest.content # src \/ manifest.key # k
  \/ \E m \in Present : StatusOf(m, k) # "reused"

(* BuildCommandIncremental: plan, then replay the cached executable or go  *)
(* on.  An unresolved import ends the build.                               *)
Begin(k) ==
  /\ pc = "idle" /\ key' = k
  /\ \A m \in Present : Imports[m] \subseteq Present
  /\ status' = [m \in Modules |-> IF m \in Present THEN StatusOf(m, k) ELSE "reused"]
  /\ IF ~Rebuild(k) /\ exes[src] # Nil
     THEN out' = exes[src] /\ pc' = "done"
     ELSE /\ pc' = IF \E m \in Present : src[m] \in Concurrent THEN "whole" ELSE "runtime"
          /\ UNCHANGED out
  /\ rest' = Assembly /\ needLink' = FALSE
  /\ IF k # key THEN Remember("change") ELSE UNCHANGED past
  /\ UNCHANGED <<src, cacheVars>>

\* The whole-assembly flow: one C unit, compiled and linked.
Whole ==
  /\ pc = "whole" /\ pc' = "store1"
  /\ out' = Image(src, key)
  /\ needLink' = TRUE
  /\ Remember("left")
  /\ UNCHANGED <<src, cacheVars, key, status, rest>>

-----------------------------------------------------------------------------
(* buildSplitFlow: runtime.o and the objects are compiled in place.        *)
RecordedKey == IF manifest = Nil THEN Nil ELSE manifest.rtkey

NeedRuntime == RecordedKey # key \/ rtobj = Nil

\* A different runtime key invalidates the modules the plan would reuse -
\* unless the manifest has no runtime key.
Runtime ==
  /\ pc = "runtime" /\ pc' = "compile"
  /\ status' = IF RecordedKey \notin {Nil, key}
               THEN [m \in Modules |-> IF status[m] = "reused" THEN "invalidated" ELSE status[m]]
               ELSE status
  /\ rtobj' = IF NeedRuntime THEN key ELSE rtobj
  /\ needLink' = NeedRuntime
  /\ UNCHANGED <<src, manifest, objs, exes, out, key, rest, past>>

\* ObjectNameFor: module and content.
ObjectName(m) == src[m]
Object(m) == objs[m][ObjectName(m)]

Reuse(m) == status[m] = "reused" /\ Object(m) # Nil

\* A module that is not there, or whose object is good, is passed over.
MustCompile(m) == m \in Present /\ ~Reuse(m)

CompileModule ==
  /\ pc = "compile" /\ rest # <<>> /\ rest' = Tail(rest)
  /\ LET m == Head(rest) IN
       /\ objs' = IF MustCompile(m) THEN [objs EXCEPT ![m][ObjectName(m)] = Unit(m, src, key)] ELSE objs
       /\ needLink' = (needLink \/ MustCompile(m))
  /\ UNCHANGED <<src, manifest, rtobj, exes, out, pc, key, status, past>>

Linked == [rt |-> rtobj, unit |-> [m \in Present |-> Object(m)]]
Linkable == Partial \notin {rtobj} \cup {Object(m) : m \in Present}

\* Without a fresh object the executable at the output path is kept.
MustLink == needLink \/ out = Nil

\* The linker refuses an unfinished object file.
Link ==
  /\ pc = "compile" /\ rest = <<>>
  /\ IF MustLink /\ ~Linkable
     THEN pc' = "idle" /\ Remember("left") /\ UNCHANGED out
     ELSE pc' = "store1" /\ out' = (IF MustLink THEN Linked ELSE out) /\ UNCHANGED past
  /\ UNCHANGED <<src, cacheVars, key, status, rest, needLink>>

-----------------------------------------------------------------------------
(* StoreArtifacts: every file by rename, the manifest last.                *)
StoreOrder == <<"exe", "manifest">>

\* Mutant: the executable is not stored again under a name that exists.
Fresh_Missing == exes[src] = Nil

Fresh == needLink \/ exes[src] = Nil

\* Mutant: the interfaces recorded are those of the previous manifest.
Snapshot_Old ==
  IF manifest = Nil THEN [m \in Modules |-> DepInterfaces(m, src)] ELSE manifest.deps

Snapshot == [m \in Modules |-> DepInterfaces(m, src)]

StoreExe ==
  /\ exes' = IF Fresh THEN [exes EXCEPT ![src] = out] ELSE exes
  /\ UNCHANGED manifest

StoreManifest ==
  /\ manifest' = [content |-> src, deps |-> Snapshot, key |-> key,
                  rtkey |-> IF \E m \in Present : src[m] \in Concurrent THEN Nil ELSE key]
  /\ UNCHANGED exes

StoreArtifacts(i) ==
  /\ pc = <<"store1", "store2">>[i] /\ pc' = <<"store2", "done">>[i]
  /\ IF StoreOrder[i] = "exe" THEN StoreExe ELSE StoreManifest
  /\ UNCHANGED <<src, objs, rtobj, out, key, status, rest, needLink, past>>

Return ==
  /\ pc = "done" /\ pc' = "idle"
  /\ UNCHANGED <<src, cacheVars, out, key, status, rest, needLink, past>>

\* A step fails or the process is killed: what was being compiled or linked
\* in place may be left unfinished.
Fail ==
  /\ Failures /\ pc \notin {"idle", "done"} /\ pc' = "idle" /\ Remember("left")
  /\ \/ UNCHANGED <<objs, rtobj, out>>
     \/ /\ pc = "runtime" /\ NeedRuntime /\ rtobj' \in {Nil, Partial}
        /\ UNCHANGED <<objs, out>>
     \/ /\ pc = "compile" /\ rest # <<>> /\ MustCompile(Head(rest))
        /\ \E o \in {Nil, Partial} : objs' = [objs EXCEPT ![Head(rest)][ObjectName(Head(rest))] = o]
        /\ UNCHANGED <<rtobj, out>>
     \/ /\ pc = "whole" \/ (pc = "compile" /\ rest = <<>>)
        /\ out' \in {Nil, Partial}
        /\ UNCHANGED <<objs, rtobj>>
  /\ UNCHANGED <<src, manifest, exes, key, status, rest, needLink>>

IBNext ==
  \/ \E m \in Modules : Edit(m)
  \/ \E k \in Keys : Begin(k)
  \/ Whole \/ Runtime \/ CompileModule \/ Link \/ (\E i \in 1..2 : StoreArtifacts(i)) \/ Return \/ Fail

IBSpec == IBInit /\ [][IBNext]_ibVars

-----------------------------------------------------------------------------
\* Objects are named after content only, so the cache can be trusted as long as
\* the compiler key and the interfaces stay what they were or every build is a
\* split build that ends.
Trusted == past # {"change", "left"}

\* A build that reports success leaves at the output path the executable that
\* a build from nothing would make of the same sources and compiler, whether
\* it was replayed from the cache, linked from reused objects, or compiled;
\* also after builds that were killed or that took the whole-assembly flow.
BuildCurrent == Trusted /\ pc = "done" => out = Image(src, key)

\* "A failed build never poisons the cache": between builds, what a split
\* build's manifest stands for is what the cache holds - its executable, its
\* runtime object and the object of every module.
ManifestSound ==
  pc = "idle" /\ manifest # Nil =>
    /\ exes[manifest.content] = Image(manifest.content, manifest.key)
    /\ manifest.rtkey # Nil =>
         /\ rtobj = manifest.key
         /\ \A m \in Modules : manifest.content[m] # Absent =>
              objs[m][manifest.content[m]] = Unit(m, manifest.content, manifest.key)

\* StoreArtifacts and CompileTU: the same, of a cache that can be trusted.
ManifestSoundIfTrusted == Trusted => ManifestSound

\* A build of sources and compiler that the manifest already stands for
\* compiles and links nothing ("on a no-op it skips ... gcc entirely").
NoopReplays ==
  pc \notin {"idle", "done"} => manifest = Nil \/ manifest.content # src \/ manifest.key # key
=============================================================================
