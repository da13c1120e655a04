------------------------------ MODULE MCTools ------------------------------
(***************************************************************************)
(* The command-line tools that do not share state, one per behaviour: a    *)
(* test file is run, the imports of a compilation are resolved, a          *)
(* workspace is edited and ordered, or programs are borrow-checked.        *)
(***************************************************************************)
EXTENDS TestRunner, ImportCycle, Workspace, BorrowChecker

VARIABLE tool         \* which of them is used

\* Modules 0 (the root), 1 (two files) and 2; 3 is not on disk.
MCFilesOf == [m \in 0..2 |-> IF m = 1 THEN 2 ELSE 1]
MCImported == [f \in SourceFiles |-> IF f = RootFile THEN 0..3 ELSE 0..2]

toolVars == <<tool, vars, mgVars, wsVars, bcVars>>

\* A test file whose tests have all been run and have passed.
TestsIdle ==
  /\ works = [t \in Tests |-> "passes"] /\ cur = N + 1 /\ cfile = None /\ exe = None
  /\ phase = [t \in Tests |-> "done"] /\ proc = [t \in Tests |-> t] /\ err = [t \in Tests |-> "none"]
  /\ ch = [t \in Tests |-> FALSE] /\ verdict = [t \in Tests |-> "pass"]

GraphIdle ==
  /\ importsOf = [f \in SourceFiles |-> {}] /\ stack = <<>> /\ seen = {} /\ walkedMod = {} /\ modules = {}
  /\ edges = {} /\ indeg = <<>> /\ queue = {} /\ result = <<>> /\ outcome = "none"

WorkspaceIdle ==
  /\ members = <<>> /\ deps = [d \in Dirs |-> {}] /\ order = <<>> /\ doneDeps = <<>> /\ wsQueue = {}
  /\ wsDone = "none"

ToolsInit ==
  /\ BCInit
  /\ \/ tool = "tests" /\ Init /\ GraphIdle /\ WorkspaceIdle
     \/ tool = "imports" /\ TestsIdle /\ MGInit /\ WorkspaceIdle
     \/ tool = "workspace" /\ TestsIdle /\ GraphIdle /\ WSInit
     \/ tool = "borrows" /\ TestsIdle /\ GraphIdle /\ WorkspaceIdle

ToolsNext ==
  /\ UNCHANGED tool
  /\ \/ tool = "tests" /\ Next /\ UNCHANGED <<mgVars, wsVars, bcVars>>
     \/ tool = "imports" /\ MGNext /\ UNCHANGED <<vars, wsVars, bcVars>>
     \/ tool = "workspace" /\ WSNext /\ UNCHANGED <<vars, mgVars, bcVars>>
     \/ tool = "borrows" /\ BCNext /\ UNCHANGED <<vars, mgVars, wsVars>>

ToolsSpec == ToolsInit /\ [][ToolsNext]_toolVars /\ Fairness
=============================================================================
