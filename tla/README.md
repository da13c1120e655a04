# A TLA+ verification of Karkain

Karkain is a language toolchain: a compiler in Go (lexer, parser, semantic
analysis, several back ends), a C concurrency runtime linked into compiled
programs, a Go runtime of coroutines, channels and actors, an incremental
build with a persistent cache, a package manager and a language server. This
directory holds TLA+ models of its stateful parts, the TLC configurations that
check them on small instances, and TLAPS proofs about some of them. Beside the
stateful parts it holds the three back ends, as operators from programs to code
and machines that execute the code.

`PROJECT.json` lists every component, run, mutant, finding, hazard and theorem,
and maps each definition to the source lines it models.

## 1. Inventory

What each part keeps, what changes it, and what makes it hard.

| Part | State | Operations | Hard behaviour |
|---|---|---|---|
| C channel, `runtime/concurrency/c/karkain_channel.c` | linked queue, capacity, closed flag, two waiter counters, mutex, two condition variables | create, send, recv, try_recv, close, release/destroy | lost wakeups, conditional signals, close against waiters, who frees a payload |
| C scheduler, `karkain_scheduler.c` | `pending`, `stopping`, global queue, one queue per worker, tasks | init, spawn, join, wait_all, worker loop (pop, steal, idle wait), finish | counting without a lock, sleepers, shutdown, one run per actor |
| C actors, `karkain_actor.c` | `queued` and `stopped` flags, mailbox, drain lock | send, stop, drain, state get/set | hand-over between drain and send, stop against send |
| Go coroutines and scheduler, `pkg/runtime/coroutine.go` | run queue, blocked list, `activeThreads` and totals, `stopCh` | Spawn, Run, executeThread, UnblockThread, Stop, Wait | lists read under separate locks, parked threads |
| Go channels and select, `coroutine.go` | closed flag, Go channel | Send, SendNonBlocking, Receive, ReceiveNonBlocking, Close, Select | test-then-send, timers against partners |
| Go actors, `pkg/runtime/actor_system.go` | actor table, mailbox, closed flag, running flag | Spawn, Send, Request, runActor, Shutdown (actor, system) | polling exit, refused shutdown message, late spawn |
| Node mesh, `actor_system.go` | node table, connection, Alive, LastHeartbeat | ConnectToNode, handleIncoming, receiveLoop, heartbeat, leave, health check, Shutdown | broken links, silence, loops blocked in Decode |
| Incremental build, `pkg/compiler/incremental.go`, `pkg/cli/incremental.go`, `pkg/codegen/module_split.go` | manifest, object files, runtime object, cached executables, output file | plan, replay, whole-assembly flow, split flow, link, store | kills and failures between steps, stale objects, alternating flows |
| Local registry and package cache, `pkg/pm/local_registry.go`, `flow.go`, `manager.go` | version directories, index file, cache directories with checksums | publish, fetch, forced fetch, clean | publishers racing through one temporary file, kills between file operations |
| Module loader, `pkg/module/module.go` | import graph, modules walked, in-degrees | walk, order, cycle report | cyclic imports, modules of several files |
| Workspace, `pkg/pm/workspace.go` | list of members, their manifests | add, remove, order | one directory under several spellings, cycles |
| Test runner, `pkg/cli/testing.go`, `codegen.go` | C file and executable shared by the tests of a file, a goroutine and a channel per test | write, compile, run, clean up, take the result, time out | goroutines that go on after their timeout |
| Back ends over one syntax: native, wasm, C over SSA | frame layout, live ranges, registers; locals and frames; blocks and passes | lay out, allocate, emit; lower, fold, simplify, remove, verify | values that must survive loops, calls and nested expressions; branch depths |
| Rest of the package manager, `pkg/pm` | manifest, lock file | resolve, lock, git and remote fetch | parsing and I/O |
| Borrow checker, `pkg/sema/borrow_checker.go` | stack of scopes with ownership per name, records of borrows, dead names | enter and leave scopes, declare, use, borrow, move | undoing borrows under shadowing, names of scopes that ended |
| Lexer, parser, rest of `pkg/sema` | position, token, scopes, ownership states | scan, parse, resolve, check | sequential |
| JIT, GPU and quantum code, binary encodings | emitted bytes and text | emit | sequential |
| Language server, `pkg/lsp` | open documents, shutdown flag | requests and notifications, one at a time | sequential |
| Self-hosted compiler, core C runtime, standard library | - | - | sequential |

## 2. Modules

| Module | Models | EXTENDS / uses |
|---|---|---|
| `FifoChannel` | what a C channel promises: a FIFO queue, each operation atomic | |
| `KarkainChannel` | `karkain_channel.c` with lock, condition variables, counters | instantiates `FifoChannel` |
| `KarkainChannelProofs` | theorems about `KarkainChannel` | `KarkainChannel`, `TLAPS` |
| `KarkainRuntime` | `karkain_scheduler.c` and `karkain_actor.c` composed | |
| `KarkainRuntimeProofs` | theorems about `KarkainRuntime` | `KarkainRuntime`, `TLAPS` |
| `GreenScheduler` | the Go scheduler of green threads | |
| `GreenSchedulerProofs` | theorems about `GreenScheduler` | `GreenScheduler`, `TLAPS` |
| `GoChannel` | the Go channel wrapper and `Select` | |
| `ActorSystem` | actors of the Go runtime on one node | |
| `ActorSystemProofs` | theorems about `ActorSystem` | `ActorSystem`, `TLAPS` |
| `NodeMesh` | connections between nodes | |
| `IncrementalBuild` | plan, flows, cache and store of the incremental build | |
| `PackageStore` | the local registry and a project's package cache | |
| `StoreProofs` | theorems about `PackageStore` and `IncrementalBuild` | the two, `TLAPS` |
| `MiniKarkain` | the programs the back ends are run on, and the interpreter that says what they mean | |
| `NativeBackend`, `WasmBackend`, `CBackend` | each back end as an operator from a program to its code, and the machine that executes it | `MiniKarkain` |
| `Backends` | a program, a back end, and the execution of its code | the three back ends |
| `ModuleGraph` | the import walk and the order of modules | |
| `ImportCycle` | `findCycle`, the report of an import cycle | `ModuleGraph` |
| `Workspace` | members of a workspace and their order | |
| `TestRunner` | the tests of one file | |
| `ToolProofs` | theorems about the tools of a compilation | `TestRunner`, `ModuleGraph`, `Workspace`, `TLAPS` |
| `GoroutineProofs` | theorems about Go channels and the mesh | `GoChannel`, `NodeMesh`, `TLAPS` |
| `BorrowChecker` | the borrow checker's walk over a program | |
| `BorrowCheckerProofs` | theorems about `BorrowChecker` | `BorrowChecker`, `TLAPS` |
| `MCGoRuntime` | `GreenScheduler`, `GoChannel` and `NodeMesh` in one run | the three |
| `MCStores` | `IncrementalBuild` and `PackageStore` in one run | the `MC` modules of the two |
| `MCTools` | `TestRunner`, `ModuleGraph`, `Workspace` and `BorrowChecker` in one run | the four, `ModuleGraph` through `ImportCycle` |
| other `MC*` | values of the constants for TLC | one per specification |

Definitions named `X_Something` after a comment "Mutant:" are plausible bugs of
definition `X`. They are used by no specification; replacing `X` by one of them
must break the property that `PROJECT.json` pairs it with, which shows that the
property depends on that code.

### FifoChannel and KarkainChannel

Every channel operation runs from `karkain_mutex_lock` to the unlock or to a
`karkain_cond_wait`, and each such stretch is one action. A condition variable
is the set of threads asleep on it; `phase` says whether a thread is outside,
about to take the lock, or in the wait loop. `Signal` wakes one member if the
waiter counter that guards the call is positive; `SpuriousWakeup` ends a wait
at any time. `fate` follows each payload from the caller to its receiver or to
the `free` that ends it. `Destroy` is `karkain_channel_destroy` as
`karkain_conc_finish` calls it, after the workers are gone.

`FifoChannel` has the same operations in one step each. The mapping is the
identity on the shared variables; the lock, the sets of sleepers and the
counters are the implementation's own.

### KarkainRuntime

Workers, the main thread and the program's use of the runtime. One action is
one critical section or one atomic access. A worker's position `wpc` follows
`karkain_worker_loop`: pop the local queue, steal from the others in turn, take
from the global queue, idle, run a task or drain an actor, then settle
`pending`. `call` is the runtime call any thread is in the middle of (spawn and
its push, send with count, append, undo and enqueue, stop and close, join).
What tasks, handlers and main do is left open: any operation of `TaskOps`,
`HandlerOps`, `MainOps`, at any time. The mailbox is an unbounded
channel, whose send and try_recv are single steps by the result for
`KarkainChannel`. `owed` is a history variable: the messages a drain has
delivered and not yet discounted.

### GreenScheduler

`Spawn` counts a thread and queues it in two steps, `Run` loops over pick and
idle, `executeThread` completes, fails, parks or requeues the current thread,
`UnblockThread` removes from `blocked` and appends to `runQueue` under separate
locks, and `Wait` reads the two lists one after the other. `Wakers` are
goroutines that send on a bound channel and unblock its thread.

### GoChannel

`Send` tests `closed` and, later, sends on the Go channel; `Close` sets the flag
and then closes the Go channel. The Go channel itself (rendezvous, buffer,
panic of a send on a closed channel) is external. Timers may fire at any time.

### ActorSystem and NodeMesh

`ActorSystem` is one node: senders test `closed` and deliver later, `runActor`
starts, takes, handles, and leaves through its polling exit, which looks at the
mailbox and at the flag in two steps (`PollEmpty`, `PollFlag`). `early` and
`window` are history variables: messages accepted before the shutdown began,
and messages accepted between an actor's last look at its mailbox and its exit.
`NodeMesh` is the table of peers: connecting, the receive loop of each
connection, heartbeats, leaves, expiry by `checkNodeHealth`, shutdown. Time is
an action `GrowStale`; links break with `Break`. `ID` is chosen initially for every
connection, and two of them may have the same: the identifier that `ConnectToNode`
gets is its caller's choice.

### IncrementalBuild

Hashes are the values they hash. A unit is what its object depends on: own
content, interfaces it sees, compiler key. Objects are files named after module
and content, executables after all contents - as in the code, without the key.
The build steps are `Begin` (plan and replay), `Whole` or `Runtime`,
`CompileModule`, `Link`, then `StoreArtifacts` twice and `Return`; `Fail` ends a
build at any step and may leave a half-written file. Users edit between builds.

Objects are named after content only, so one thing spoils the cache: files left
by a build that failed, or by a whole-assembly build (which stores a manifest for
objects it did not compile), together with a change of an interface or of the
compiler key. The history variable `past` remembers which of the two have
happened and `Trusted` says not both. `BuildCurrent` and
`ManifestSoundIfTrusted` are about trusted caches, and the run `stores` does not
go on from the others (its `CONSTRAINT`); `cache_poison` shows what happens there.

### PackageStore

One package, in the registry and in the cache of one project. Each publish
command is a process whose position `pub[p].pc` follows `PublishLocal`: the test
of the version directory (`Publish`), the rename of the staged tree (`Store`),
`ReadIndex`, and `writeLocalIndex` as open, write and rename of a temporary file
that has one name for all publishers. Files are inodes: `fd` says which name, if
any, the file a publisher has open goes by now. `cmd` is the project's command,
one at a time: `Fetch`, with or without the look at the cache, `Resolve`, `Copy`,
then the removal, entry by entry, of the old directory, `Promote` and
`WriteChecksumFile`; `Clean` is one directory of `CleanCache`. Kills fit between
any two steps, and also stand for I/O errors there. A stored tree may change on
disk (`Damage`), though not in the middle of a copy. Versions are numbers, and
which versions a requirement admits and what its cache directory is called are
constants: semantic versions and the renaming of characters are not modelled.
`overlap` and `torn` are history variables.

### Back ends

`MiniKarkain` has integers, `+` and `<`, variables, calls, `if`, `while`, `for`,
`for-in`, `break`, `continue`, `print` and `return`, and an interpreter
(`Reference`), which is the specification. Each back end is translated operator
by operator:

- `NativeBackend`: `scanLets` and `layout` give the frame; `walkStmts` numbers the
  points of a function, `liveRanges` and `holds` give the ranges, `assign` is the
  linear scan; `emit...` are the emitters of the same names. Its machine has
  registers, the frame, the stack of pushed registers and that of calls;
  uninitialised registers and slots hold `Junk`.
- `WasmBackend`: `allocLocals` and `lookup` are the scopes, `distance` is what
  `genBreak` and `genContinue` compute from the frames open at emission; integers
  are tagged. Its machine finds the end of the block a branch names by counting.
- `CBackend`: `lowerStmts` builds blocks, `FoldConstPass`, `SimplifyCFGPass` and
  `DCESimplePass` transform them in that order, and `emitFunctionViaIR` falls back
  to the older generator when `Verify` fails. Registers and cells are C
  variables; a raw C statement does what the source statement means.
  `algebraicSimplify` never applies: every lowered operation has type `Value`.

`Backends` picks a program and a target, and `Run` executes a stretch of the
code. The register set and the depth of the scratch stack are constants, smaller
than the code's four and sixty-four so that small programs fill them.

### ModuleGraph, Workspace, TestRunner

`ModuleGraph` keeps the recursion of `walk` as an explicit stack: `WalkFile` enters
a file of the module being loaded, `FollowImport` handles one import,
`WalkReturns` pops; then `topoOrder` pops the smallest module nothing imports.
A file's imports are a set, followed in any order, which includes the order in which
the file declares them. All import graphs over the modules on disk are initial
states. `ImportCycle` adds `findCycle`, which is recursive, in a module of its own so
that the proofs do not reach it. `Workspace` has
the members as written (`<<directory, spelling>>`) and computes the order in the
same way. `TestRunner` has a goroutine per test that writes the C file, compiles,
runs and removes the executable; `cfile` and `exe` say whose program the two
shared files hold. The timer may fire once the program has been started: the
compiler's own limit (10 s) is shorter than that of the test.

### BorrowChecker

`checkNode` walks a syntax tree; the model walks any tree. Each action is the node
the walk meets next: a construct that opens scopes (`EnterFunction`, `EnterBlock`,
`EnterArm`, `EnterLoop` with its two scopes, `EnterFor` and `ForBody`), the end of
one (`popScope`), a declaration, or a use, borrow or move of a name. `own[d]` is
`vars` of the d-th open scope, `borrows[d]` its records with the declaring scope,
`dead[d]` its dead names. Three history variables say what the checker should
know: `loans` has the borrows of scopes still open, `gone` the bindings that were
moved, `ended` the names of blocks that ended in a function. `DiagnosticsExact`
compares the two for whatever name is used next.

## 3. Runs

All runs are exhaustive for their constants. Deadlock is checked in
`stores`; elsewhere a program may simply stop calling the runtime.

Three runs hold several unrelated specifications: a behaviour picks one of them in
its initial state and the others stay where they began. What is checked is the
same as in a run for each.

| Run | Checks | Bounds |
|---|---|---|
| `channel` | waiter counts, no lost wakeup, payload ownership; implements `FifoChannel` (capacity and order included) with its progress | 4 threads, 3 messages, capacities -1 (unbounded), 0, 1, 2 |
| `runtime` | `pending` exact, shutdown complete, sleepers woken, each run in one place (so one handler at a time), no stranded message; finish returns unless an actor was stopped | 2 workers, main, 1 task, 1 actor, 2 messages |
| `runtime_stop_race` | violation: finish returns | as above, 1 message |
| `goruntime` | scheduler: each live thread in one place, counts exact, Run returns only when done or stopped, every thread completes unless stopped; channel: FIFO without loss or duplicate, truthful answers; mesh: unregistered connections are closed, silent nodes are removed, loops end | 3 threads, 2 priorities, 2 bound, 1 waker, 1 yield; 3 goroutines, 2 values, sizes -1, 0, 1, 2; 2 connections, 2 identifiers, equal or not |
| `gochannel_closed` | violation: no send panics | 2 goroutines |
| `actors` | accepted messages are somewhere, only the polling window loses any; shutdown stops the actor | 1 actor, 4 messages, mailbox of 2 |
| `stores` | builds: a build leaves what a clean build would, manifest sound, no-op replays, with failures and kills at any step and both flows; packages: published versions immutable, index sound, success listed unless publishers overlapped, cache whole, fetched versions admitted | 2 modules, 3 + 2 contents, 2 interfaces, 2 keys, trusted caches; 3 publish commands, 2 versions, 3 requirements of which 2 share a directory |
| `cache_poison` | violation: manifest sound | 2 modules, failures |
| `backends` | native, wasm and C code print what the program means and stop | the programs of `MCBackends`, which combine loop bodies, jumps, nested expressions and calls |
| `backends_widening` | violation: live ranges are wide enough for every loop | the same, for-in loops included |
| `tools` | loader: the order is sound, cycles are reported truly, imports are followed; workspace: the order is sound; tests: verdicts are exact, the runner and late goroutines end; borrow checker: reports are exact, dead names are a function's own | 3 modules on disk, one of two files; 3 directories, 2 spellings; 3 tests; 1 name, 3 open scopes, 2 open borrows |
| `borrow_ended` | violation: names of blocks that ended are reported | 1 name, 4 open scopes |

Why the bounds are enough to make the cases happen: a lost wakeup needs two
sleepers and a third thread that takes what one was woken for (four threads,
three messages). In the scheduler each race is between two workers or a worker
and main over one actor, and the re-check after a drain needs a second message.
The polling window needs a message accepted before, one inside and one after.
Stale objects need an interface that changes and changes back, hence three
contents of the library. Two publishers race for one version and a third
overlaps them with another. Publishers are interchangeable, so `stores` uses
symmetry; no run that checks liveness does. The programs of `backends` are built
to have more live values than registers, jumps out of nested frames and constant
branches on both sides. A late goroutine harms the next test or the one after,
hence three tests. No operation of the borrow checker relates two names, so one
name shows every case; a binding borrowed twice from an inner scope, and one that
shadows another, need the program's scope and two more.

### Fairness

Threads that can take a step take one in the end: weak fairness for every
worker and every step after a call, for `Run`, the actor goroutines and the
receive loops. This is what the operating system and the Go scheduler give. Calls
the program may or may not make have no fairness. The program's own part is
assumed to end: tasks and handlers return and main calls `karkain_conc_finish`
(strongly fair, since calls they make in between disable the return for a while). A channel lock is handed out fairly
enough that a thread which can proceed does; `FifoChannel` promises progress of
*some* waiting sender and receiver, since the code wakes no particular one. In
`NodeMesh` the error of `Decode` is strongly fair: a closed connection has
finitely many messages left. In `GreenScheduler` a bound channel gets its value
in the end and the waker acts; without that a parked thread never returns, by
design. In `TestRunner` the goroutines are scheduled and the runner's `select` takes
a channel that is ready (the result or the timer); a program that hangs has no
fairness.

## 4. Where code and documentation disagree

Each of these has a run whose property TLC refutes and a finding in
`PROJECT.json`.

- **`runtime_stop_race`.** An actor stopped between a send's append and its
  enqueue keeps a counted message that nothing drains: `wait_all` and `finish`
  never return, although `karkain_conc.h` promises deterministic shutdown.
- **`gochannel_closed`.** `Close` between `Send`'s test and its send makes the
  sender panic where the comment says it returns false.
- **`cache_poison`.** Objects are compiled in place before the manifest changes;
  a failed build can leave the old manifest vouching for another object.
- **`backends_widening`.** Live ranges are not widened over `for-in` loops, nor for
  names that only the post clause of a `for` mentions; the comment says that the
  ranges can never cause a wrong answer.
- **`borrow_ended`.** Names of a scope are marked dead in its parent only, and the
  mark goes with the parent: a name of a loop's body, which has two scopes, is used
  after the loop without a report, while the phase document says it is diagnosed.

Others were met while modelling and have no run of their own. The properties
above are stated so that they say exactly what does hold next to them:

- `coroutine.go:720`: two `UnblockThread` calls for one thread queue it twice;
  `activeThreads` is then decremented twice (`ActiveExact` holds with one waker).
- `coroutine.go:794`: `Wait` returns true while a thread executes, because it is
  in neither list then.
- `actor_system.go:284`: a message accepted before a shutdown, inside the polling
  window, is not handled (`OnlyWindowIsLost` says that no other is lost).
- `actor_system.go:234`: an actor spawned after the system's shutdown is never
  told to stop.
- `actor_system.go:541`: a node whose link broke is marked dead by its receive
  loop and is then skipped by the expiry (`SilentRemoved` excepts it).
- `actor_system.go:433`: a second connection under one identifier replaces the
  first in the table and leaves it open, and the leave of the first removes the
  second (`UnregisteredIsClosed` excepts identifiers used twice).
- `karkain_scheduler.c:345`: an idle worker looks at the global queue only.
- `karkain_scheduler.c:405`: a run entry can remain queued, unfreed, at finish.
- `cli/incremental.go:327`: the whole-assembly flow records a new compiler key
  without compiling objects, which the split flow then reuses: a wrong executable
  without any failure (`Trusted` excludes it).
- `compiler/incremental.go:381`: only direct imports are compared, while a unit
  contains the declarations of the whole program.
- `cli/incremental.go:392`: when a file is deleted every remaining module is
  reused and nothing is linked; the old executable is stored for the new project,
  while `compiler/incremental.go:323` says removing a file forces a rebuild
  (`Removable` names the modules that may be deleted, none in the runs).
- `flow.go:189`: a kill inside `RemoveAll` can leave part of a tree without
  `.checksum`, which `CachedValid` accepts; `manager.go:371` says that no corrupt
  package is left marked as valid (`CacheSound` excepts these directories).
- `source.go:118`: `^1.0.0` and `~1.0.0` have one cache directory, so a hit may be
  a version that the requirement does not admit (`FetchSatisfies` allows it).
- `local_registry.go:498`: two publishers that overlap can lose a version from the
  index or garble it (`ListedUnlessOverlap`).
- `local_registry.go:495`: a publisher killed after the rename leaves a version
  that is stored, not listed, and refused when published again.
- `native/program.go:4841`: a parameter is stored to its slot, but read from its
  register if the allocator gave its name one (`ParamInRegister`).
- `native/program.go:5549`: the variable of a `for-in` is stored to its slot and read
  from its register in the same way (`ForInWithRegisters`).
- `native/program.go:6848`: a call in a second or later argument uses the spill
  units that hold the earlier arguments (`CallInLaterArg`).
- `wasm/backend.go:495`: `continue` in a `for` or `for-in` misses the post clause or the
  increment, so the loop does not advance (`WasmKnown`), while
  `docs/language-foundation.md:35` lists `continue` as supported.
- `module/module.go:219`: the imports of the second and later files of a module are
  neither followed nor recorded, while the comment of the field says "all import
  edges" (`ImportsComplete` speaks of first files).
- `pm/workspace.go:161`: the report of a cycle also names members that only depend
  on one, while the comment says that they are part of one.
- `cli/testing.go:150`: a test that times out is not terminated, although
  `docs/audit/PHASE-86-FINAL-REPORT.md:22` says so; its goroutine may remove the
  executable of a later test, which then fails (`VerdictExact` says that this is the
  only way a test gets a verdict that is not its own).
- `sema/borrow_checker.go:511`: a move in the body of a loop is accepted, although the
  next iteration moves the value again: the body is walked once.
- `flow.go:12`: the lock records the declared requirement, and `FetchLocked`
  resolves it again, while its comment says "without re-resolving".

## 5. Proofs

### Channel

`KarkainChannelProofs` proves, for any finite set of threads, any messages and
any capacities:

| Theorem | Says |
|---|---|
| `ChannelTypeOK` | type correctness |
| `ChannelWaiterCounts` | the two counters equal the number of threads in the wait loops |
| `ChannelNoLostWakeup` | no thread sleeps beside a condition that holds unless another was woken for it |
| `ChannelCapacity` | a bounded channel holds at most its capacity |
| `ChannelPayloadOwnership` | each payload has exactly one owner |
| `ChannelImplementsFifo` | the safety part of `FifoChannel` is implemented |

Assumptions: `ChannelAssumption` (finitely many threads, `NoMsg` is no message,
capacities are integers).

The inductive invariant is `WInv`: types, `CallShape` (which call, phase and
message go together) and `WaiterCounts`. `WaiterCounts` alone is not inductive: that a
signal is sent only when the counter is positive is harmless only because every
sleeper is counted, and that needs the shape of calls. `NoLostWakeup` is then
inductive relative to `WInv`: an append or pop adds one unit of work and wakes
one sleeper (`AppendWakes`, `PopWakes`), and a woken thread that goes back to
sleep found its condition false. Counting uses the cardinality theorems of the
library (`WokenCount`, `SleeperCounted`). Ownership is inductive relative to
`WInv`, because two threads never offer one message. The refinement maps every
step to the abstract step of the same name or to a stutter.

### C scheduler, tasks and actors

`KarkainRuntimeProofs` proves, for any number of workers, tasks, actors and messages
and for any program (`RuntimeAssumption`: finite sets, at least one worker, the kinds
disjoint, and `wait_all` called by the main thread only), the five safety properties of the run `runtime`:

| Theorem | Says |
|---|---|
| `RunsHaveOnePlace` | an actor is in one place exactly while `queued` is set, a task in one at most (`RunOnce`) |
| `PendingIsExact` | `pending` counts what is accepted and not discounted (`PendingExact`) |
| `MessagesAreAttended` | no message of a running actor is left without a thread that will look (`NoStrandedMessage`) |
| `SleepersAreWoken` | nobody sleeps in `wait_all`, `finish` or `join` on what has happened, without a broadcast on its way (`SleepersWoken`) |
| `ShutdownIsComplete` | once `finish` saw zero, all work is done and no worker is in user code (`ShutdownComplete`) |

None of them is inductive. `RuntimeInv` has five layers, each inductive relative to
the ones before it:

- `ShapeInv`: types, and what a call or a worker at a given position is about. It
  carries the one fact about control that everything else needs: a worker calls the
  runtime only from user code, or to enqueue its actor again (`CallerInv`).
- `RunInv`: every task or actor is on one queue, about to be pushed by one thread, or
  executed by one worker, in one of these at most (`Once`), and `queued` and the
  task's state say which (`Known`). Every action moves a run from place to place, and
  the lemmas of this layer say what a push, a pop and a steal do to all the places.
- `MsgInv`: a message is with its sender, in one mailbox, in one worker's hand or in
  one worker's debt (`owed`), and its fate says which (`Placed`).
- `CareInv`: `NoStrandedMessage`, and that a joiner asleep on a finished task has a
  worker about to signal (`JoinersWoken`).
- `CountInv`: `pending` is the size of `Counted`, `delivered` that of `owed` (`Dues`),
  `finish` past its wait means zero (`ShutMain`), and a waiter asleep on zero has a
  worker about to broadcast (`WaitersWoken`). That `pending` stays zero after
  the wait rests on `UserCodeCounted`: only user code can add work, and a worker in
  user code runs something that is still counted.

`RunOnce` counts the members of a set of places (`Holders`); `OneHolder` derives the
count from `Once` and `Known`.

### Green threads

`GreenSchedulerProofs` proves `ThreadsInOnePlace` (`InOnePlace`), `ActiveThreadsExact`
(`ActiveExact`) and `RunReturnsInTime` (`RunReturnsWhenDone`, an action property), for any
threads, priorities and bound channels (`GreenAssumption`). The hypothesis `OneWaker` -
one goroutine calls `UnblockThread` - is what section 4 says about `coroutine.go:720`:
with two the statements are false. `GreenInv` says that the two lists have no
duplicates and that a thread is alive exactly if it is on one of them, in `Run`'s hand,
between `Spawn`'s two steps, or between `UnblockThread`'s two (`Single`), and that what a
waker is about to take off the blocked list is still there (`HandsInv`). `CutOn` and
`AppendOn` say what the slice operations of the code do to such lists, and `BestSlot`
that the choice by priority is a position of the queue.

### Incremental build

`StoreProofs` proves, for any modules, contents, interfaces, imports and
compiler keys (`BuildAssumption`, `NilAssumption`), `NoopIsReplayed` (`NoopReplays`) without
further conditions, and `BuildIsCurrent` (`BuildCurrent`) and `ManifestIsSound`
(`ManifestSoundIfTrusted`) under two hypotheses, `NothingDeleted` and `DirectUses` (units
depend on the interfaces of direct imports). Without either one the statements are
false, as section 4 says; the run `stores` makes both true. A trusted cache is one of
two kinds, and the invariant `BuildInv` has a part for each. In a steady one
(`SteadyInv`) neither interfaces nor key have changed, so an object of a given content is
the right one or unfinished, and what matters is that the manifest never stands for an
unfinished one. In an unspoiled one (`EndedInv`) every build ended, so whatever the
manifest stands for was compiled against the interfaces it records, and a reused
object is right because none of these has changed.

### Package store

`StoreProofs` proves, for any publish commands, versions, requirements
and cache directories:

| Theorem | Says |
|---|---|
| `StoreTypes` | type correctness |
| `PublishedIsImmutable` | no step replaces or removes a published version |
| `IndexIsSound` | the index lists only stored versions |
| `FetchIsAdmitted` | a successful fetch leaves a published version that a requirement of the directory admits |
| `CacheIsSound` | the cache accepts only whole trees, outside an unfinished `RemoveAll` |
| `ListedWithoutOverlap` | what was published is listed, as long as publishers did not overlap (`ListedUnlessOverlap`) |

Assumptions: `StoreAssumption` (versions are numbers, `None` is neither a
publisher nor a requirement, every requirement has its versions and directory).

`IndexSound` alone is not inductive, because a list reaches the index through a
publisher's memory and the temporary file. `RegistryInv` adds that all of these
hold stored versions (`ListsStored`) and that a publisher about to list has
stored (`HasVersion`). `ProjectInv` adds what the command has chosen
(`CommandInv`) and what each directory holds (`CacheInv`). It is inductive
relative to `RegistryInv`, and rests on `StoredGrows`: what is published stays.
`ListedWithoutOverlap` is by itself: `SoleWriter` says that as long as nothing has
overlapped, at most one publisher is between its read of the index and the rename,
and that its list has everything the index has and its own version.

### Go channels

`GoroutineProofs` proves, for any finite sets of goroutines and values, any sizes
and any choice of the operations (`GoChannelAssumption`), that delivery is FIFO
without loss or duplicate (`DeliveryIsFifo`, about `FifoExact`) and that senders
are told the truth (`SendersAreTold`, about `AnswerTruthful`). Neither is inductive:
a value may be appended only because it has never been appended before. `ChanInv`
adds `Hands`: a goroutine holds a value exactly while its call may still send it,
nobody else holds it, and it is not in the history. A transfer is the only step
that touches both the history and a hand (`TransferFacts`); every other step is an
instance of `Quiet` or `ReturnFalseKeeps`.

### Actors

`ActorSystemProofs` proves, for any actors, any messages and any mailbox size
(`ActorAssumption`), that a stopped actor has settled what was accepted before its
shutdown, but for the polling window (`ShutdownIsGraceful`, about
`OnlyWindowIsLost`), and that an accepted message is at its actor's hand or exactly
once in its mailbox (`AcceptedInOnePlace`, about `AcceptedIsSomewhere`). The inductive
invariant `ActorInv` adds where messages are (`BoxSound`,
`HandSound`, `MsgSound`) and what their order in a mailbox says about time
(`ShutSound`): what is behind the shutdown message came after the flag was set, and
what an actor that saw an empty mailbox finds there now came in the window. These
two facts are why both ways for an actor to stop lose nothing else.

### Node mesh

`GoroutineProofs` proves `TableAndConnectionsAgree`, about `UnregisteredIsClosed`, for
any connections and identifiers (`MeshAssumption`). `MeshInv` adds that an entry is
under its connection's own identifier (`TableSound`) and that the handler of a leave
has closed the connection before it deletes the entry (`LoopSound`).

### Test runner

`ToolProofs` proves `VerdictsAreExact`, about `VerdictExact`, for any number of
tests. `RunnerInv` adds that only the test the runner is at can be before the start
of its program (`Progress`), so that the C file and the executable are its own until
then or were removed by a goroutine whose test had timed out (`FilesOwned`), and that
a goroutine reports what its own program did (`Honest`).

### Import resolution

`ToolProofs` proves, for any finite set of modules on disk, any number of files per
module and any imports (`ModuleAssumption`):

| Theorem | Says |
|---|---|
| `ImportsAreComplete` | the first file of every module reached has all its imports in the graph, and each of these was walked too (`ImportsComplete`) |
| `OrderIsExact` | an accepted graph is ordered, each module once and after all it imports; a refused one has a nonempty set of modules each imported from within the set, so that no order exists (`OrderExact`) |

`ImportsComplete` speaks of the end of the walk; `WalkInv` says how much is known
before it. An import of a walked module's first file is left in a frame, or it is an
edge and its target is walked or about to be entered by a frame (`Followed`); and a
frame enters a module that was not walked with its first file (`Entering`). When the
stack is empty only edges to walked modules remain. `TopoInv` says of `topoOrder` that
an in-degree counts the edges whose importer was not popped (`Waiting`), that the queue
has exactly the modules not popped that wait for none, and that a module is popped
once and after its importers (`ImportersFirst`). If the queue is empty and some module
was not popped, each such module waits for one that was not popped either, which is
the set `OrderExact` asks for.

### Workspace

`ToolProofs` proves `WorkspaceIsOrdered`, about `WorkspaceOrderSound`, for any finite
set of directories and any members and dependencies (`WorkspaceAssumption`). `OrderInv`
says that members are emitted once and after their dependencies (`Sorted`), that
`doneDeps` counts the dependencies not emitted, and that the queue is the members that
wait for none (`Ready`). That an order is found only if there is no cycle is
`FirstIndependent`: in any set of emitted members, the one emitted first depends on
none of the others.

### Borrow checker

`BorrowCheckerProofs` proves, for any names, any depth of scopes and any number of
borrows (`BorrowAssumption`), `DiagnosticsAreExact` (about `DiagnosticsExact`) and
`DeadNamesStayLocal` (about `DeadNamesLocal`). The first is not inductive: that leaving
a scope restores a binding depends on the records the scope holds. `BorrowInv` adds
`Undoes`: an open scope has a record of an outer binding exactly if it borrowed it,
and the first of them says how the binding stood before that scope borrowed anything.
`PopKeeps` is then the heart of the proof: undoing the records from the last to the
first ends at that one. `DeadInv` adds that a dead name ended in the innermost
function around the scope that holds the mark.

### Only model-checked

Every liveness property (progress of the channel under fairness included): the
prover has no `ENABLED`. The back ends, and that the cycle `findCycle` names is one
(the second part of `OrderSound`): they are recursive operators over programs and
graphs, and what such an operator computes takes induction over data.

## 6. Not modelled, and why

The back ends are modelled for integers and control flow; strings, floats,
arrays, maps and structs are data to them, and encodings are tables. Integers of
the programs are small: the widths of the back ends differ (63 tagged bits in
wasm, 64 native) and a program that overflows is outside what is compared.
Names of different scopes are distinct, so shadowing is not compared. The C
compiler, the processor and the WebAssembly engine are trusted. Numeric kernels
and text emission have no state that outlives a call. Time is nondeterministic:
timeouts may fire at any moment (in `TestRunner`, once the program runs), so
nothing is said about durations. Memory exhaustion is modelled in the channel's
send only. Two builds at once, edits during a build, deleted source files, and
two package commands at once in one project are not modelled. The borrow
checker's linear types, usage counts and exhaustive matches are rules about types,
and the model has none. Actor state
(`get_state`, `set_state`) is a locked pointer swap. The language server handles
one message at a time and keeps a map of documents: nothing in it can interleave.
`PROJECT.json` gives the reason for each component left out.

## 7. What is left

- Two package commands at once in one project, and the lock file against
  resolution: the model has one command at a time.
- `ActorSystem` and `NodeMesh` composed: a remote message is already an input of
  `ActorSystem`, and the mesh only drops or delivers it.
- Proofs that the back ends are correct for every program and that `findCycle` names
  a cycle of every graph: they are recursive operators, which are out of the prover's
  reach.
