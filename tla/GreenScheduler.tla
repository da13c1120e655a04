--------------------------- MODULE GreenScheduler ---------------------------
(***************************************************************************)
(* The green-thread scheduler of pkg/runtime/coroutine.go: Scheduler.Spawn,*)
(* Run, executeThread, UnblockThread, Stop and Wait, and Coroutine.Resume. *)
(*                                                                         *)
(* Run is one goroutine; spawning, unblocking, stopping and waiting happen *)
(* on others.  Each action is one critical section or atomic access.  The  *)
(* body of a coroutine may fail, finish or yield, at most MaxYields times. *)
(***************************************************************************)
EXTENDS Integers, Sequences, FiniteSetsExt

CONSTANTS
  Threads, None,
  Bound,              \* threads bound to a channel (BindChannel)
  Wakers,             \* goroutines that call UnblockThread
  Priority,           \* [Threads -> Int]
  MaxGreenThreads, MaxYields,
  MayStop             \* whether the program calls Stop

ASSUME GreenAssumption ==
  /\ IsFiniteSet(Threads) /\ None \notin Threads /\ Bound \subseteq Threads
  /\ Priority \in [Threads -> Int]
  /\ MaxGreenThreads \in Nat \ {0} /\ MaxYields \in Nat /\ MayStop \in BOOLEAN

VARIABLES
  runQueue, blocked,  \* the scheduler's two lists
  activeThreads, totalCompleted, totalFailed,
  state,              \* Coroutine.State, "none" before Spawn
  yields,             \* times each body has yielded
  ready,              \* gt.channel.Len() > 0
  rpc, cur,           \* Run's position, and the thread it executes
  spawning,           \* thread Spawn has counted and not yet queued
  stopCh,             \* closed by Stop
  waking,             \* position and thread of each UnblockThread call
  wait                \* Wait's position: "off", "rq" (queue seen empty), "true"

lists == <<runQueue, blocked>>
counters == <<activeThreads, totalCompleted, totalFailed>>
bodies == <<state, yields, ready>>
runner == <<rpc, cur>>
others == <<spawning, stopCh, waking, wait>>
vars == <<lists, counters, bodies, runner, others>>

Spawned == {t \in Threads : state[t] # "none"}
Done == {t \in Threads : state[t] \in {"completed", "failed"}}
Live == Spawned \ Done
NotWaking == [pc |-> "off", t |-> None]

Init ==
  /\ runQueue = <<>> /\ blocked = <<>>
  /\ activeThreads = 0 /\ totalCompleted = 0 /\ totalFailed = 0
  /\ state = [t \in Threads |-> "none"] /\ yields = [t \in Threads |-> 0]
  /\ ready = [t \in Threads |-> FALSE]
  /\ rpc = "off" /\ cur = None
  /\ spawning = None /\ stopCh = FALSE
  /\ waking = [w \in Wakers |-> NotWaking] /\ wait = "off"

-----------------------------------------------------------------------------
(* Spawn holds threadMu throughout: counted first, queued next.  Past      *)
(* MaxGreenThreads, which counts finished threads too, it returns nil.     *)
SpawnCount(t) ==
  /\ spawning = None /\ state[t] = "none"
  /\ Cardinality(Spawned) < MaxGreenThreads
  /\ state' = [state EXCEPT ![t] = "created"]
  /\ activeThreads' = activeThreads + 1
  /\ spawning' = t
  /\ UNCHANGED <<lists, totalCompleted, totalFailed, yields, ready, runner, stopCh, waking, wait>>

SpawnQueue ==
  /\ spawning # None
  /\ runQueue' = Append(runQueue, spawning)
  /\ spawning' = None
  /\ UNCHANGED <<blocked, counters, bodies, runner, stopCh, waking, wait>>

-----------------------------------------------------------------------------
(* Run                                                                     *)
RunStart ==
  /\ rpc = "off" /\ rpc' = "loop"
  /\ UNCHANGED <<lists, counters, bodies, cur, others>>

RunLoop ==
  /\ rpc = "loop" /\ rpc' = IF stopCh THEN "off" ELSE "pick"
  /\ UNCHANGED <<lists, counters, bodies, cur, others>>

\* Index of the first thread of highest priority.
best(q) ==
  CHOOSE i \in DOMAIN q : \A j \in DOMAIN q :
    \/ Priority[q[j]] < Priority[q[i]]
    \/ Priority[q[j]] = Priority[q[i]] /\ i <= j

\* append(q[:i], q[i+1:]...)
cut(q, i) == SubSeq(q, 1, i - 1) \o SubSeq(q, i + 1, Len(q))

RunPick ==
  /\ rpc = "pick"
  /\ \/ /\ runQueue = <<>>
        /\ rpc' = "idle"
        /\ UNCHANGED <<runQueue, cur>>
     \/ /\ runQueue # <<>>
        /\ cur' = runQueue[best(runQueue)]
        /\ runQueue' = cut(runQueue, best(runQueue))
        /\ rpc' = "exec"
  /\ UNCHANGED <<blocked, counters, bodies, others>>

\* Mutant: Run returns as soon as nothing is runnable or blocked.
RunIdle_NoActive ==
  /\ rpc = "idle" /\ rpc' = IF blocked = <<>> THEN "off" ELSE "loop"
  /\ UNCHANGED <<lists, counters, bodies, cur, others>>

RunIdle ==
  /\ rpc = "idle" /\ rpc' = IF activeThreads = 0 THEN "off" ELSE "loop"
  /\ UNCHANGED <<lists, counters, bodies, cur, others>>

(* executeThread.  Resume of a coroutine that is done runs no body, but    *)
(* reports "not alive" and its error again, and that is counted again.     *)
\* Mutant: a failed thread is not taken off the active ones.
Finish_FailedActive(o) ==
  /\ state' = [state EXCEPT ![cur] = o]
  /\ activeThreads' = activeThreads - (IF o = "completed" THEN 1 ELSE 0)
  /\ totalCompleted' = totalCompleted + (IF o = "completed" THEN 1 ELSE 0)
  /\ totalFailed' = totalFailed + (IF o = "failed" THEN 1 ELSE 0)
  /\ rpc' = "loop" /\ cur' = None
  /\ UNCHANGED <<yields, ready>>

Finish(o) ==
  /\ state' = [state EXCEPT ![cur] = o]
  /\ activeThreads' = activeThreads - 1
  /\ totalCompleted' = totalCompleted + (IF o = "completed" THEN 1 ELSE 0)
  /\ totalFailed' = totalFailed + (IF o = "failed" THEN 1 ELSE 0)
  /\ rpc' = "loop" /\ cur' = None
  /\ UNCHANGED <<yields, ready>>

\* The body yields, and may have taken the value of its channel.
Yield ==
  /\ cur \notin Done /\ yields[cur] < MaxYields
  /\ state' = [state EXCEPT ![cur] = "suspended"]
  /\ yields' = [yields EXCEPT ![cur] = @ + 1]
  /\ \E left \in {ready[cur], FALSE} : ready' = [ready EXCEPT ![cur] = left]
  /\ rpc' = "suspended"
  /\ UNCHANGED <<counters, cur>>

Execute ==
  /\ rpc = "exec"
  /\ \/ \E o \in {"completed", "failed"} : (cur \in Done => o = state[cur]) /\ Finish(o)
     \/ Yield
  /\ UNCHANGED <<lists, others>>

\* The channel is looked at now, the list is changed later.
Suspended ==
  /\ rpc = "suspended"
  /\ rpc' = IF cur \in Bound /\ ~ready[cur] THEN "block" ELSE "requeue"
  /\ UNCHANGED <<lists, counters, bodies, cur, others>>

Requeue ==
  /\ \/ rpc = "block" /\ blocked' = Append(blocked, cur) /\ UNCHANGED runQueue
     \/ rpc = "requeue" /\ runQueue' = Append(runQueue, cur) /\ UNCHANGED blocked
  /\ rpc' = "loop" /\ cur' = None
  /\ UNCHANGED <<counters, bodies, others>>

-----------------------------------------------------------------------------
\* Someone sends on the channel a thread is bound to.
Deliver(t) ==
  /\ t \in Bound /\ ~ready[t]
  /\ ready' = [ready EXCEPT ![t] = TRUE]
  /\ UNCHANGED <<lists, counters, state, yields, runner, others>>

(* UnblockThread, for a thread seen on the blocked list: off that list if  *)
(* it is still there, then onto the run queue in any case.                 *)
CallUnblock(w, t) ==
  /\ waking[w] = NotWaking /\ t \in Range(blocked) /\ ready[t]
  /\ waking' = [waking EXCEPT ![w] = [pc |-> "remove", t |-> t]]
  /\ UNCHANGED <<lists, counters, bodies, runner, spawning, stopCh, wait>>

UnblockRemove(w) ==
  /\ waking[w].pc = "remove"
  /\ LET at == {i \in DOMAIN blocked : blocked[i] = waking[w].t}
     IN blocked' = IF at = {} THEN blocked ELSE cut(blocked, Min(at))
  /\ waking' = [waking EXCEPT ![w].pc = "append"]
  /\ UNCHANGED <<runQueue, counters, bodies, runner, spawning, stopCh, wait>>

\* Mutant: an unblocked thread is forgotten when the run queue is empty.
UnblockAppend_DropWhenEmpty(w) ==
  /\ waking[w].pc = "append"
  /\ runQueue' = IF runQueue = <<>> THEN <<>> ELSE Append(runQueue, waking[w].t)
  /\ waking' = [waking EXCEPT ![w] = NotWaking]
  /\ UNCHANGED <<blocked, counters, bodies, runner, spawning, stopCh, wait>>

UnblockAppend(w) ==
  /\ waking[w].pc = "append"
  /\ runQueue' = Append(runQueue, waking[w].t)
  /\ waking' = [waking EXCEPT ![w] = NotWaking]
  /\ UNCHANGED <<blocked, counters, bodies, runner, spawning, stopCh, wait>>

Stop ==
  /\ MayStop /\ ~stopCh /\ stopCh' = TRUE
  /\ UNCHANGED <<lists, counters, bodies, runner, spawning, waking, wait>>

(* Wait: the run queue, then the blocked list, each under its own lock;    *)
(* it starts over while one has a thread.                                  *)
WaitRunQueue ==
  /\ wait = "off" /\ Spawned # {} /\ runQueue = <<>>
  /\ wait' = "rq"
  /\ UNCHANGED <<lists, counters, bodies, runner, spawning, stopCh, waking>>

WaitBlocked ==
  /\ wait = "rq"
  /\ wait' = IF blocked = <<>> THEN "true" ELSE "off"
  /\ UNCHANGED <<lists, counters, bodies, runner, spawning, stopCh, waking>>

WaitDone ==
  /\ wait = "true" /\ wait' = "off"
  /\ UNCHANGED <<lists, counters, bodies, runner, spawning, stopCh, waking>>

-----------------------------------------------------------------------------
RunStep ==
  RunStart \/ RunLoop \/ RunPick \/ RunIdle \/ Execute \/ Suspended \/ Requeue

WakerStep(w) ==
  (\E t \in Threads : CallUnblock(w, t)) \/ UnblockRemove(w) \/ UnblockAppend(w)

Next ==
  \/ \E t \in Threads : SpawnCount(t) \/ Deliver(t)
  \/ SpawnQueue \/ Stop
  \/ RunStep
  \/ \E w \in Wakers : WakerStep(w)
  \/ WaitRunQueue \/ WaitBlocked \/ WaitDone

Spec == Init /\ [][Next]_vars

(* Goroutines are scheduled, a bound channel gets a value in the end and   *)
(* whoever sends it unblocks the thread.                                   *)
SchedulerFair ==
  /\ WF_vars(RunStep) /\ WF_vars(SpawnQueue)
  /\ \A w \in Wakers : WF_vars(WakerStep(w))
  /\ \A t \in Threads : WF_vars(Deliver(t))

FairSpec == Spec /\ SchedulerFair

-----------------------------------------------------------------------------
\* The number of places a thread is in: list slots, Run, Spawn, a waker.
Occurrences(q, t) == Cardinality({i \in DOMAIN q : q[i] = t})
Places(t) ==
  Occurrences(runQueue, t) + Occurrences(blocked, t)
    + (IF cur = t THEN 1 ELSE 0) + (IF spawning = t THEN 1 ELSE 0)
    + Cardinality({w \in Wakers : waking[w] = [pc |-> "append", t |-> t]})

\* A thread that is not done is in exactly one place between Spawn, Run,
\* executeThread and UnblockThread, and one that is done in none: no thread
\* is lost and none runs twice, with one waker.
InOnePlace == \A t \in Threads : Places(t) = IF t \in Live THEN 1 ELSE 0

\* "threads still alive" (activeThreads), and the two totals count the rest.
ActiveExact ==
  /\ activeThreads = Cardinality(Live)
  /\ totalCompleted + totalFailed = Cardinality(Done)

\* "Run executes the scheduler until all threads complete or Stop is called":
\* when it returns, one of the two is so.
RunReturnsWhenDone == [][rpc # "off" /\ rpc' = "off" => Live = {} \/ stopCh]_vars

\* Every spawned thread completes, whatever its priority, if the program does
\* not call Stop: a thread is spawned once, so it is enough that again and
\* again no thread is left.
AllComplete == []<>(Live = {} \/ stopCh)
=============================================================================
