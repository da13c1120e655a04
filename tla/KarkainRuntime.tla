--------------------------- MODULE KarkainRuntime ---------------------------
(***************************************************************************)
(* The work-stealing scheduler, the tasks and the actors of the C          *)
(* concurrency runtime (karkain_scheduler.c, karkain_actor.c), from        *)
(* karkain_conc_init to the end of karkain_conc_finish.                    *)
(*                                                                         *)
(* One action is one critical section or one access to an atomic, with     *)
(* the thread-private work next to it.  What the user's program does       *)
(* inside a task, a handler or on the main thread is left open: any of the *)
(* operations the constants allow, in any order.  An actor's mailbox is an *)
(* unbounded channel (KarkainChannel): it never blocks, so its send and    *)
(* try_recv are single steps here.                                         *)
(***************************************************************************)
EXTENDS Integers, Sequences, FiniteSets

CONSTANTS
  NWorkers, Main,     \* worker threads 0..NWorkers-1, and the main thread
  Tasks, Actors, Msgs,
  None,
  MainOps, TaskOps, HandlerOps \* what the program calls, and where

Workers == 0..(NWorkers - 1)
Procs == Workers \cup {Main}
Ops == {"spawn", "send", "stop", "join", "wait_all"}

ASSUME RuntimeAssumption ==
  /\ NWorkers \in Nat \ {0}
  /\ Main \notin Workers
  /\ IsFiniteSet(Tasks) /\ IsFiniteSet(Msgs)
  /\ Tasks \cap Actors = {} /\ Tasks \cap Msgs = {}
  /\ None \notin Tasks \cup Actors \cup Msgs
  /\ MainOps \subseteq Ops /\ TaskOps \subseteq Ops \ {"wait_all"}
  /\ HandlerOps \subseteq Ops \ {"wait_all"}

VARIABLES
  pending, stopping, global,            \* karkain_sched_t
  local,                                \* a worker's LIFO queue of runs
  queued, stopped, mailbox, closed,     \* karkain_actor_t and its mailbox
  dwq,                                  \* holder of an actor's drain lock
  task,                                 \* progress of each task
  done,                                 \* t->done
  fate,                                 \* progress of each message
  wpc, run, cur, delivered, victim,     \* a worker's position and locals
  owed,                                 \* (history) messages w still has to discount
  call,                                 \* the runtime call a thread is in
  mpc                                   \* the main thread's position

schedVars == <<pending, stopping, global, local>>
actorVars == <<queued, stopped, mailbox, closed, dwq>>
workVars == <<task, done, fate, owed>>
locals == <<run, cur, delivered, victim>>
posVars == <<wpc, locals>>
vars == <<schedVars, actorVars, workVars, posVars, call, mpc>>

NoCall == [pc |-> "none", obj |-> None, m |-> None]

-----------------------------------------------------------------------------
(* karkain_conc_init: zeroed structures, every worker at the top of        *)
(* karkain_worker_loop.  karkain_actor_create happens before the first     *)
(* send to the actor, so actors exist from the start.                      *)
Init ==
  /\ pending = 0 /\ stopping = FALSE /\ global = <<>>
  /\ local = [w \in Workers |-> <<>>]
  /\ queued = [a \in Actors |-> FALSE] /\ stopped = [a \in Actors |-> FALSE]
  /\ mailbox = [a \in Actors |-> <<>>] /\ closed = [a \in Actors |-> FALSE]
  /\ dwq = [a \in Actors |-> None]
  /\ task = [k \in Tasks |-> "fresh"] /\ done = [k \in Tasks |-> FALSE]
  /\ fate = [m \in Msgs |-> "fresh"] /\ owed = [w \in Workers |-> {}]
  /\ wpc = [w \in Workers |-> "top"] /\ run = [w \in Workers |-> None]
  /\ cur = [w \in Workers |-> None] /\ delivered = [w \in Workers |-> 0]
  /\ victim = [w \in Workers |-> 0]
  /\ call = [p \in Procs |-> NoCall]
  /\ mpc = "run"

\* Where user code runs, and what it may call there.
MayCall(p, o) ==
  /\ call[p] = NoCall
  /\ \/ p = Main /\ mpc = "run" /\ o \in MainOps
     \/ p \in Workers /\ wpc[p] = "task" /\ o \in TaskOps
     \/ p \in Workers /\ wpc[p] = "handler" /\ o \in HandlerOps

GoTo(w, l) == wpc' = [wpc EXCEPT ![w] = l]
At(p, c) == call[p].pc = c
Goto(p, c) == call' = [call EXCEPT ![p].pc = c]
Return(p) == call' = [call EXCEPT ![p] = NoCall]

-----------------------------------------------------------------------------
(* karkain_sched_spawn                                                     *)
Spawn(p, k) ==
  /\ MayCall(p, "spawn") /\ task[k] = "fresh"
  /\ pending' = pending + 1
  /\ task' = [task EXCEPT ![k] = "spawned"]
  /\ call' = [call EXCEPT ![p] = [pc |-> "push", obj |-> k, m |-> None]]
  /\ UNCHANGED <<stopping, global, local, actorVars, done, fate, owed, posVars, mpc>>

(* karkain_sched_push_run: a worker pushes on its own queue, any other     *)
(* thread on the global one.  Nobody is signalled.                         *)
PushRun(p) ==
  /\ At(p, "push")
  /\ \/ /\ p \in Workers
        /\ local' = [local EXCEPT ![p] = <<call[p].obj>> \o @]
        /\ UNCHANGED global
     \/ /\ p = Main
        /\ global' = <<call[p].obj>> \o global
        /\ UNCHANGED local
  /\ Return(p)
  /\ UNCHANGED <<pending, stopping, actorVars, workVars, posVars, mpc>>

(* karkain_actor_send: test stopped, count the message, put it in the      *)
(* mailbox (or take the count back), and make the actor runnable.          *)
Send(p, a, m) ==
  /\ MayCall(p, "send") /\ fate[m] = "fresh"
  /\ \/ /\ stopped[a]
        /\ fate' = [fate EXCEPT ![m] = "refused"]
        /\ UNCHANGED call
     \/ /\ ~stopped[a]
        /\ fate' = [fate EXCEPT ![m] = "offered"]
        /\ call' = [call EXCEPT ![p] = [pc |-> "count", obj |-> a, m |-> m]]
  /\ UNCHANGED <<schedVars, actorVars, task, done, owed, posVars, mpc>>

SendCount(p) ==
  /\ At(p, "count")
  /\ pending' = pending + 1
  /\ fate' = [fate EXCEPT ![call[p].m] = "counted"]
  /\ Goto(p, "mail")
  /\ UNCHANGED <<stopping, global, local, actorVars, task, done, owed, posVars, mpc>>

\* karkain_channel_send on the mailbox fails when it is closed, or when no
\* memory is left for the queue node.
SendMail(p) ==
  /\ At(p, "mail")
  /\ \/ /\ ~closed[call[p].obj]
        /\ mailbox' = [mailbox EXCEPT ![call[p].obj] = Append(@, call[p].m)]
        /\ fate' = [fate EXCEPT ![call[p].m] = "mailed"]
        /\ Goto(p, "enqueue")
     \/ /\ Goto(p, "undo")
        /\ UNCHANGED <<mailbox, fate>>
  /\ UNCHANGED <<schedVars, queued, stopped, closed, dwq, task, done, owed, posVars, mpc>>

\* Mutant: the count of a refused message is not taken back.
Uncount_Not(n) == n
Uncount(n) == n - 1

\* The count is taken back without a look at whether it reached zero.
SendUndo(p) ==
  /\ At(p, "undo")
  /\ pending' = Uncount(pending)
  /\ fate' = [fate EXCEPT ![call[p].m] = "refused"]
  /\ Return(p)
  /\ UNCHANGED <<stopping, global, local, actorVars, task, done, owed, posVars, mpc>>

(* karkain_sched_enqueue_actor: nothing for a stopped actor; otherwise the *)
(* winner of the compare-and-swap on `queued` pushes the run.              *)
\* Mutant: `queued` is stored, not compared and swapped.
CanEnqueue_NoCas(a) == ~stopped[a]
CanEnqueue(a) == ~stopped[a] /\ ~queued[a]

EnqueueActor(p) ==
  /\ At(p, "enqueue")
  /\ LET a == call[p].obj IN
     \/ /\ ~CanEnqueue(a)
        /\ Return(p)
        /\ UNCHANGED queued
     \/ /\ CanEnqueue(a)
        /\ queued' = [queued EXCEPT ![a] = TRUE]
        /\ call' = [call EXCEPT ![p] = [pc |-> "push", obj |-> a, m |-> None]]
  /\ UNCHANGED <<schedVars, stopped, mailbox, closed, dwq, workVars, posVars, mpc>>

(* karkain_actor_stop: the flag first, then the mailbox.                   *)
Stop(p, a) ==
  /\ MayCall(p, "stop") /\ ~stopped[a]
  /\ stopped' = [stopped EXCEPT ![a] = TRUE]
  /\ call' = [call EXCEPT ![p] = [pc |-> "close", obj |-> a, m |-> None]]
  /\ UNCHANGED <<schedVars, queued, mailbox, closed, dwq, workVars, posVars, mpc>>

StopClose(p) ==
  /\ At(p, "close")
  /\ closed' = [closed EXCEPT ![call[p].obj] = TRUE]
  /\ Return(p)
  /\ UNCHANGED <<schedVars, queued, stopped, mailbox, dwq, workVars, posVars, mpc>>

(* karkain_task_join: sleep on t->cv until t->done.                        *)
Join(p, k) ==
  /\ MayCall(p, "join") /\ task[k] # "fresh"
  /\ call' = [call EXCEPT ![p] = [pc |-> "join", obj |-> k, m |-> None]]
  /\ UNCHANGED <<schedVars, actorVars, workVars, posVars, mpc>>

JoinCheck(p) ==
  /\ At(p, "join")
  /\ IF done[call[p].obj] THEN Return(p) ELSE Goto(p, "asleep")
  /\ UNCHANGED <<schedVars, actorVars, workVars, posVars, mpc>>

-----------------------------------------------------------------------------
(* karkain_worker_loop                                                     *)
WorkerTop(w) ==
  /\ wpc[w] = "top" /\ call[w] = NoCall
  /\ GoTo(w, IF stopping /\ pending = 0 THEN "exit" ELSE "pop")
  /\ UNCHANGED <<schedVars, actorVars, workVars, locals, call, mpc>>

\* A worker got hold of run r: a task starts, an actor is drained.
Begin(w, r) ==
  /\ run' = [run EXCEPT ![w] = r]
  /\ delivered' = [delivered EXCEPT ![w] = 0]
  /\ GoTo(w, IF r \in Tasks THEN "task" ELSE "drain")
  /\ task' = IF r \in Tasks THEN [task EXCEPT ![r] = "running"] ELSE task

PopLocal(w) ==
  /\ wpc[w] = "pop"
  /\ \/ /\ local[w] # <<>>
        /\ Begin(w, Head(local[w]))
        /\ local' = [local EXCEPT ![w] = Tail(@)]
        /\ UNCHANGED victim
     \/ /\ local[w] = <<>>
        /\ GoTo(w, "steal")
        /\ victim' = [victim EXCEPT ![w] = 1]
        /\ UNCHANGED <<local, run, delivered, task>>
  /\ UNCHANGED <<pending, stopping, global, actorVars, done, fate, owed, cur, call, mpc>>

(* karkain_sched_steal: one victim's lock at a time, then the global queue *)
Steal(w) ==
  /\ wpc[w] = "steal" /\ victim[w] < NWorkers
  /\ LET v == (w + victim[w]) % NWorkers IN
     \/ /\ local[v] # <<>>
        /\ Begin(w, Head(local[v]))
        /\ local' = [local EXCEPT ![v] = Tail(@)]
        /\ UNCHANGED victim
     \/ /\ local[v] = <<>>
        /\ victim' = [victim EXCEPT ![w] = @ + 1]
        /\ UNCHANGED <<local, run, delivered, task, wpc>>
  /\ UNCHANGED <<pending, stopping, global, actorVars, done, fate, owed, cur, call, mpc>>

StealGlobal(w) ==
  /\ wpc[w] = "steal" /\ victim[w] >= NWorkers
  /\ \/ /\ global # <<>>
        /\ Begin(w, Head(global))
        /\ global' = Tail(global)
     \/ /\ global = <<>>
        /\ GoTo(w, "idle")
        /\ UNCHANGED <<global, run, delivered, task>>
  /\ UNCHANGED <<pending, stopping, local, actorVars, done, fate, owed, cur, victim, call, mpc>>

\* Mutant: an idle worker only waits for shutdown.
IdleEnds_StoppingOnly == stopping
IdleEnds == stopping \/ global # <<>>

\* The idle loop re-tests its own condition after every timed wait, and only
\* that: it is left for work in the global queue or for shutdown.
IdleLeave(w) ==
  /\ wpc[w] = "idle" /\ IdleEnds
  /\ GoTo(w, "top")
  /\ UNCHANGED <<schedVars, actorVars, workVars, locals, call, mpc>>

(* karkain_run_task, after the user's function returned                    *)
TaskReturn(w) ==
  /\ wpc[w] = "task" /\ call[w] = NoCall
  /\ done' = [done EXCEPT ![run[w]] = TRUE]
  /\ delivered' = [delivered EXCEPT ![w] = 1]
  /\ GoTo(w, "signal")
  /\ UNCHANGED <<schedVars, actorVars, task, fate, owed, run, cur, victim, call, mpc>>

TaskSignal(w) ==
  /\ wpc[w] = "signal"
  /\ call' = [p \in Procs |-> IF call[p].pc = "asleep" /\ call[p].obj = run[w]
                              THEN [call[p] EXCEPT !.pc = "join"] ELSE call[p]]
  /\ GoTo(w, "dec")
  /\ UNCHANGED <<schedVars, actorVars, workVars, locals, mpc>>

(* karkain_sched_pending_dec, by the task's one or by the drain's count    *)
AfterDec(w) == IF run[w] \in Tasks THEN "top" ELSE "more"

\* Mutant: the value before the subtraction is compared.
ReachedZero_Before(n) == pending = 0
ReachedZero(n) == pending - n = 0

PendingDec(w) ==
  /\ wpc[w] = "dec"
  /\ pending' = pending - delivered[w]
  /\ GoTo(w, IF ReachedZero(delivered[w]) THEN "drained" ELSE AfterDec(w))
  /\ task' = IF run[w] \in Tasks THEN [task EXCEPT ![run[w]] = "finished"] ELSE task
  /\ owed' = [owed EXCEPT ![w] = {}]
  /\ UNCHANGED <<stopping, global, local, actorVars, done, fate, locals, call, mpc>>

BroadcastDrained(w) ==
  /\ wpc[w] = "drained"
  /\ mpc' = CASE mpc = "asleep" -> "wait" [] mpc = "fin_asleep" -> "fin_wait" [] OTHER -> mpc
  /\ GoTo(w, AfterDec(w))
  /\ UNCHANGED <<schedVars, actorVars, workVars, locals, call>>

-----------------------------------------------------------------------------
(* karkain_sched_drain_actor                                               *)
DrainLock(w) ==
  /\ wpc[w] = "drain" /\ dwq[run[w]] = None
  /\ dwq' = [dwq EXCEPT ![run[w]] = w]
  /\ GoTo(w, "recv")
  /\ UNCHANGED <<schedVars, queued, stopped, mailbox, closed, workVars, locals, call, mpc>>

\* karkain_channel_try_recv: the head of the mailbox, or the end of the loop.
DrainRecv(w) ==
  /\ wpc[w] = "recv"
  /\ LET box == mailbox[run[w]] IN
     \/ /\ box # <<>>
        /\ cur' = [cur EXCEPT ![w] = Head(box)]
        /\ mailbox' = [mailbox EXCEPT ![run[w]] = Tail(box)]
        /\ fate' = [fate EXCEPT ![Head(box)] = "taken"]
        /\ GoTo(w, "deliver")
     \/ /\ box = <<>>
        /\ GoTo(w, "empty")
        /\ UNCHANGED <<cur, mailbox, fate>>
  /\ UNCHANGED <<schedVars, queued, stopped, closed, dwq, task, done, owed, run, delivered, victim, call, mpc>>

\* The message is done with, by the handler or by being freed.
Settle(w, f) ==
  /\ fate' = [fate EXCEPT ![cur[w]] = f]
  /\ owed' = [owed EXCEPT ![w] = @ \cup {cur[w]}]
  /\ cur' = [cur EXCEPT ![w] = None]
  /\ delivered' = [delivered EXCEPT ![w] = @ + 1]
  /\ GoTo(w, "recv")

DrainDeliver(w) ==
  /\ wpc[w] = "deliver"
  /\ \/ /\ stopped[run[w]]
        /\ Settle(w, "dropped")
     \/ /\ ~stopped[run[w]]
        /\ GoTo(w, "handler")
        /\ UNCHANGED <<fate, owed, cur, delivered>>
  /\ UNCHANGED <<schedVars, actorVars, task, done, run, victim, call, mpc>>

HandlerReturn(w) ==
  /\ wpc[w] = "handler" /\ call[w] = NoCall
  /\ Settle(w, "handled")
  /\ UNCHANGED <<schedVars, actorVars, task, done, run, victim, call, mpc>>

\* Clear `queued`, release the drain lock, and discount what was delivered.
DrainEnd(w) ==
  /\ wpc[w] = "empty"
  /\ queued' = [queued EXCEPT ![run[w]] = FALSE]
  /\ dwq' = [dwq EXCEPT ![run[w]] = None]
  /\ GoTo(w, IF delivered[w] > 0 THEN "dec" ELSE "more")
  /\ UNCHANGED <<schedVars, stopped, mailbox, closed, workVars, locals, call, mpc>>

\* A message may have arrived since the mailbox was seen empty.
\* Mutant: the mailbox is not looked at again.
more_Never(a) == FALSE
more(a) == mailbox[a] # <<>> /\ ~stopped[a]

DrainMore(w) ==
  /\ wpc[w] = "more"
  /\ GoTo(w, "top")
  /\ call' = IF more(run[w])
             THEN [call EXCEPT ![w] = [pc |-> "enqueue", obj |-> run[w], m |-> None]]
             ELSE call
  /\ UNCHANGED <<schedVars, actorVars, workVars, locals, mpc>>

-----------------------------------------------------------------------------
(* karkain_wait_all and karkain_conc_finish, on the main thread            *)
CallWaitAll ==
  /\ MayCall(Main, "wait_all")
  /\ mpc' = "wait"
  /\ UNCHANGED <<schedVars, actorVars, workVars, posVars, call>>

CallFinish ==
  /\ mpc = "run" /\ call[Main] = NoCall
  /\ mpc' = "fin_wait"
  /\ UNCHANGED <<schedVars, actorVars, workVars, posVars, call>>

\* Mutant: the last unit of work is not waited for.
Outstanding_OffByOne == pending > 1
Outstanding == pending # 0

WaitAll ==
  /\ \/ mpc = "wait" /\ mpc' = IF Outstanding THEN "asleep" ELSE "run"
     \/ mpc = "fin_wait" /\ mpc' = IF Outstanding THEN "fin_asleep" ELSE "stop"
  /\ UNCHANGED <<schedVars, actorVars, workVars, posVars, call>>

\* The broadcast on work_avail only shortens the idle workers' timed wait.
SetStopping ==
  /\ mpc = "stop"
  /\ stopping' = TRUE
  /\ mpc' = "join"
  /\ UNCHANGED <<pending, global, local, actorVars, workVars, posVars, call>>

\* Every worker joined: tasks, actors, mailboxes and the scheduler are freed.
JoinWorkersAndFree ==
  /\ mpc = "join" /\ \A w \in Workers : wpc[w] = "exit"
  /\ mpc' = "freed"
  /\ mailbox' = [a \in Actors |-> <<>>]
  /\ UNCHANGED <<schedVars, queued, stopped, closed, dwq, workVars, posVars, call>>

Terminated == mpc = "freed" /\ UNCHANGED vars

\* A condition variable may wake a sleeper for no reason; the loops re-test.
SpuriousWakeup(p) ==
  \/ /\ At(p, "asleep") /\ Goto(p, "join")
     /\ UNCHANGED <<schedVars, actorVars, workVars, posVars, mpc>>
  \/ /\ p = Main /\ mpc \in {"asleep", "fin_asleep"}
     /\ mpc' = IF mpc = "asleep" THEN "wait" ELSE "fin_wait"
     /\ UNCHANGED <<schedVars, actorVars, workVars, posVars, call>>

-----------------------------------------------------------------------------
UserCall(p) ==
  \/ \E k \in Tasks : Spawn(p, k) \/ Join(p, k)
  \/ \E a \in Actors : Stop(p, a) \/ \E m \in Msgs : Send(p, a, m)

CallStep(p) ==
  \/ PushRun(p) \/ SendCount(p) \/ SendMail(p) \/ SendUndo(p) \/ EnqueueActor(p)
  \/ StopClose(p) \/ JoinCheck(p)

WorkerStep(w) ==
  \/ WorkerTop(w) \/ PopLocal(w) \/ Steal(w) \/ StealGlobal(w) \/ IdleLeave(w)
  \/ TaskReturn(w) \/ TaskSignal(w) \/ PendingDec(w) \/ BroadcastDrained(w)
  \/ DrainLock(w) \/ DrainRecv(w) \/ DrainDeliver(w) \/ HandlerReturn(w)
  \/ DrainEnd(w) \/ DrainMore(w)

MainStep == CallFinish \/ WaitAll \/ SetStopping \/ JoinWorkersAndFree

Next ==
  \/ \E p \in Procs : UserCall(p) \/ CallStep(p) \/ SpuriousWakeup(p)
  \/ \E w \in Workers : WorkerStep(w)
  \/ MainStep \/ CallWaitAll
  \/ Terminated

Spec == Init /\ [][Next]_vars

(* The operating system schedules every thread; user functions return and  *)
(* main calls finish, however often they call the runtime before that.     *)
Fairness ==
  /\ \A p \in Procs : WF_vars(CallStep(p))
  /\ \A w \in Workers : /\ WF_vars(WorkerStep(w))
                        /\ SF_vars(TaskReturn(w)) /\ SF_vars(HandlerReturn(w))
  /\ WF_vars(MainStep) /\ SF_vars(CallFinish)

FairSpec == Spec /\ Fairness
-----------------------------------------------------------------------------
\* Work the runtime has accepted and not yet discounted.
Counted ==
  {k \in Tasks : task[k] \in {"spawned", "running"}}
    \cup {m \in Msgs : fate[m] \in {"counted", "mailed", "taken"}}
    \cup UNION {owed[w] : w \in Workers}

\* `pending` counts exactly the tasks not yet finished and the messages sent
\* but not yet settled, although it is raised in three places, lowered in two
\* (once per drain, by a sum) and never under a lock (karkain_actor_send,
\* karkain_sched_spawn, karkain_sched_pending_dec).
PendingExact == pending = Cardinality(Counted)

\* Once karkain_conc_finish has seen pending = 0, nothing the user asked for
\* is left: every task has run, every message is settled, no queue holds a
\* task, no mailbox a message and no worker is inside user code.  (A worker
\* may still push the run of an actor whose mailbox another worker emptied.)
ShutdownComplete ==
  mpc \in {"stop", "join", "freed"} =>
    /\ Counted = {}
    /\ \A a \in Actors : mailbox[a] = <<>>
    /\ \A w \in Workers : /\ wpc[w] \notin {"task", "handler", "deliver"}
                          /\ call[w].pc \in {"none", "enqueue", "push"}
                          /\ \A i \in DOMAIN local[w] : local[w][i] \in Actors
    /\ \A i \in DOMAIN global : global[i] \in Actors

\* A sleeper whose condition already holds has a wakeup on its way: in
\* karkain_wait_all the worker that brought pending to zero, in
\* karkain_task_join the worker that ran the task.  karkain_actor_send's undo
\* lowers pending with no broadcast, and that too strands nobody.
SleepersWoken ==
  /\ mpc \in {"asleep", "fin_asleep"} /\ pending = 0
       => \E w \in Workers : wpc[w] = "drained"
  /\ \A p \in Procs : At(p, "asleep") /\ done[call[p].obj]
       => \E w \in Workers : wpc[w] = "signal" /\ run[w] = call[p].obj

\* The places where run r is: slots of queues, threads about to push it,
\* workers executing it.
Slots(r) ==
  (UNION {{<<w, i>> : i \in {j \in DOMAIN local[w] : local[w][j] = r}} : w \in Workers})
    \cup {<<Main, i>> : i \in {j \in DOMAIN global : global[j] = r}}
Holders(r) ==
  Slots(r) \cup {<<p, 0>> : p \in {q \in Procs : At(q, "push") /\ call[q].obj = r}}
    \cup {<<w, -1>> : w \in {v \in Workers : run[v] = r /\ wpc[v] \in
                                {"task", "drain", "recv", "deliver", "handler", "empty"}}}

\* An actor is in exactly one place while `queued` is set and in none while it
\* is clear, and a task is in at most one: nothing is run twice or lost by
\* the hand-over between karkain_sched_enqueue_actor, the stealing workers
\* and the drain, and an actor's handler runs on one worker at a time
\* (karkain_actor.c's single-runner guarantee).
RunOnce ==
  /\ \A a \in Actors : Cardinality(Holders(a)) = IF queued[a] THEN 1 ELSE 0
  /\ \A k \in Tasks : Cardinality(Holders(k)) <= 1

\* A thread that will look at actor a's mailbox again.
Attends(p, a) ==
  \/ At(p, "enqueue") /\ call[p].obj = a
  \/ p \in Workers /\ run[p] = a /\ wpc[p] \in {"dec", "drained", "more"}

\* As long as an actor is not stopped, a message in its mailbox has a thread
\* that will bring it to the handler: the actor is queued, or someone is
\* still to test the mailbox (the re-check after the drain).
NoStrandedMessage ==
  \A a \in Actors : mailbox[a] # <<>> /\ ~stopped[a] =>
    queued[a] \/ \E p \in Procs : Attends(p, a)

-----------------------------------------------------------------------------
\* karkain_conc_finish returns: "wait_all()/finish() wait until it reaches
\* zero, giving deterministic shutdown semantics" (karkain_conc.h).
FinishReturns == <>(mpc = "freed")

\* What of it holds: karkain_conc_finish returns, with tasks and handlers that
\* spawn and send, unless karkain_actor_stop was called.
FinishReturnsUnlessStopped == <>(mpc = "freed" \/ \E a \in Actors : stopped[a])
=============================================================================
