------------------------ MODULE KarkainRuntimeProofs ------------------------
(***************************************************************************)
(* For any number of workers, tasks, actors and messages, and any program: *)
(* the scheduler runs nothing twice and loses nothing, `pending` is exact, *)
(* nobody sleeps on what has happened, and karkain_conc_finish leaves      *)
(* nothing behind.                                                         *)
(***************************************************************************)
EXTENDS KarkainRuntime, TLAPS

Runs == Tasks \cup Actors

\* Positions of a worker: in a task's run, in a drain, after either.
InTask == {"task", "signal"}
InDrain == {"drain", "recv", "deliver", "handler", "empty"}
Ending == {"dec", "drained"}
Off == {"top", "pop", "steal", "idle", "exit", "more"}

\* Positions in karkain_actor_send, and in any call.
Sends == {"count", "mail", "undo"}
Calls == Sends \cup {"none", "push", "enqueue", "close", "join", "asleep"}

\* The queues hold runs, the mailboxes messages.
QueueType == global \in Seq(Runs) /\ local \in [Workers -> Seq(Runs)]
BoxType == mailbox \in [Actors -> Seq(Msgs)]

\* What a call is about.
CallSound(p) ==
  /\ call[p].pc = "none" => call[p] = NoCall
  /\ call[p].pc = "push" => call[p].obj \in Runs
  /\ call[p].pc \in Sends => call[p].obj \in Actors /\ call[p].m \in Msgs
  /\ call[p].pc \in {"enqueue", "close"} => call[p].obj \in Actors
  /\ call[p].pc \in {"join", "asleep"} => call[p].obj \in Tasks

CallInv ==
  /\ call \in [Procs -> [pc : Calls, obj : Runs \cup {None}, m : Msgs \cup {None}]]
  /\ \A p \in Procs : CallSound(p)
  /\ mpc # "run" => call[Main].pc = "none"

\* What a worker is about.
PosType ==
  /\ wpc \in [Workers -> InTask \cup InDrain \cup Ending \cup Off]
  /\ run \in [Workers -> Runs \cup {None}] /\ cur \in [Workers -> Msgs \cup {None}]
  /\ delivered \in [Workers -> Nat] /\ victim \in [Workers -> Nat]

WorkerSound(w) ==
  /\ wpc[w] \in InTask => run[w] \in Tasks
  /\ wpc[w] \in InDrain \cup {"more"} => run[w] \in Actors
  /\ wpc[w] \in Ending => run[w] \in Runs
  /\ cur[w] # None <=> wpc[w] \in {"deliver", "handler"}

WorkerInv == PosType /\ \A w \in Workers : WorkerSound(w)

\* A worker calls the runtime from user code, or re-enqueues an actor.
CallerInv ==
  \A w \in Workers : \/ call[w].pc = "none" \/ wpc[w] \in {"task", "handler"}
                     \/ wpc[w] = "top" /\ call[w].pc \in {"enqueue", "push"}

ShapeInv == QueueType /\ BoxType /\ CallInv /\ WorkerInv /\ CallerInv

-----------------------------------------------------------------------------
On(q, r) == \E i \in DOMAIN q : q[i] = r
Distinct(q) == \A i, j \in DOMAIN q : q[i] = q[j] => i = j

\* The places of a run: the queue that thread p pushes on, thread p about to
\* push it, worker w executing it.
Queue(p) == IF p = Main THEN global ELSE local[p]
Queued(p, r) == On(Queue(p), r)
Pushes(p, r) == call[p].pc = "push" /\ call[p].obj = r
Does(w, r) == run[w] = r /\ wpc[w] \in IF r \in Tasks THEN {"task", "signal", "dec"} ELSE InDrain

Waiting(r) == \E p \in Procs : Queued(p, r) \/ Pushes(p, r)
Running(r) == \E w \in Workers : Does(w, r)

\* A run is in one place at most.
Once(r) ==
  /\ \A p, q \in Procs : /\ Queued(p, r) /\ Queued(q, r) => p = q
                         /\ Pushes(p, r) /\ Pushes(q, r) => p = q
                         /\ ~(Queued(p, r) /\ Pushes(q, r))
  /\ \A v, w \in Workers : Does(v, r) /\ Does(w, r) => v = w
  /\ ~(Waiting(r) /\ Running(r))

\* What the runtime knows of it.
Known(r) ==
  /\ r \in Actors => (queued[r] <=> Waiting(r) \/ Running(r))
  /\ r \in Tasks => (Waiting(r) => task[r] = "spawned") /\ (Running(r) => task[r] = "running")

RunInv ==
  /\ queued \in [Actors -> BOOLEAN]
  /\ task \in [Tasks -> {"fresh", "spawned", "running", "finished"}]
  /\ \A p \in Procs : Distinct(Queue(p))
  /\ \A r \in Runs : Once(r) /\ Known(r)

-----------------------------------------------------------------------------
\* Where a message is, by its fate: with its sender, in one mailbox, in the
\* hand of one worker, or among those a worker still has to discount.
Sending(p, m) == call[p].pc \in Sends /\ call[p].m = m
Boxed(a, m) == On(mailbox[a], m)

Placed(m) ==
  /\ \A p \in Procs : Sending(p, m) =>
       /\ fate[m] = IF call[p].pc = "count" THEN "offered" ELSE "counted"
       /\ \A q \in Procs : Sending(q, m) => p = q
  /\ \A a \in Actors : Boxed(a, m) =>
       fate[m] = "mailed" /\ \A b \in Actors : Boxed(b, m) => a = b
  /\ \A w \in Workers : cur[w] = m =>
       fate[m] = "taken" /\ \A v \in Workers : cur[v] = m => v = w
  /\ \A w \in Workers : m \in owed[w] =>
       fate[m] \in {"handled", "dropped"} /\ \A v \in Workers : m \in owed[v] => v = w

Fates == {"fresh", "refused", "offered", "counted", "mailed", "taken", "handled", "dropped"}

MsgInv ==
  /\ fate \in [Msgs -> Fates] /\ owed \in [Workers -> SUBSET Msgs]
  /\ \A a \in Actors : Distinct(mailbox[a])
  /\ \A m \in Msgs : Placed(m)


-----------------------------------------------------------------------------
(* Lists without repetitions: the queues of runs and the mailboxes.        *)

\* karkain_sched_push_run puts a run at the front of a queue.
LEMMA PushOn ==
  ASSUME NEW S, NEW q \in Seq(S), NEW e \in S
  PROVE  /\ <<e>> \o q \in Seq(S)
         /\ \A t : On(<<e>> \o q, t) <=> On(q, t) \/ t = e
         /\ Distinct(q) /\ ~On(q, e) => Distinct(<<e>> \o q)
<1> DEFINE r == <<e>> \o q
<1>1. <<e>> \in Seq(S) /\ Len(<<e>>) = 1 /\ <<e>>[1] = e
  OBVIOUS
<1>2. /\ r \in Seq(S) /\ Len(r) = 1 + Len(q)
      /\ \A i \in 1..(1 + Len(q)) : r[i] = IF i <= 1 THEN <<e>>[i] ELSE q[i - 1]
  BY <1>1
<1>3. Len(q) \in Nat /\ DOMAIN q = 1..Len(q) /\ DOMAIN r = 1..(1 + Len(q))
  BY <1>2
<1> HIDE DEF r
<1>4. r[1] = e /\ 1 \in DOMAIN r
  BY <1>1, <1>2, <1>3
<1>5. ASSUME NEW i \in DOMAIN q PROVE i + 1 \in DOMAIN r /\ r[i + 1] = q[i]
  BY <1>2, <1>3
<1>6. ASSUME NEW i \in DOMAIN r PROVE i = 1 \/ (i - 1 \in DOMAIN q /\ r[i] = q[i - 1])
  BY <1>2, <1>3
<1>7. ASSUME NEW t PROVE On(r, t) <=> On(q, t) \/ t = e
  BY <1>4, <1>5, <1>6 DEF On
<1>8. ASSUME Distinct(q), ~On(q, e), NEW i \in DOMAIN r, NEW j \in DOMAIN r, r[i] = r[j]
      PROVE  i = j
  <2>1. ASSUME NEW h \in DOMAIN q PROVE q[h] # e
    BY Zenon, <1>8 DEF On
  <2>2. i \in Nat /\ j \in Nat
    BY <1>3
  <2>3. CASE i = 1 \/ j = 1
    BY Zenon, <1>4, <1>6, <1>8, <2>1, <2>3
  <2>4. CASE i # 1 /\ j # 1
    <3>1. i - 1 \in DOMAIN q /\ j - 1 \in DOMAIN q /\ q[i - 1] = q[j - 1]
      BY Zenon, <1>6, <1>8, <2>4
    <3>2. i - 1 = j - 1
      BY Zenon, <1>8, <3>1 DEF Distinct
    <3> QED
      BY <2>2, <3>2
  <2> QED
    BY Zenon, <2>3, <2>4
<1>9. Distinct(q) /\ ~On(q, e) => Distinct(r)
  BY Zenon, <1>8 DEF Distinct
<1> QED
  BY Zenon, <1>2, <1>7, <1>9 DEF r

\* Pop and steal take the run at the front, try_recv the oldest message.
LEMMA PopOn ==
  ASSUME NEW S, NEW q \in Seq(S), q # <<>>
  PROVE  /\ Head(q) \in S /\ On(q, Head(q)) /\ Tail(q) \in Seq(S)
         /\ Distinct(q) =>
              Distinct(Tail(q)) /\ \A t : On(Tail(q), t) <=> On(q, t) /\ t # Head(q)
<1>1. /\ Head(q) \in S /\ Head(q) = q[1] /\ Tail(q) \in Seq(S) /\ Len(Tail(q)) = Len(q) - 1
      /\ \A i \in 1..Len(Tail(q)) : Tail(q)[i] = q[i + 1]
  OBVIOUS
<1>2. Len(q) \in Nat /\ Len(q) >= 1 /\ DOMAIN q = 1..Len(q) /\ DOMAIN Tail(q) = 1..(Len(q) - 1)
  <2>1. Len(q) \in Nat /\ DOMAIN q = 1..Len(q) /\ DOMAIN Tail(q) = 1..Len(Tail(q))
    BY <1>1
  <2>2. Len(q) # 0
    OBVIOUS
  <2> QED
    BY <1>1, <2>1, <2>2
<1>3. 1 \in DOMAIN q
  BY <1>2
<1>4. ASSUME NEW i \in DOMAIN Tail(q) PROVE i + 1 \in DOMAIN q /\ i + 1 # 1 /\ Tail(q)[i] = q[i + 1]
  BY <1>1, <1>2
<1>5. ASSUME NEW i \in DOMAIN q, i # 1 PROVE i - 1 \in DOMAIN Tail(q) /\ Tail(q)[i - 1] = q[i]
  <2>1. i - 1 \in 1..(Len(q) - 1) /\ (i - 1) + 1 = i
    BY <1>2, <1>5
  <2> QED
    BY Zenon, <1>1, <1>2, <2>1
<1>6. ASSUME Distinct(q) PROVE Distinct(Tail(q))
  <2>1. ASSUME NEW i \in DOMAIN Tail(q), NEW j \in DOMAIN Tail(q), Tail(q)[i] = Tail(q)[j] PROVE i = j
    <3>1. i + 1 = j + 1
      BY Zenon, <1>4, <1>6, <2>1 DEF Distinct
    <3> QED
      BY <1>2, <3>1
  <2> QED
    BY Zenon, <2>1 DEF Distinct
<1>7. ASSUME Distinct(q), NEW t PROVE On(Tail(q), t) <=> On(q, t) /\ t # Head(q)
  <2>1. ASSUME On(Tail(q), t) PROVE On(q, t) /\ t # Head(q)
    <3>1. PICK i \in DOMAIN Tail(q) : Tail(q)[i] = t
      BY Zenon, <2>1 DEF On
    <3> QED
      BY Zenon, <1>1, <1>3, <1>4, <1>7, <3>1 DEF On, Distinct
  <2>2. ASSUME On(q, t), t # Head(q) PROVE On(Tail(q), t)
    BY Zenon, <1>1, <1>5, <2>2 DEF On
  <2> QED
    BY Zenon, <2>1, <2>2
<1> QED
  BY Zenon, <1>1, <1>3, <1>6, <1>7 DEF On

\* karkain_channel_send puts a message at the end of a mailbox.
LEMMA MailOn ==
  ASSUME NEW S, NEW q \in Seq(S), NEW e \in S
  PROVE  /\ Append(q, e) \in Seq(S)
         /\ \A t : On(Append(q, e), t) <=> On(q, t) \/ t = e
         /\ Distinct(q) /\ ~On(q, e) => Distinct(Append(q, e))
<1>1. /\ Append(q, e) \in Seq(S) /\ Len(Append(q, e)) = Len(q) + 1
      /\ \A i \in 1..Len(q) : Append(q, e)[i] = q[i]
      /\ Append(q, e)[Len(q) + 1] = e
  OBVIOUS
<1>2. Len(q) \in Nat /\ DOMAIN q = 1..Len(q) /\ DOMAIN Append(q, e) = 1..(Len(q) + 1)
  BY <1>1
<1>3. DOMAIN Append(q, e) = DOMAIN q \cup {Len(q) + 1} /\ Len(q) + 1 \notin DOMAIN q
  BY <1>2
<1>4. \A i \in DOMAIN q : Append(q, e)[i] = q[i]
  BY Zenon, <1>1, <1>2
<1> QED
  BY Zenon, <1>1, <1>3, <1>4 DEF On, Distinct

\* The empty list.
LEMMA NilOn == ASSUME NEW S PROVE <<>> \in Seq(S) /\ Distinct(<<>>) /\ \A t : ~On(<<>>, t)
<1>1. <<>> \in Seq(S) /\ DOMAIN <<>> = {}
  OBVIOUS
<1> QED
  BY Zenon, <1>1 DEF Distinct, On

-----------------------------------------------------------------------------
(* The shape of the state.                                                 *)

\* What the assumptions say of threads, runs and messages.
LEMMA Kinds ==
  /\ \A w \in Workers : w \in Procs /\ w # Main /\ w \in Int
  /\ Main \in Procs /\ \A p \in Procs : p \in Workers \/ p = Main
  /\ \A k \in Tasks : k \in Runs /\ k \notin Actors /\ k \notin Msgs /\ k # None
  /\ \A a \in Actors : a \in Runs /\ a \notin Tasks /\ a # None
  /\ \A m \in Msgs : m # None /\ m \notin Tasks
  BY RuntimeAssumption DEF Workers, Procs, Runs

\* A stealing worker looks at another worker's queue.
LEMMA VictimSound ==
  ASSUME PosType, NEW w \in Workers PROVE (w + victim[w]) % NWorkers \in Workers
  BY RuntimeAssumption DEF PosType, Workers

\* karkain_sched_push_run, pop and steal: the queues hold runs.
LEMMA QueueKept == ASSUME ShapeInv, Next PROVE QueueType'
<1>0. \/ UNCHANGED <<global, local>>
      \/ \E p \in Procs : PushRun(p)
      \/ \E w \in Workers : PopLocal(w) \/ Steal(w) \/ StealGlobal(w)
  BY ZenonT(60) DEF Next, UserCall, CallStep, WorkerStep, MainStep, Terminated, vars, schedVars, actorVars,
      workVars, locals, posVars, Spawn, Join, Stop, Send, SendCount, SendMail, SendUndo,
      EnqueueActor, StopClose, JoinCheck, SpuriousWakeup, WorkerTop, IdleLeave, TaskReturn,
      TaskSignal, PendingDec, BroadcastDrained, DrainLock, DrainRecv, DrainDeliver, HandlerReturn,
      DrainEnd, DrainMore, CallWaitAll, CallFinish, WaitAll, SetStopping, JoinWorkersAndFree
<1>1. ASSUME NEW p \in Procs, PushRun(p) PROVE QueueType'
  <2>1. call[p].obj \in Runs
    BY Zenon, <1>1 DEF ShapeInv, CallInv, PushRun, At, CallSound
  <2>2. CASE p \in Workers
    <3>1. <<call[p].obj>> \o local[p] \in Seq(Runs) /\ p # Main
      BY <2>1, <2>2, PushOn, Kinds DEF ShapeInv, QueueType
    <3> QED
      BY Zenon, <1>1, <3>1 DEF PushRun, ShapeInv, QueueType
  <2>3. CASE p = Main
    <3>1. <<call[p].obj>> \o global \in Seq(Runs) /\ p \notin Workers
      BY <2>1, <2>3, PushOn, Kinds DEF ShapeInv, QueueType
    <3> QED
      BY Zenon, <1>1, <3>1 DEF PushRun, ShapeInv, QueueType
  <2> QED
    BY Zenon, <2>2, <2>3, Kinds
<1>2. ASSUME NEW w \in Workers, NEW v \in Workers, local[v] # <<>>,
             local' = [local EXCEPT ![v] = Tail(local[v])], UNCHANGED global
      PROVE  QueueType'
  <2>1. Tail(local[v]) \in Seq(Runs)
    BY Zenon, <1>2, PopOn DEF ShapeInv, QueueType
  <2> QED
    BY Zenon, <1>2, <2>1 DEF ShapeInv, QueueType
<1>3. ASSUME global # <<>>, global' = Tail(global), UNCHANGED local PROVE QueueType'
  BY Zenon, <1>3, PopOn DEF ShapeInv, QueueType
<1>4. ASSUME UNCHANGED <<global, local>> PROVE QueueType'
  BY Zenon, <1>4 DEF ShapeInv, QueueType
<1>5. ASSUME NEW w \in Workers, PopLocal(w) PROVE QueueType'
  BY Zenon, <1>2, <1>4, <1>5 DEF PopLocal
<1>6. ASSUME NEW w \in Workers, Steal(w) PROVE QueueType'
  BY Zenon, <1>2, <1>4, <1>6, VictimSound DEF Steal, ShapeInv, WorkerInv
<1>7. ASSUME NEW w \in Workers, StealGlobal(w) PROVE QueueType'
  BY Zenon, <1>3, <1>4, <1>7 DEF StealGlobal
<1> QED
  BY Zenon, <1>0, <1>1, <1>4, <1>5, <1>6, <1>7

\* karkain_channel_send and try_recv on a mailbox: it holds messages.
LEMMA BoxKept == ASSUME ShapeInv, Next PROVE BoxType'
<1>0. \/ UNCHANGED <<mailbox>>
      \/ \E p \in Procs : SendMail(p)
      \/ \E w \in Workers : DrainRecv(w)
      \/ JoinWorkersAndFree
  BY ZenonT(60) DEF Next, UserCall, CallStep, WorkerStep, MainStep, Terminated, vars, schedVars, actorVars,
      workVars, locals, posVars, Spawn, Join, Stop, Send, PushRun, SendCount, SendUndo, EnqueueActor,
      StopClose, JoinCheck, SpuriousWakeup, WorkerTop, PopLocal, Steal, StealGlobal, IdleLeave,
      TaskReturn, TaskSignal, PendingDec, BroadcastDrained, DrainLock, DrainDeliver, HandlerReturn,
      DrainEnd, DrainMore, CallWaitAll, CallFinish, WaitAll, SetStopping
<1>1. ASSUME NEW p \in Procs, SendMail(p) PROVE BoxType'
  <2>1. call[p].obj \in Actors /\ call[p].m \in Msgs
    BY Zenon, <1>1 DEF SendMail, At, ShapeInv, CallInv, CallSound, Sends
  <2>2. Append(mailbox[call[p].obj], call[p].m) \in Seq(Msgs)
    BY <2>1, MailOn DEF ShapeInv, BoxType
  <2> QED
    BY Zenon, <1>1, <2>1, <2>2 DEF SendMail, ShapeInv, BoxType
<1>2. ASSUME NEW w \in Workers, DrainRecv(w) PROVE BoxType'
  <2>1. run[w] \in Actors
    BY Zenon, <1>2 DEF DrainRecv, ShapeInv, WorkerInv, WorkerSound, InDrain
  <2>2. mailbox[run[w]] # <<>> => Tail(mailbox[run[w]]) \in Seq(Msgs)
    BY Zenon, <2>1, PopOn DEF ShapeInv, BoxType
  <2> QED
    BY Zenon, <1>2, <2>1, <2>2 DEF DrainRecv, ShapeInv, BoxType
<1>3. ASSUME JoinWorkersAndFree PROVE BoxType'
  BY Zenon, <1>3, NilOn DEF JoinWorkersAndFree, BoxType
<1> QED
  BY Zenon, <1>0, <1>1, <1>2, <1>3 DEF ShapeInv, BoxType

\* Each call goes on about the object it was made for.
LEMMA CallKept == ASSUME ShapeInv, Next PROVE CallInv'
<1>0. \/ UNCHANGED <<call, mpc>>
      \/ \E p \in Procs : (\E k \in Tasks : Spawn(p, k)) \/ (\E k \in Tasks : Join(p, k)) \/ (\E a \in Actors : Stop(p, a)) \/ (\E a \in Actors, m \in Msgs : Send(p, a, m)) \/ PushRun(p) \/ SendCount(p) \/ SendMail(p) \/ SendUndo(p) \/ EnqueueActor(p) \/ StopClose(p) \/ JoinCheck(p) \/ SpuriousWakeup(p)
      \/ \E w \in Workers : TaskSignal(w) \/ DrainMore(w) \/ BroadcastDrained(w)
      \/ CallWaitAll
      \/ CallFinish
      \/ WaitAll
      \/ SetStopping
      \/ JoinWorkersAndFree
  BY ZenonT(60) DEF Next, UserCall, CallStep, WorkerStep, MainStep, Terminated, vars, schedVars, actorVars,
      workVars, locals, posVars, WorkerTop, PopLocal, Steal, StealGlobal, IdleLeave, TaskReturn,
      PendingDec, DrainLock, DrainRecv, DrainDeliver, HandlerReturn, DrainEnd
<1> USE Kinds DEF ShapeInv, CallInv, Calls, CallSound, Sends, NoCall, MayCall, At, Goto, Return
<1>1. ASSUME NEW p \in Procs, NEW k \in Tasks, Spawn(p, k) PROVE CallInv'
  BY Zenon, <1>1 DEF Spawn
<1>2. ASSUME NEW p \in Procs, NEW k \in Tasks, Join(p, k) PROVE CallInv'
  BY Zenon, <1>2 DEF Join
<1>3. ASSUME NEW p \in Procs, NEW a \in Actors, Stop(p, a) PROVE CallInv'
  BY Zenon, <1>3 DEF Stop
<1>4. ASSUME NEW p \in Procs, NEW a \in Actors, NEW m \in Msgs, Send(p, a, m) PROVE CallInv'
  BY <1>4 DEF Send
<1>5. ASSUME NEW p \in Procs, PushRun(p) PROVE CallInv'
  BY Zenon, <1>5 DEF PushRun
<1>6. ASSUME NEW p \in Procs, SendCount(p) PROVE CallInv'
  BY <1>6 DEF SendCount
<1>7. ASSUME NEW p \in Procs, SendMail(p) PROVE CallInv'
  <2>1. CASE call' = [call EXCEPT ![p].pc = "enqueue"]
    BY <1>7, <2>1 DEF SendMail
  <2>2. CASE call' = [call EXCEPT ![p].pc = "undo"]
    BY <1>7, <2>2 DEF SendMail
  <2> QED
    BY Zenon, <1>7, <2>1, <2>2 DEF SendMail
<1>8. ASSUME NEW p \in Procs, SendUndo(p) PROVE CallInv'
  BY Zenon, <1>8 DEF SendUndo
<1>9. ASSUME NEW p \in Procs, EnqueueActor(p) PROVE CallInv'
  BY <1>9 DEF EnqueueActor
<1>10. ASSUME NEW p \in Procs, StopClose(p) PROVE CallInv'
  BY Zenon, <1>10 DEF StopClose
<1>11. ASSUME NEW p \in Procs, JoinCheck(p) PROVE CallInv'
  BY <1>11 DEF JoinCheck
<1>12. ASSUME NEW p \in Procs, SpuriousWakeup(p) PROVE CallInv'
  BY <1>12 DEF SpuriousWakeup
<1>13. ASSUME NEW w \in Workers, TaskSignal(w) PROVE CallInv'
  BY <1>13 DEF TaskSignal
<1>14. ASSUME NEW w \in Workers, DrainMore(w) PROVE CallInv'
  BY <1>14 DEF DrainMore, WorkerInv, WorkerSound, InDrain
<1>15. ASSUME NEW w \in Workers, BroadcastDrained(w) PROVE CallInv'
  BY Zenon, <1>15 DEF BroadcastDrained
<1>16. ASSUME CallWaitAll PROVE CallInv'
  BY <1>16 DEF CallWaitAll
<1>17. ASSUME CallFinish PROVE CallInv'
  BY <1>17 DEF CallFinish
<1>18. ASSUME WaitAll PROVE CallInv'
  BY Zenon, <1>18 DEF WaitAll
<1>19. ASSUME SetStopping PROVE CallInv'
  BY Zenon, <1>19 DEF SetStopping
<1>20. ASSUME JoinWorkersAndFree PROVE CallInv'
  BY Zenon, <1>20 DEF JoinWorkersAndFree
<1> QED
  BY ONLY Zenon, ShapeInv, <1>0, <1>1, <1>2, <1>3, <1>4, <1>5, <1>6, <1>7, <1>8, <1>9, <1>10, <1>11, <1>12, <1>13, <1>14, <1>15, <1>16, <1>17, <1>18, <1>19, <1>20 DEF ShapeInv, CallInv, CallSound

\* A worker's position changes only by its own steps.
LEMMA OutsideWorkers ==
  ASSUME Next
  PROVE  (\E w \in Workers : WorkerStep(w)) \/ UNCHANGED <<posVars, owed>>
<1>1. ASSUME NEW p \in Procs, UserCall(p) PROVE UNCHANGED <<posVars, owed>>
  BY <1>1, Zenon DEF UserCall, Spawn, Join, Stop, Send, workVars
<1>2. ASSUME NEW p \in Procs, CallStep(p) \/ SpuriousWakeup(p) PROVE UNCHANGED <<posVars, owed>>
  BY <1>2, Zenon DEF CallStep, PushRun, SendCount, SendMail, SendUndo, EnqueueActor, StopClose, JoinCheck, SpuriousWakeup, workVars
<1>3. ASSUME MainStep \/ CallWaitAll \/ Terminated PROVE UNCHANGED <<posVars, owed>>
  BY <1>3, Zenon DEF MainStep, CallWaitAll, CallFinish, WaitAll, SetStopping, JoinWorkersAndFree, Terminated, workVars, vars
<1> QED
  BY ONLY Next, <1>1, <1>2, <1>3 DEF Next

\* A worker's position and what it has in hand agree.
LEMMA WorkerKept == ASSUME ShapeInv, Next PROVE WorkerInv'
<1>0. \/ UNCHANGED <<wpc, run, cur, delivered, victim>>
      \/ \E w \in Workers : WorkerTop(w) \/ PopLocal(w) \/ Steal(w) \/ StealGlobal(w) \/ IdleLeave(w) \/ TaskReturn(w) \/ TaskSignal(w) \/ PendingDec(w) \/ BroadcastDrained(w) \/ DrainLock(w) \/ DrainRecv(w) \/ DrainDeliver(w) \/ HandlerReturn(w) \/ DrainEnd(w) \/ DrainMore(w)
  BY Zenon, OutsideWorkers DEF WorkerStep, posVars, locals
<1> USE Kinds DEF GoTo, InTask, InDrain, Ending, Off
<1>a. PosType /\ \A x \in Workers : WorkerSound(x)
  BY Zenon DEF ShapeInv, WorkerInv
<1>b. ASSUME NEW w \in Workers, wpc[w] \in {"pop", "steal"}, NEW r \in Runs, Begin(w, r), UNCHANGED <<cur, victim>>
      PROVE  WorkerInv'
  BY Zenon, <1>a, <1>b DEF WorkerInv, PosType, WorkerSound, Begin, Runs
<1>c. ASSUME NEW w \in Workers, NEW l \in Off \ {"more"}, wpc[w] \notin InDrain,
             wpc' = [wpc EXCEPT ![w] = l], victim' \in [Workers -> Nat], UNCHANGED <<run, cur, delivered>>
      PROVE  WorkerInv'
  BY Zenon, <1>a, <1>c DEF WorkerInv, PosType, WorkerSound
<1>d. ASSUME NEW w \in Workers, wpc[w] \in {"deliver", "handler"}, NEW f, Settle(w, f), UNCHANGED <<run, victim>>
      PROVE  WorkerInv'
  BY <1>a, <1>d DEF WorkerInv, PosType, WorkerSound, Settle
<1>1. ASSUME NEW w \in Workers, WorkerTop(w) PROVE WorkerInv'
  BY Zenon, <1>a, <1>c, <1>1 DEF WorkerTop, locals, PosType
<1>2. ASSUME NEW w \in Workers, PopLocal(w) PROVE WorkerInv'
  <2>1. local[w] # <<>> => Head(local[w]) \in Runs
    BY Zenon, PopOn DEF ShapeInv, QueueType
  <2>2. local[w] = <<>> => victim' \in [Workers -> Nat]
    BY <1>a, <1>2 DEF PopLocal, PosType
  <2> QED
    BY Zenon, <1>a, <1>b, <1>c, <1>2, <2>1, <2>2 DEF PopLocal
<1>3. ASSUME NEW w \in Workers, Steal(w) PROVE WorkerInv'
  <2>1. PICK v \in Workers : v = (w + victim[w]) % NWorkers
    BY Zenon, <1>a, VictimSound
  <2>2. CASE local[v] # <<>>
    <3>1. Head(local[v]) \in Runs
      BY Zenon, <2>2, PopOn DEF ShapeInv, QueueType
    <3> QED
      BY Zenon, <1>b, <1>3, <2>1, <2>2, <3>1 DEF Steal
  <2>3. CASE local[v] = <<>>
    BY <1>a, <1>3, <2>1, <2>3 DEF Steal, WorkerInv, PosType, WorkerSound
  <2> QED
    BY Zenon, <2>2, <2>3
<1>4. ASSUME NEW w \in Workers, StealGlobal(w) PROVE WorkerInv'
  <2>1. global # <<>> => Head(global) \in Runs
    BY Zenon, PopOn DEF ShapeInv, QueueType
  <2>2. UNCHANGED victim /\ victim \in [Workers -> Nat]
    BY Zenon, <1>a, <1>4 DEF StealGlobal, PosType
  <2> QED
    BY Zenon, <1>a, <1>b, <1>c, <1>4, <2>1, <2>2 DEF StealGlobal
<1>5. ASSUME NEW w \in Workers, IdleLeave(w) PROVE WorkerInv'
  BY Zenon, <1>a, <1>c, <1>5 DEF IdleLeave, locals, PosType
<1>6. ASSUME NEW w \in Workers, TaskReturn(w) PROVE WorkerInv'
  BY Zenon, <1>a, <1>6 DEF TaskReturn, AfterDec, locals, WorkerInv, PosType, WorkerSound, Runs
<1>7. ASSUME NEW w \in Workers, TaskSignal(w) PROVE WorkerInv'
  BY Zenon, <1>a, <1>7 DEF TaskSignal, AfterDec, locals, WorkerInv, PosType, WorkerSound, Runs
<1>8. ASSUME NEW w \in Workers, PendingDec(w) PROVE WorkerInv'
  BY Zenon, <1>a, <1>8 DEF PendingDec, AfterDec, locals, WorkerInv, PosType, WorkerSound, Runs
<1>9. ASSUME NEW w \in Workers, BroadcastDrained(w) PROVE WorkerInv'
  BY Zenon, <1>a, <1>9 DEF BroadcastDrained, AfterDec, locals, WorkerInv, PosType, WorkerSound, Runs
<1>10. ASSUME NEW w \in Workers, DrainLock(w) PROVE WorkerInv'
  BY Zenon, <1>a, <1>10 DEF DrainLock, AfterDec, locals, WorkerInv, PosType, WorkerSound, Runs
<1>11. ASSUME NEW w \in Workers, DrainRecv(w) PROVE WorkerInv'
  <2>1. mailbox[run[w]] # <<>> => Head(mailbox[run[w]]) \in Msgs
    BY <1>a, <1>11, PopOn DEF DrainRecv, ShapeInv, BoxType, WorkerSound
  <2>2. CASE mailbox[run[w]] # <<>>
    <3>1. PICK m \in Msgs : cur' = [cur EXCEPT ![w] = m] /\ wpc' = [wpc EXCEPT ![w] = "deliver"]
      BY Zenon, <1>11, <2>1, <2>2 DEF DrainRecv
    <3>2. UNCHANGED <<run, delivered, victim>> /\ wpc[w] = "recv"
      BY Zenon, <1>11 DEF DrainRecv
    <3> QED
      BY ONLY <1>a, <3>1, <3>2, Kinds, w \in Workers DEF WorkerInv, PosType, WorkerSound, InTask, InDrain, Ending, Off
  <2>3. CASE mailbox[run[w]] = <<>>
    BY Zenon, <1>a, <1>11, <2>3 DEF DrainRecv, WorkerInv, PosType, WorkerSound
  <2> QED
    BY Zenon, <2>2, <2>3
<1>12. ASSUME NEW w \in Workers, DrainDeliver(w) PROVE WorkerInv'
  BY <1>a, <1>d, <1>12 DEF DrainDeliver, WorkerInv, PosType, WorkerSound
<1>13. ASSUME NEW w \in Workers, HandlerReturn(w) PROVE WorkerInv'
  BY Zenon, <1>d, <1>13 DEF HandlerReturn
<1>14. ASSUME NEW w \in Workers, DrainEnd(w) PROVE WorkerInv'
  BY Zenon, <1>a, <1>14 DEF DrainEnd, AfterDec, locals, WorkerInv, PosType, WorkerSound, Runs
<1>15. ASSUME NEW w \in Workers, DrainMore(w) PROVE WorkerInv'
  BY Zenon, <1>a, <1>15 DEF DrainMore, AfterDec, locals, WorkerInv, PosType, WorkerSound, Runs
<1> QED
  BY ONLY Zenon, <1>a, <1>0, <1>1, <1>2, <1>3, <1>4, <1>5, <1>6, <1>7, <1>8, <1>9, <1>10, <1>11, <1>12, <1>13, <1>14, <1>15 DEF WorkerInv, PosType, WorkerSound

\* Where a worker is when it is inside a call.
LEMMA CallerKept == ASSUME ShapeInv, Next PROVE CallerInv'
<1>a. CallInv /\ PosType /\ CallerInv
  BY Zenon DEF ShapeInv, WorkerInv
<1> USE Kinds DEF CallerInv, CallInv, PosType
<1>1. ASSUME NEW p \in Procs, UserCall(p) PROVE CallerInv'
  <2>1. p \in Workers => wpc[p] \in {"task", "handler"}
    BY Zenon, <1>1 DEF UserCall, Spawn, Join, Stop, Send, MayCall
  <2>2. wpc' = wpc /\ \A x \in Procs : x # p => call'[x] = call[x]
    BY Zenon, <1>a, <1>1 DEF UserCall, Spawn, Join, Stop, Send, posVars
  <2> QED
    BY Zenon, <1>a, <2>1, <2>2
<1>2. ASSUME NEW p \in Procs, CallStep(p) PROVE CallerInv'
  <2>0. wpc' = wpc
    BY Zenon, <1>2 DEF CallStep, PushRun, SendCount, SendMail, SendUndo, EnqueueActor, StopClose, JoinCheck, posVars
  <2>1. \A x \in Procs : x # p => call'[x] = call[x]
    <3>1. CASE Return(p) \/ \E c : Goto(p, c)
      BY Zenon, <1>a, <3>1 DEF Return, Goto
    <3>2. CASE EnqueueActor(p)
      BY Zenon, <1>a, <3>2 DEF EnqueueActor, Return
    <3> QED
      BY Zenon, <1>2, <3>1, <3>2 DEF CallStep, PushRun, SendCount, SendMail, SendUndo, StopClose, JoinCheck
  <2>2. PushRun(p) \/ EnqueueActor(p) \/ call[p].pc \in Sends \cup {"close", "join"}
    BY Zenon, <1>2 DEF CallStep, SendCount, SendMail, SendUndo, StopClose, JoinCheck, At, Sends
  <2>3. PushRun(p) => call'[p].pc = "none"
    <3>1. PushRun(p) => Return(p)
      BY Zenon DEF PushRun
    <3> QED
      BY <1>a, <3>1 DEF Return, NoCall
  <2>4. EnqueueActor(p) => At(p, "enqueue") /\ call'[p].pc \in {"none", "push"}
    BY <1>a DEF EnqueueActor, Return, NoCall
  <2> QED
    BY Zenon, <1>a, <2>0, <2>1, <2>2, <2>3, <2>4 DEF At, Sends
<1>3. ASSUME NEW p \in Procs, SpuriousWakeup(p) PROVE CallerInv'
  BY Zenon, <1>a, <1>3 DEF SpuriousWakeup, At, Goto, posVars
<1>4. ASSUME NEW w \in Workers, TaskSignal(w) PROVE CallerInv'
  BY Zenon, <1>a, <1>4 DEF TaskSignal, GoTo
<1>5. ASSUME NEW w \in Workers, DrainMore(w) PROVE CallerInv'
  BY Zenon, <1>a, <1>5 DEF DrainMore, GoTo
<1>6. ASSUME NEW w \in Workers, WorkerStep(w), ~TaskSignal(w), ~DrainMore(w) PROVE CallerInv'
  <2>1. wpc[w] \in {"top", "task", "handler"} => WorkerTop(w) \/ TaskReturn(w) \/ HandlerReturn(w)
    BY Zenon, <1>6 DEF WorkerStep, PopLocal, Steal, StealGlobal, IdleLeave, PendingDec,
      BroadcastDrained, DrainLock, DrainRecv, DrainDeliver, DrainEnd
  <2>2. WorkerTop(w) \/ TaskReturn(w) \/ HandlerReturn(w) => call[w] = NoCall
    BY Zenon DEF WorkerTop, TaskReturn, HandlerReturn
  <2>3. call' = call
    BY Zenon, <1>6 DEF WorkerStep, WorkerTop, PopLocal, Steal, StealGlobal, IdleLeave, TaskReturn, PendingDec,
      BroadcastDrained, DrainLock, DrainRecv, DrainDeliver, HandlerReturn, DrainEnd
  <2>4. wpc' = wpc \/ \E l : GoTo(w, l)
    BY Zenon, <1>6 DEF WorkerStep, WorkerTop, PopLocal, Steal, StealGlobal, IdleLeave, TaskReturn, PendingDec,
      BroadcastDrained, DrainLock, DrainRecv, DrainDeliver, HandlerReturn, DrainEnd, Begin, Settle
  <2>5. \A v \in Workers : v # w => wpc'[v] = wpc[v]
    BY Zenon, <1>a, <2>4 DEF GoTo
  <2> QED
    BY <1>a, <2>1, <2>2, <2>3, <2>5 DEF NoCall
<1>7. ASSUME UNCHANGED <<call, wpc>> PROVE CallerInv'
  BY Zenon, <1>a, <1>7
<1>8. MainStep \/ CallWaitAll \/ Terminated => UNCHANGED <<call, wpc>>
  BY Zenon DEF MainStep, CallWaitAll, CallFinish, WaitAll, SetStopping, JoinWorkersAndFree, Terminated, vars, posVars
<1> QED
  BY ONLY Next, <1>1, <1>2, <1>3, <1>4, <1>5, <1>6, <1>7, <1>8 DEF Next

\* karkain_conc_init leaves the state in shape, and every step keeps it so.
LEMMA ShapeInitial == Init => ShapeInv
<1> SUFFICES ASSUME Init PROVE ShapeInv
  BY Zenon
<1>1. QueueType /\ BoxType
  <2>1. <<>> \in Seq(Runs) /\ <<>> \in Seq(Msgs)
    BY Zenon, NilOn
  <2> QED
    BY Zenon, <2>1 DEF Init, QueueType, BoxType
<1>2. CallInv
  BY Zenon, Kinds DEF Init, CallInv, CallSound, NoCall, Calls, Sends
<1>3. WorkerInv /\ CallerInv
  BY Zenon, Kinds DEF Init, WorkerInv, PosType, WorkerSound, CallerInv, NoCall, InTask, InDrain, Ending, Off
<1> QED
  BY Zenon, <1>1, <1>2, <1>3 DEF ShapeInv

\* Every step of the runtime keeps the shape of the state.
LEMMA ShapeStep == ShapeInv /\ [Next]_vars => ShapeInv'
<1> SUFFICES ASSUME ShapeInv, [Next]_vars PROVE ShapeInv'
  BY Zenon
<1>1. CASE Next
  BY Zenon, <1>1, QueueKept, BoxKept, CallKept, WorkerKept, CallerKept DEF ShapeInv
<1>2. CASE UNCHANGED vars
  BY Zenon, <1>2 DEF ShapeInv, QueueType, BoxType, CallInv, CallSound, WorkerInv, PosType, WorkerSound, CallerInv,
    NoCall, vars, schedVars, actorVars, locals, posVars
<1> QED
  BY Zenon, <1>1, <1>2

-----------------------------------------------------------------------------
(* Runs: in one place at most.                                             *)

PlacesSame ==
  /\ \A p \in Procs : Queue(p)' = Queue(p)
  /\ \A p \in Procs, x \in Runs : Pushes(p, x)' <=> Pushes(p, x)
  /\ \A v \in Workers, x \in Runs : Does(v, x)' <=> Does(v, x)

\* Nothing moves.
LEMMA RunFrame == ASSUME RunInv, PlacesSame, UNCHANGED <<queued, task>> PROVE RunInv'
<1>1. \A p \in Procs, x \in Runs : Queued(p, x)' <=> Queued(p, x)
  BY Zenon DEF PlacesSame, Queued
<1>2. \A x \in Runs : (Waiting(x)' <=> Waiting(x)) /\ (Running(x)' <=> Running(x))
  BY Zenon, <1>1 DEF PlacesSame, Waiting, Running
<1>3. \A x \in Runs : Once(x)'
  BY Zenon, <1>1, <1>2 DEF RunInv, PlacesSame, Once
<1>4. \A x \in Runs : Known(x)'
  BY Zenon, <1>2 DEF RunInv, Known
<1>5. \A p \in Procs : Distinct(Queue(p))'
  BY Zenon DEF RunInv, PlacesSame
<1> QED
  BY Zenon, <1>3, <1>4, <1>5 DEF RunInv

\* karkain_sched_spawn, karkain_sched_enqueue_actor: thread p is about to
\* push a run that was nowhere.
LEMMA RunArrives ==
  ASSUME RunInv, NEW r \in Runs, NEW p \in Procs, ~Waiting(r), ~Running(r),
         \A q \in Procs : Queue(q)' = Queue(q),
         \A q \in Procs, x \in Runs : Pushes(q, x)' <=> Pushes(q, x) \/ (q = p /\ x = r),
         \A v \in Workers, x \in Runs : Does(v, x)' <=> Does(v, x),
         queued' = IF r \in Actors THEN [queued EXCEPT ![r] = TRUE] ELSE queued,
         task' = IF r \in Actors THEN task ELSE [task EXCEPT ![r] = "spawned"]
  PROVE  RunInv'
<1>1. \A q \in Procs, x \in Runs : Queued(q, x)' <=> Queued(q, x)
  BY Zenon DEF Queued
<1>2. \A x \in Runs : (Waiting(x)' <=> Waiting(x) \/ x = r) /\ (Running(x)' <=> Running(x))
  BY Zenon, <1>1 DEF Waiting, Running
<1>3. \A x \in Runs : x # r => Once(x)'
  BY Zenon, <1>1, <1>2 DEF RunInv, Once
<1>4. Once(r)'
  <2>1. \A q \in Procs : ~Queued(q, r)' /\ (Pushes(q, r)' <=> q = p)
    BY Zenon, <1>1 DEF Waiting
  <2>2. \A v \in Workers : ~Does(v, r)'
    BY Zenon DEF Running
  <2> QED
    BY Zenon, <1>2, <2>1, <2>2 DEF Once
<1>5. \A x \in Runs : Known(x)'
  BY Zenon, <1>2, Kinds DEF RunInv, Known
<1>6. (queued \in [Actors -> BOOLEAN])' /\ (task \in [Tasks -> {"fresh", "spawned", "running", "finished"}])'
  BY Zenon, Kinds DEF RunInv
<1>7. \A q \in Procs : Distinct(Queue(q))'
  BY Zenon DEF RunInv
<1> QED
  BY Zenon, <1>3, <1>4, <1>5, <1>6, <1>7 DEF RunInv

\* karkain_sched_push_run: the run is in the queue, and nobody's to push.
LEMMA RunLands ==
  ASSUME RunInv, NEW r \in Runs, NEW p \in Procs, Pushes(p, r), Queue(p) \in Seq(Runs),
         Queue(p)' = <<r>> \o Queue(p),
         \A q \in Procs : q # p => Queue(q)' = Queue(q),
         \A q \in Procs, x \in Runs : Pushes(q, x)' <=> Pushes(q, x) /\ q # p,
         \A v \in Workers, x \in Runs : Does(v, x)' <=> Does(v, x),
         UNCHANGED <<queued, task>>
  PROVE  RunInv'
<1>0. \A x \in Runs : Pushes(p, x) => x = r
  BY Zenon DEF Pushes
<1>a. Once(r) /\ ~Queued(p, r) /\ Distinct(Queue(p))
  BY Zenon DEF RunInv, Once
<1>b. PICK q1, q2 : q1 = Queue(p) /\ q2 = Queue(p)'
  BY Zenon
<1>c. Distinct(q2) /\ \A x : On(q2, x) <=> On(q1, x) \/ x = r
  BY <1>a, <1>b, PushOn DEF Queued
<1>d. \A x \in Runs : (Queued(p, x) <=> On(q1, x)) /\ (Queued(p, x)' <=> On(q2, x))
  BY Zenon, <1>b DEF Queued
<1>1. \A q \in Procs, x \in Runs : Queued(q, x)' <=> Queued(q, x) \/ (q = p /\ x = r)
  BY Zenon, <1>c, <1>d DEF Queued
<1>2. \A x \in Runs : (Waiting(x)' <=> Waiting(x)) /\ (Running(x)' <=> Running(x))
  <2>1. \A x \in Runs : x # r => (Waiting(x)' <=> Waiting(x))
    BY Zenon, <1>0, <1>1 DEF Waiting
  <2>2. Waiting(r) /\ Waiting(r)'
    BY Zenon, <1>1 DEF Waiting
  <2>3. \A x \in Runs : Running(x)' <=> Running(x)
    BY Zenon DEF Running
  <2> QED
    BY Zenon, <2>1, <2>2, <2>3
<1>3. \A x \in Runs : x # r => Once(x)'
  BY Zenon, <1>0, <1>1, <1>2 DEF RunInv, Once
<1>4. Once(r)'
  <2>1. \A q \in Procs : ~Queued(q, r) /\ (Pushes(q, r) <=> q = p)
    BY Zenon, <1>a DEF Once
  <2>2. \A q \in Procs : ~Pushes(q, r)' /\ (Queued(q, r)' <=> q = p)
    BY Zenon, <1>1, <2>1
  <2> QED
    BY Zenon, <1>2, <1>a, <2>2 DEF Once
<1>5. \A x \in Runs : Known(x)'
  BY Zenon, <1>2 DEF RunInv, Known
<1>6. \A q \in Procs : Distinct(Queue(q))'
  BY Zenon, <1>b, <1>c DEF RunInv
<1> QED
  BY Zenon, <1>3, <1>4, <1>5, <1>6 DEF RunInv

\* Pop and steal: worker w, which has no run, takes the front of a queue.
LEMMA RunTaken ==
  ASSUME RunInv, NEW p \in Procs, NEW w \in Workers, Queue(p) \in Seq(Runs), Queue(p) # <<>>,
         NEW r \in Runs, r = Head(Queue(p)), Queue(p)' = Tail(Queue(p)),
         \A q \in Procs : q # p => Queue(q)' = Queue(q),
         \A q \in Procs, x \in Runs : Pushes(q, x)' <=> Pushes(q, x),
         \A v \in Workers, x \in Runs : Does(v, x)' <=> Does(v, x) \/ (v = w /\ x = r),
         UNCHANGED queued,
         task' = IF r \in Tasks THEN [task EXCEPT ![r] = "running"] ELSE task
  PROVE  RunInv'
<1>a. Once(r) /\ Distinct(Queue(p))
  BY Zenon DEF RunInv
<1>b. PICK q1, q2 : q1 = Queue(p) /\ q2 = Queue(p)'
  BY Zenon
<1>c. On(q1, r) /\ Distinct(q2) /\ \A x : On(q2, x) <=> On(q1, x) /\ x # r
  BY Zenon, <1>a, <1>b, PopOn
<1>d. \A x \in Runs : (Queued(p, x) <=> On(q1, x)) /\ (Queued(p, x)' <=> On(q2, x))
  BY Zenon, <1>b DEF Queued
<1>e. Queued(p, r) /\ Waiting(r)
  BY Zenon, <1>c, <1>d DEF Waiting
<1>f. \A q \in Procs : (Queued(q, r) <=> q = p) /\ ~Pushes(q, r)
  BY Zenon, <1>a, <1>e DEF Once
<1>g. ~Running(r)
  BY Zenon, <1>a, <1>e DEF Once
<1>1. \A q \in Procs, x \in Runs : Queued(q, x)' <=> Queued(q, x) /\ x # r
  BY Zenon, <1>c, <1>d, <1>f DEF Queued
<1>2. \A x \in Runs : (Waiting(x)' <=> Waiting(x) /\ x # r) /\ (Running(x)' <=> Running(x) \/ x = r)
  <2>1. \A x \in Runs : Waiting(x)' <=> Waiting(x) /\ x # r
    BY Zenon, <1>1, <1>f DEF Waiting
  <2>2. \A x \in Runs : Running(x)' <=> Running(x) \/ x = r
    BY Zenon DEF Running
  <2> QED
    BY Zenon, <2>1, <2>2
<1>3. \A x \in Runs : x # r => Once(x)'
  BY Zenon, <1>1, <1>2 DEF RunInv, Once
<1>4. Once(r)'
  <2>1. \A q \in Procs : ~Pushes(q, r)' /\ ~Queued(q, r)'
    BY Zenon, <1>1, <1>f
  <2>2. \A v \in Workers : Does(v, r)' <=> v = w
    BY Zenon, <1>g DEF Running
  <2> QED
    BY Zenon, <1>2, <2>1, <2>2 DEF Once
<1>5. \A x \in Runs : Known(x)'
  BY Zenon, <1>2, <1>e, Kinds DEF RunInv, Known
<1>6. (task \in [Tasks -> {"fresh", "spawned", "running", "finished"}])'
  BY Zenon DEF RunInv
<1>7. \A q \in Procs : Distinct(Queue(q))'
  BY Zenon, <1>b, <1>c DEF RunInv
<1> QED
  BY Zenon, <1>3, <1>4, <1>5, <1>6, <1>7 DEF RunInv

\* The end of a drain clears `queued`, the end of a task finishes it: the run
\* is nowhere.
LEMMA RunLeaves ==
  ASSUME RunInv, NEW w \in Workers, NEW r \in Runs, Does(w, r),
         \A q \in Procs : Queue(q)' = Queue(q),
         \A q \in Procs, x \in Runs : Pushes(q, x)' <=> Pushes(q, x),
         \A v \in Workers, x \in Runs : Does(v, x)' <=> Does(v, x) /\ v # w,
         queued' = IF r \in Actors THEN [queued EXCEPT ![r] = FALSE] ELSE queued,
         task' = IF r \in Actors THEN task ELSE [task EXCEPT ![r] = "finished"]
  PROVE  RunInv'
<1>0. \A x \in Runs : Does(w, x) => x = r
  BY Zenon DEF Does
<1>a. Once(r) /\ Running(r) /\ ~Waiting(r)
  BY Zenon DEF RunInv, Once, Running
<1>b. \A v \in Workers : Does(v, r) <=> v = w
  BY Zenon, <1>a DEF Once
<1>1. \A q \in Procs, x \in Runs : Queued(q, x)' <=> Queued(q, x)
  BY Zenon DEF Queued
<1>2. \A x \in Runs : (Waiting(x)' <=> Waiting(x)) /\ (Running(x)' <=> Running(x) /\ x # r)
  <2>1. \A x \in Runs : Waiting(x)' <=> Waiting(x)
    BY Zenon, <1>1 DEF Waiting
  <2>2. \A x \in Runs : Running(x)' <=> Running(x) /\ x # r
    BY Zenon, <1>0, <1>b DEF Running
  <2> QED
    BY Zenon, <2>1, <2>2
<1>3. \A x \in Runs : Once(x)'
  BY Zenon, <1>1, <1>2 DEF RunInv, Once
<1>4. \A x \in Runs : Known(x)'
  BY Zenon, <1>2, <1>a, Kinds DEF RunInv, Known
<1>5. (queued \in [Actors -> BOOLEAN])' /\ (task \in [Tasks -> {"fresh", "spawned", "running", "finished"}])'
  BY Zenon, Kinds DEF RunInv
<1>6. \A q \in Procs : Distinct(Queue(q))'
  BY Zenon DEF RunInv
<1> QED
  BY Zenon, <1>3, <1>4, <1>5, <1>6 DEF RunInv

\* Calls that push nothing leave the pushes alone.
LEMMA PushesSame ==
  ASSUME CallInv, NEW p \in Procs, call[p].pc # "push", call'[p].pc # "push",
         \A x \in Procs : x # p => call'[x] = call[x]
  PROVE  \A q \in Procs, x \in Runs : Pushes(q, x)' <=> Pushes(q, x)
  BY Zenon DEF Pushes

\* Every step keeps each run in one place at most.
LEMMA RunKept == ASSUME ShapeInv, RunInv, Next PROVE RunInv'
<1>a. QueueType /\ CallInv /\ CallerInv /\ PosType /\ \A x \in Workers : WorkerSound(x)
  BY Zenon DEF ShapeInv, WorkerInv
<1>b. UNCHANGED <<global, local>> => \A q \in Procs : Queue(q)' = Queue(q)
  BY Zenon DEF Queue
<1>c. UNCHANGED call => \A q \in Procs, x \in Runs : Pushes(q, x)' <=> Pushes(q, x)
  BY Zenon DEF Pushes
<1>d. UNCHANGED <<wpc, run>> => \A v \in Workers, x \in Runs : Does(v, x)' <=> Does(v, x)
  BY Zenon DEF Does
<1>e. ASSUME NEW p \in Procs, NEW r \in Runs, call[p].pc # "push",
             call' = [call EXCEPT ![p] = [pc |-> "push", obj |-> r, m |-> None]]
      PROVE  \A q \in Procs, x \in Runs : Pushes(q, x)' <=> Pushes(q, x) \/ (q = p /\ x = r)
  BY Zenon, <1>a, <1>e DEF Pushes, CallInv
<1>1. ASSUME NEW p \in Procs, NEW k \in Tasks, Spawn(p, k) PROVE RunInv'
  <2>1. call[p].pc # "push" /\ task[k] = "fresh" /\ UNCHANGED <<global, local, wpc, run, queued>>
        /\ task' = [task EXCEPT ![k] = "spawned"]
        /\ call' = [call EXCEPT ![p] = [pc |-> "push", obj |-> k, m |-> None]]
    BY <1>1 DEF Spawn, MayCall, NoCall, actorVars, posVars, locals
  <2>2. ~Waiting(k) /\ ~Running(k) /\ k \in Runs /\ k \notin Actors
    BY Zenon, <2>1, Kinds DEF RunInv, Known
  <2> QED
    BY Zenon, <1>b, <1>d, <1>e, <2>1, <2>2, RunArrives
<1>2. ASSUME NEW p \in Procs, EnqueueActor(p) PROVE RunInv'
  <2>1. PICK a \in Actors : a = call[p].obj
    BY Zenon, <1>a, <1>2 DEF EnqueueActor, At, CallInv, CallSound
  <2>2. call[p].pc = "enqueue" /\ UNCHANGED <<global, local, wpc, run, task>>
    BY Zenon, <1>2 DEF EnqueueActor, At, schedVars, workVars, posVars, locals
  <2>3. CASE CanEnqueue(a)
    <3>1. queued' = [queued EXCEPT ![a] = TRUE] /\ call' = [call EXCEPT ![p] = [pc |-> "push", obj |-> a, m |-> None]]
      BY Zenon, <1>2, <2>1, <2>3 DEF EnqueueActor
    <3>2. ~Waiting(a) /\ ~Running(a) /\ a \in Runs
      BY Zenon, <2>3, Kinds DEF RunInv, Known, CanEnqueue
    <3> QED
      BY Zenon, <1>b, <1>d, <1>e, <2>2, <3>1, <3>2, RunArrives
  <2>4. CASE ~CanEnqueue(a)
    <3>1. Return(p) /\ UNCHANGED queued
      BY Zenon, <1>2, <2>1, <2>4 DEF EnqueueActor
    <3>2. \A q \in Procs, x \in Runs : Pushes(q, x)' <=> Pushes(q, x)
      BY Zenon, <1>a, <2>2, <3>1 DEF Return, NoCall, Pushes, CallInv
    <3> QED
      BY Zenon, <1>b, <1>d, <2>2, <3>1, <3>2, RunFrame DEF PlacesSame
  <2> QED
    BY Zenon, <2>3, <2>4
<1>3. ASSUME NEW p \in Procs, PushRun(p) PROVE RunInv'
  <2>1. PICK r \in Runs : r = call[p].obj
    BY Zenon, <1>a, <1>3 DEF PushRun, At, CallInv, CallSound
  <2>2. Pushes(p, r) /\ Return(p) /\ UNCHANGED <<queued, task, wpc, run>>
    BY Zenon, <1>3, <2>1 DEF PushRun, At, Pushes, actorVars, workVars, posVars, locals
  <2>3. \A q \in Procs, x \in Runs : Pushes(q, x)' <=> Pushes(q, x) /\ q # p
    BY Zenon, <1>a, <2>2 DEF Return, NoCall, Pushes, CallInv
  <2>4. Queue(p) \in Seq(Runs) /\ Queue(p)' = <<r>> \o Queue(p)
        /\ \A q \in Procs : q # p => Queue(q)' = Queue(q)
    <3>1. CASE p = Main
      <4>1. global' = <<r>> \o global /\ local' = local
        BY Zenon, <1>3, <2>1, <3>1, Kinds DEF PushRun
      <4> QED
        BY Zenon, <1>a, <3>1, <4>1, Kinds DEF Queue, QueueType
    <3>2. CASE p \in Workers /\ p # Main
      <4>1. local' = [local EXCEPT ![p] = <<r>> \o local[p]] /\ global' = global
        BY Zenon, <1>3, <2>1, <3>2, Kinds DEF PushRun
      <4> QED
        BY Zenon, <1>a, <3>2, <4>1, Kinds DEF Queue, QueueType
    <3> QED
      BY Zenon, <3>1, <3>2, Kinds
  <2> QED
    BY Zenon, <1>d, <2>2, <2>3, <2>4, RunLands
<1>f. ASSUME NEW w \in Workers, wpc[w] \in {"pop", "steal"}, NEW r \in Runs, Begin(w, r)
      PROVE  \A v \in Workers, x \in Runs : Does(v, x)' <=> Does(v, x) \/ (v = w /\ x = r)
  BY Zenon, <1>a, <1>f, Kinds DEF Begin, GoTo, Does, PosType, InDrain, Runs
<1>g. ASSUME NEW w \in Workers, NEW v \in Workers, wpc[w] \in {"pop", "steal"}, local[v] # <<>>,
             Begin(w, Head(local[v])), local' = [local EXCEPT ![v] = Tail(@)],
             UNCHANGED <<global, call, queued>>
      PROVE  RunInv'
  <2>1. Queue(v) = local[v] /\ Queue(v)' = Tail(local[v]) /\ local[v] \in Seq(Runs)
        /\ \A q \in Procs : q # v => Queue(q)' = Queue(q)
    BY Zenon, <1>a, <1>g, Kinds DEF Queue, QueueType
  <2>2. Head(local[v]) \in Runs /\ v \in Procs
    BY Zenon, <1>g, <2>1, PopOn, Kinds
  <2>3. task' = IF Head(local[v]) \in Tasks THEN [task EXCEPT ![Head(local[v])] = "running"] ELSE task
    BY Zenon, <1>g DEF Begin
  <2> QED
    BY <1>c, <1>f, <1>g, <2>1, <2>2, <2>3, RunTaken
<1>4. ASSUME NEW w \in Workers, PopLocal(w) PROVE RunInv'
  <2>1. CASE local[w] # <<>>
    BY Zenon, <1>4, <1>g, <2>1 DEF PopLocal, actorVars
  <2>2. CASE local[w] = <<>>
    <3>1. wpc[w] = "pop" /\ GoTo(w, "steal") /\ UNCHANGED <<global, local, call, run, queued, task>>
      BY Zenon, <1>4, <2>2 DEF PopLocal, actorVars
    <3>2. \A v \in Workers, x \in Runs : Does(v, x)' <=> Does(v, x)
      BY Zenon, <1>a, <3>1 DEF GoTo, Does, PosType, InDrain
    <3> QED
      BY Zenon, <1>b, <1>c, <3>1, <3>2, RunFrame DEF PlacesSame
  <2> QED
    BY Zenon, <2>1, <2>2
<1>5. ASSUME NEW w \in Workers, Steal(w) PROVE RunInv'
  <2>1. PICK v \in Workers : v = (w + victim[w]) % NWorkers
    BY Zenon, <1>a, VictimSound
  <2>2. CASE local[v] # <<>>
    BY Zenon, <1>5, <1>g, <2>1, <2>2 DEF Steal, actorVars
  <2>3. CASE local[v] = <<>>
    <3>1. UNCHANGED <<global, local, call, wpc, run, queued, task>>
      BY Zenon, <1>5, <2>1, <2>3 DEF Steal, actorVars
    <3> QED
      BY Zenon, <1>b, <1>c, <1>d, <3>1, RunFrame DEF PlacesSame
  <2> QED
    BY Zenon, <2>2, <2>3
<1>6. ASSUME NEW w \in Workers, StealGlobal(w) PROVE RunInv'
  <2>0. wpc[w] = "steal" /\ UNCHANGED <<local, call, queued>>
    BY Zenon, <1>6 DEF StealGlobal, actorVars
  <2>1. CASE global # <<>>
    <3>1. Begin(w, Head(global)) /\ global' = Tail(global)
      BY Zenon, <1>6, <2>1 DEF StealGlobal
    <3>2. Queue(Main) = global /\ Queue(Main)' = Tail(global) /\ global \in Seq(Runs)
          /\ \A q \in Procs : q # Main => Queue(q)' = Queue(q)
      BY Zenon, <1>a, <2>0, <3>1, Kinds DEF Queue, QueueType
    <3>3. Head(global) \in Runs /\ Main \in Procs
      BY Zenon, <2>1, <3>2, PopOn, Kinds
    <3>4. task' = IF Head(global) \in Tasks THEN [task EXCEPT ![Head(global)] = "running"] ELSE task
      BY Zenon, <3>1 DEF Begin
    <3> QED
      BY <1>c, <1>f, <2>0, <2>1, <3>1, <3>2, <3>3, <3>4, RunTaken
  <2>2. CASE global = <<>>
    <3>1. GoTo(w, "idle") /\ UNCHANGED <<global, run, task>>
      BY Zenon, <1>6, <2>2 DEF StealGlobal
    <3>2. \A v \in Workers, x \in Runs : Does(v, x)' <=> Does(v, x)
      BY Zenon, <1>a, <2>0, <3>1 DEF GoTo, Does, PosType, InDrain
    <3> QED
      BY Zenon, <1>b, <1>c, <2>0, <3>1, <3>2, RunFrame DEF PlacesSame
  <2> QED
    BY Zenon, <2>1, <2>2
<1>7. ASSUME NEW w \in Workers, PendingDec(w) PROVE RunInv'
  <2>1. UNCHANGED <<global, local, call, run, queued>> /\ wpc[w] = "dec" /\ \E l : GoTo(w, l) /\ l \in {"drained", "top", "more"}
    BY Zenon, <1>7 DEF PendingDec, actorVars, locals, AfterDec
  <2>2. CASE run[w] \in Tasks
    <3>1. Does(w, run[w]) /\ run[w] \in Runs /\ run[w] \notin Actors
      BY Zenon, <2>1, <2>2, Kinds DEF Does
    <3>2. task' = [task EXCEPT ![run[w]] = "finished"]
      BY Zenon, <1>7, <2>2 DEF PendingDec
    <3>3. \A v \in Workers, x \in Runs : Does(v, x)' <=> Does(v, x) /\ v # w
      BY Zenon, <1>a, <2>1 DEF GoTo, Does, PosType, InDrain
    <3> QED
      BY Zenon, <1>b, <1>c, <2>1, <3>1, <3>2, <3>3, RunLeaves
  <2>3. CASE run[w] \notin Tasks
    <3>1. \A v \in Workers, x \in Runs : Does(v, x)' <=> Does(v, x)
      BY Zenon, <1>a, <2>1, <2>3 DEF GoTo, Does, PosType, InDrain
    <3>2. task' = task
      BY Zenon, <1>7, <2>3 DEF PendingDec
    <3> QED
      BY Zenon, <1>b, <1>c, <2>1, <3>1, <3>2, RunFrame DEF PlacesSame
  <2> QED
    BY Zenon, <2>2, <2>3
<1>8. ASSUME NEW w \in Workers, DrainEnd(w) PROVE RunInv'
  <2>1. UNCHANGED <<global, local, call, run, task>> /\ wpc[w] = "empty" /\ \E l : GoTo(w, l) /\ l \in {"dec", "more"}
    BY Zenon, <1>8 DEF DrainEnd, schedVars, locals, workVars
  <2>2. run[w] \in Actors /\ run[w] \in Runs /\ run[w] \notin Tasks /\ Does(w, run[w])
    BY Zenon, <1>a, <2>1, Kinds DEF WorkerSound, InDrain, Does
  <2>3. queued' = [queued EXCEPT ![run[w]] = FALSE]
    BY Zenon, <1>8 DEF DrainEnd
  <2>4. \A v \in Workers, x \in Runs : Does(v, x)' <=> Does(v, x) /\ v # w
    BY Zenon, <1>a, <2>1, <2>2 DEF GoTo, Does, PosType, InDrain
  <2> QED
    BY Zenon, <1>b, <1>c, <2>1, <2>2, <2>3, <2>4, RunLeaves
\* The other actions move nothing.
<1>h. ASSUME UNCHANGED <<global, local, queued, task>>, \A q \in Procs, x \in Runs : Pushes(q, x)' <=> Pushes(q, x),
             \A v \in Workers, x \in Runs : Does(v, x)' <=> Does(v, x)
      PROVE  RunInv'
  BY Zenon, <1>b, <1>h, RunFrame DEF PlacesSame
<1>9. ASSUME NEW p \in Procs, UserCall(p) \/ CallStep(p) \/ SpuriousWakeup(p),
             ~(\E k \in Tasks : Spawn(p, k)), ~EnqueueActor(p), ~PushRun(p)
      PROVE  RunInv'
  <2>1. UNCHANGED <<global, local, queued, task, wpc, run>>
    BY Zenon, <1>9 DEF UserCall, CallStep, SpuriousWakeup, Join, Stop, Send, SendCount, SendMail, SendUndo, StopClose, JoinCheck,
      schedVars, actorVars, workVars, posVars, locals
  <2>2. call[p].pc = "push" => call' = call
    <3>1. CASE UserCall(p)
      BY <1>9, <3>1 DEF UserCall, Join, Stop, Send, MayCall, NoCall
    <3>2. CASE CallStep(p)
      BY Zenon, <1>9, <3>2 DEF CallStep, SendCount, SendMail, SendUndo, StopClose, JoinCheck, At
    <3>3. CASE SpuriousWakeup(p)
      BY Zenon, <3>3 DEF SpuriousWakeup, At
    <3> QED
      BY Zenon, <1>9, <3>1, <3>2, <3>3
  <2>3. \/ call' = call \/ Return(p) \/ \E c \in {"mail", "enqueue", "undo", "asleep", "join"} : Goto(p, c)
        \/ \E c : c.pc # "push" /\ call' = [call EXCEPT ![p] = c]
    BY Zenon, <1>9 DEF UserCall, CallStep, SpuriousWakeup, Join, Stop, Send, SendCount, SendMail, SendUndo, StopClose, JoinCheck
  <2>4. \A q \in Procs, x \in Runs : Pushes(q, x)' <=> Pushes(q, x)
    BY <1>a, <1>c, <2>2, <2>3 DEF Return, Goto, NoCall, Pushes, CallInv
  <2> QED
    BY Zenon, <1>d, <1>h, <2>1, <2>4
<1>10. ASSUME NEW w \in Workers, \/ WorkerTop(w) \/ IdleLeave(w) \/ TaskReturn(w) \/ TaskSignal(w) \/ BroadcastDrained(w)
                                \/ DrainLock(w) \/ DrainRecv(w) \/ DrainDeliver(w) \/ HandlerReturn(w) \/ DrainMore(w)
      PROVE  RunInv'
  <2>1. UNCHANGED <<global, local, queued, task, run>>
    BY Zenon, <1>10 DEF WorkerTop, IdleLeave, TaskReturn, TaskSignal, BroadcastDrained, DrainLock, DrainRecv, DrainDeliver,
      HandlerReturn, DrainMore, schedVars, actorVars, workVars, locals
  <2>2. \A q \in Procs, x \in Runs : Pushes(q, x)' <=> Pushes(q, x)
    <3>1. CASE TaskSignal(w)
      BY Zenon, <1>a, <3>1 DEF TaskSignal, Pushes, CallInv
    <3>2. CASE DrainMore(w)
      <4>1. wpc[w] = "more" /\ call[w].pc = "none" /\ w \in Procs
        BY Zenon, <1>a, <3>2, Kinds DEF DrainMore, CallerInv
      <4>2. call'[w].pc \in {"none", "enqueue"} /\ \A x \in Procs : x # w => call'[x] = call[x]
        BY Zenon, <1>a, <3>2, <4>1 DEF DrainMore, CallInv
      <4> QED
        BY Zenon, <1>a, <4>1, <4>2, PushesSame
    <3>3. CASE call' = call
      BY Zenon, <1>c, <3>3
    <3> QED
      BY Zenon, <1>10, <3>1, <3>2, <3>3 DEF WorkerTop, IdleLeave, TaskReturn, BroadcastDrained, DrainLock, DrainRecv, DrainDeliver, HandlerReturn
  <2>3. \E l : /\ GoTo(w, l)
               /\ \/ wpc[w] \in Off \cup {"drained"} /\ l \in Off
                  \/ wpc[w] = "task" /\ l = "signal"
                  \/ wpc[w] = "signal" /\ l = "dec"
                  \/ wpc[w] \in InDrain /\ l \in InDrain
    <3>1. CASE WorkerTop(w) \/ IdleLeave(w) \/ BroadcastDrained(w) \/ DrainMore(w)
      BY Zenon, <3>1 DEF WorkerTop, IdleLeave, BroadcastDrained, DrainMore, AfterDec, Off
    <3>2. CASE TaskReturn(w) \/ TaskSignal(w)
      BY Zenon, <3>2 DEF TaskReturn, TaskSignal
    <3>3. CASE DrainLock(w) \/ DrainRecv(w) \/ DrainDeliver(w) \/ HandlerReturn(w)
      BY Zenon, <3>3 DEF DrainLock, DrainRecv, DrainDeliver, HandlerReturn, Settle, InDrain
    <3> QED
      BY Zenon, <1>10, <3>1, <3>2, <3>3
  <2>4. \A v \in Workers, x \in Runs : Does(v, x)' <=> Does(v, x)
    BY Zenon, <1>a, <2>1, <2>3, Kinds DEF GoTo, Does, PosType, WorkerSound, Off, InTask, InDrain
  <2> QED
    BY Zenon, <1>h, <2>1, <2>2, <2>4
<1>11. ASSUME MainStep \/ CallWaitAll \/ Terminated PROVE RunInv'
  <2>1. UNCHANGED <<global, local, queued, task, wpc, run, call>>
    BY Zenon, <1>11 DEF MainStep, CallWaitAll, CallFinish, WaitAll, SetStopping, JoinWorkersAndFree, Terminated, vars, schedVars, actorVars, workVars, locals, posVars
  <2> QED
    BY Zenon, <1>c, <1>d, <1>h, <2>1
<1> QED
  BY ONLY Next, <1>1, <1>2, <1>3, <1>4, <1>5, <1>6, <1>7, <1>8, <1>9, <1>10, <1>11 DEF Next, WorkerStep

\* At karkain_conc_init there is nothing to run.
LEMMA RunInitial == Init => RunInv
<1> SUFFICES ASSUME Init PROVE RunInv
  BY Zenon
<1>1. \A p \in Procs : Queue(p) = <<>>
  BY Zenon, Kinds DEF Init, Queue
<1>2. \A p \in Procs, r \in Runs : ~Queued(p, r) /\ ~Pushes(p, r)
  BY Zenon, <1>1, NilOn DEF Init, Queued, Pushes, NoCall
<1>3. \A w \in Workers, r \in Runs : ~Does(w, r)
  BY Zenon DEF Init, Does, InDrain
<1>4. \A r \in Runs : ~Waiting(r) /\ ~Running(r)
  BY Zenon, <1>2, <1>3 DEF Waiting, Running
<1>5. \A r \in Runs : Once(r) /\ Known(r)
  BY Zenon, <1>2, <1>3, <1>4 DEF Once, Known, Init
<1>6. \A p \in Procs : Distinct(Queue(p))
  BY Zenon, <1>1, NilOn
<1> QED
  BY Zenon, <1>5, <1>6 DEF RunInv, Init

\* Every step keeps each task and actor in one place.
LEMMA RunStep == ShapeInv /\ RunInv /\ [Next]_vars => RunInv'
<1> SUFFICES ASSUME ShapeInv, RunInv, UNCHANGED vars PROVE RunInv'
  BY Zenon, RunKept
<1>1. PlacesSame /\ UNCHANGED <<queued, task>>
  BY Zenon DEF PlacesSame, Queue, Pushes, Does, vars, schedVars, actorVars, workVars, locals, posVars
<1> QED
  BY Zenon, <1>1, RunFrame

-----------------------------------------------------------------------------
(* Messages: in one hand at most.                                          *)

\* A message that nobody gets hold of keeps its place.
LEMMA PlacedSame ==
  ASSUME NEW m \in Msgs, Placed(m), fate'[m] = fate[m],
         \A p \in Procs : Sending(p, m)' => Sending(p, m) /\ call'[p].pc = call[p].pc,
         \A a \in Actors : Boxed(a, m)' => Boxed(a, m),
         \A w \in Workers : (cur'[w] = m => cur[w] = m) /\ (m \in owed'[w] => m \in owed[w])
  PROVE  Placed(m)'
  BY Zenon DEF Placed

\* karkain_actor_send, the drain and the decrement: every message stays where
\* its fate says it is.
LEMMA MsgKept == ASSUME ShapeInv, MsgInv, Next PROVE MsgInv'
<1>a. BoxType /\ CallInv /\ CallerInv /\ PosType /\ \A x \in Workers : WorkerSound(x)
  BY Zenon DEF ShapeInv, WorkerInv
<1>b. fate \in [Msgs -> Fates] /\ owed \in [Workers -> SUBSET Msgs] /\ \A m \in Msgs : Placed(m)
  BY Zenon DEF MsgInv
<1>c. UNCHANGED mailbox => (\A a \in Actors : Distinct(mailbox[a])') /\ \A a \in Actors, x \in Msgs : Boxed(a, x)' => Boxed(a, x)
  BY Zenon DEF MsgInv, Boxed
<1>d. UNCHANGED call => \A p \in Procs, x \in Msgs : Sending(p, x)' => Sending(p, x) /\ call'[p].pc = call[p].pc
  BY Zenon DEF Sending
<1>e. ASSUME NEW p \in Procs, \A q \in Procs : q # p => call'[q] = call[q]
      PROVE  \A q \in Procs, x \in Msgs : q # p => (Sending(q, x)' <=> Sending(q, x)) /\ call'[q].pc = call[q].pc
  BY Zenon, <1>e DEF Sending
<1>1. ASSUME NEW p \in Procs, NEW a \in Actors, NEW m \in Msgs, Send(p, a, m) PROVE MsgInv'
  <2>1. fate[m] = "fresh" /\ UNCHANGED <<mailbox, cur, owed>>
    BY Zenon, <1>1 DEF Send, actorVars, posVars, locals
  <2>2. \A q \in Procs : q # p => call'[q] = call[q]
    BY Zenon, <1>1, <1>a DEF Send, CallInv
  <2>3. \A x \in Msgs : x # m => fate'[x] = fate[x]
    BY Zenon, <1>1, <1>b DEF Send
  <2>4. \A x \in Msgs : Sending(p, x)' => x = m /\ call'[p].pc = "count" /\ fate'[m] = "offered"
    <3>1. \/ call' = call /\ call[p] = NoCall
          \/ call'[p] = [pc |-> "count", obj |-> a, m |-> m] /\ fate'[m] = "offered"
      BY <1>1, <1>a, <1>b, Zenon DEF Send, MayCall, CallInv
    <3>2. CASE call' = call /\ call[p] = NoCall
      BY <3>2 DEF NoCall, Sending, Sends
    <3>3. CASE call'[p] = [pc |-> "count", obj |-> a, m |-> m] /\ fate'[m] = "offered"
      BY <3>3 DEF Sending
    <3> QED
      BY <3>1, <3>2, <3>3
  <2>5. \A x \in Msgs : x # m => Placed(x)'
    BY Zenon, <1>b, <1>c, <1>e, <2>1, <2>2, <2>3, <2>4, PlacedSame
  <2>6. Placed(m)
    BY Zenon, <1>b
  <2>7. /\ \A q \in Procs : Sending(q, m)' => q = p
        /\ \A b \in Actors : ~Boxed(b, m)'
        /\ \A w \in Workers : cur'[w] # m /\ m \notin owed'[w]
    BY Zenon, <1>c, <1>e, <2>1, <2>2, <2>6 DEF Placed
  <2>8. Placed(m)'
    BY Zenon, <2>4, <2>7 DEF Placed
  <2>9. fate' \in [Msgs -> Fates]
    BY Zenon, <1>1, <1>b DEF Send, Fates
  <2> QED
    BY Zenon, <1>b, <1>c, <2>1, <2>5, <2>8, <2>9 DEF MsgInv
<1>2. ASSUME NEW p \in Procs, SendCount(p) \/ SendMail(p) \/ SendUndo(p) PROVE MsgInv'
  <2>1. PICK m \in Msgs, a \in Actors : call[p].m = m /\ call[p].obj = a /\ call[p].pc \in Sends
    BY Zenon, <1>2, <1>a DEF SendCount, SendMail, SendUndo, At, CallInv, CallSound, Sends
  <2>2. UNCHANGED <<cur, owed>> /\ Sending(p, m) /\ Placed(m)
    BY Zenon, <1>2, <1>b, <2>1 DEF SendCount, SendMail, SendUndo, posVars, locals, Sending
  <2>3. fate[m] \in {"offered", "counted"} /\ \A q \in Procs : Sending(q, m) => q = p
    BY Zenon, <2>2 DEF Placed
  <2>4. (\A b \in Actors : ~Boxed(b, m)) /\ \A w \in Workers : cur[w] # m /\ m \notin owed[w]
    BY Zenon, <2>2, <2>3 DEF Placed
  <2>5. \A q \in Procs : q # p => call'[q] = call[q]
    BY Zenon, <1>2, <1>a DEF SendCount, SendMail, SendUndo, Goto, Return, CallInv
  <2>6. (\A x \in Msgs : x # m => fate'[x] = fate[x]) /\ fate' \in [Msgs -> Fates]
    BY Zenon, <1>2, <1>b, <2>1 DEF SendCount, SendMail, SendUndo, Fates
  <2>7. \A x \in Msgs : Sending(p, x)' => x = m
    BY <1>2, <1>a, <2>1 DEF SendCount, SendMail, SendUndo, Goto, Return, NoCall, CallInv, Sending, Sends
  <2>8. (\A b \in Actors : Distinct(mailbox[b])') /\ \A b \in Actors, x \in Msgs : Boxed(b, x)' => Boxed(b, x) \/ (b = a /\ x = m /\ fate'[m] = "mailed" /\ call'[p].pc = "enqueue")
    <3>1. CASE UNCHANGED mailbox
      BY Zenon, <1>c, <3>1
    <3>2. CASE SendMail(p) /\ ~UNCHANGED mailbox
      <4>1. mailbox' = [mailbox EXCEPT ![a] = Append(mailbox[a], m)] /\ fate' = [fate EXCEPT ![m] = "mailed"] /\ call' = [call EXCEPT ![p].pc = "enqueue"]
        BY Zenon, <3>2, <2>1 DEF SendMail, Goto
      <4>2. PICK q : q = Append(mailbox[a], m)
        BY Zenon
      <4>3. Distinct(q) /\ \A x : On(q, x) <=> On(mailbox[a], x) \/ x = m
        BY Zenon, <1>a, <2>4, <4>2, MailOn DEF BoxType, Boxed, MsgInv
      <4>4. mailbox'[a] = q /\ \A b \in Actors : b # a => mailbox'[b] = mailbox[b]
        BY Zenon, <1>a, <4>1, <4>2 DEF BoxType
      <4>5. fate'[m] = "mailed" /\ call'[p].pc = "enqueue"
        BY Zenon, <1>a, <1>b, <4>1 DEF CallInv
      <4>6. \A b \in Actors : Distinct(mailbox[b])'
        BY Zenon, <4>3, <4>4 DEF MsgInv
      <4>7. \A b \in Actors, x \in Msgs : Boxed(b, x)' => Boxed(b, x) \/ (b = a /\ x = m)
        BY Zenon, <4>3, <4>4 DEF Boxed
      <4> QED
        BY Zenon, <4>5, <4>6, <4>7
    <3> QED
      BY Zenon, <1>2, <3>1, <3>2 DEF SendCount, SendUndo, actorVars
  <2>9. \A x \in Msgs : x # m => Placed(x)'
    BY Zenon, <1>b, <1>e, <2>2, <2>5, <2>6, <2>7, <2>8, PlacedSame
  <2>10. \A q \in Procs : Sending(q, m)' => q = p
    BY Zenon, <1>e, <2>3, <2>5
  <2>11. Sending(p, m)' => call'[p].pc \in {"mail", "undo"} /\ fate'[m] = "counted"
    BY <1>2, <1>a, <1>b, <2>1, <2>2 DEF SendCount, SendMail, SendUndo, At, Goto, Return, NoCall, CallInv, Sending, Sends, Placed
  <2>12. Placed(m)'
    BY Zenon, <2>2, <2>4, <2>8, <2>10, <2>11 DEF Placed, Sending, Sends
  <2> QED
    BY Zenon, <1>b, <2>2, <2>6, <2>8, <2>9, <2>12 DEF MsgInv
<1>3. ASSUME NEW w \in Workers, DrainRecv(w) PROVE MsgInv'
  <2>0. wpc[w] = "recv" /\ run[w] \in Actors /\ cur[w] = None /\ UNCHANGED <<owed, call>>
    BY Zenon, <1>3, <1>a DEF DrainRecv, WorkerSound, InDrain
  <2>1. CASE mailbox[run[w]] = <<>>
    BY Zenon, <1>3, <1>b, <1>c, <1>d, <2>0, <2>1, PlacedSame DEF DrainRecv, MsgInv
  <2>2. CASE mailbox[run[w]] # <<>>
    <3>0. PICK a \in Actors : a = run[w]
      BY Zenon, <2>0
    <3>1. PICK q, t, m : a = run[w] /\ q = mailbox[a] /\ t = Tail(q) /\ m = Head(q)
      BY <3>0, Zenon
    <3>2. /\ m \in Msgs /\ On(q, m) /\ Distinct(t) /\ \A x : On(t, x) <=> On(q, x) /\ x # m
      BY Zenon, <1>a, <2>2, <3>1, PopOn DEF BoxType, MsgInv
    <3>3. cur' = [cur EXCEPT ![w] = m] /\ mailbox' = [mailbox EXCEPT ![a] = t] /\ fate' = [fate EXCEPT ![m] = "taken"]
      BY Zenon, <1>3, <2>2, <3>1 DEF DrainRecv
    <3>4. mailbox'[a] = t /\ \A b \in Actors : b # a => mailbox'[b] = mailbox[b]
      BY Zenon, <1>a, <3>1, <3>3 DEF BoxType
    <3>5. \A b \in Actors : Distinct(mailbox[b])'
      BY Zenon, <3>2, <3>4 DEF MsgInv
    <3>6. Placed(m) /\ Boxed(a, m) /\ fate[m] = "mailed"
      BY Zenon, <1>b, <3>1, <3>2 DEF Boxed, Placed
    <3>7. \A b \in Actors, x \in Msgs : Boxed(b, x)' => Boxed(b, x) /\ x # m
      <4>1. \A b \in Actors : b # a => ~Boxed(b, m)
        BY Zenon, <3>6 DEF Placed
      <4>2. \A b \in Actors, x \in Msgs : b # a => (Boxed(b, x)' <=> Boxed(b, x))
        BY Zenon, <3>4 DEF Boxed
      <4>3. \A x \in Msgs : Boxed(a, x)' => Boxed(a, x) /\ x # m
        BY Zenon, <3>1, <3>2, <3>4 DEF Boxed
      <4> QED
        BY Zenon, <4>1, <4>2, <4>3
    <3>8. cur'[w] = m /\ (\A v \in Workers : v # w => cur'[v] = cur[v]) /\ fate'[m] = "taken" /\ (\A x \in Msgs : x # m => fate'[x] = fate[x])
          /\ fate' \in [Msgs -> Fates]
      BY Zenon, <1>a, <1>b, <3>2, <3>3 DEF PosType, Fates
    <3>9. \A x \in Msgs : x # m => Placed(x)'
      BY Zenon, <1>b, <1>d, <2>0, <3>7, <3>8, PlacedSame
    <3>10. (\A p \in Procs : ~Sending(p, m)') /\ (\A v \in Workers : m \notin owed'[v] /\ (cur'[v] = m => v = w))
      <4>1. (\A p \in Procs : ~Sending(p, m)) /\ \A v \in Workers : m \notin owed[v] /\ cur[v] # m
        BY Zenon, <3>6 DEF Placed
      <4> QED
        BY Zenon, <1>d, <2>0, <3>2, <3>8, <4>1
    <3>11. Placed(m)'
      BY Zenon, <3>2, <3>7, <3>8, <3>10 DEF Placed
    <3> QED
      BY Zenon, <1>b, <2>0, <3>5, <3>8, <3>9, <3>11 DEF MsgInv
  <2> QED
    BY Zenon, <2>1, <2>2
<1>f. ASSUME NEW w \in Workers, wpc[w] \in {"deliver", "handler"}, NEW f \in {"handled", "dropped"}, Settle(w, f),
             UNCHANGED <<mailbox, call>>
      PROVE  MsgInv'
  <2>1. PICK m \in Msgs : m = cur[w]
    BY Zenon, <1>a, <1>f DEF PosType, WorkerSound
  <2>2. Placed(m) /\ fate[m] = "taken" /\ \A v \in Workers : cur[v] = m => v = w
    BY Zenon, <1>b, <2>1 DEF Placed
  <2>3. /\ cur'[w] = None /\ \A v \in Workers : v # w => cur'[v] = cur[v]
        /\ fate'[m] = f /\ \A x \in Msgs : x # m => fate'[x] = fate[x]
        /\ \A v \in Workers, x \in Msgs : x \in owed'[v] <=> x \in owed[v] \/ (v = w /\ x = m)
    BY Zenon, <1>a, <1>b, <1>f, <2>1 DEF Settle, PosType
  <2>4. fate' \in [Msgs -> Fates] /\ owed' \in [Workers -> SUBSET Msgs]
    BY Zenon, <1>b, <1>f, <2>1 DEF Settle, Fates
  <2>5. \A x \in Msgs : x # m => Placed(x)'
    BY Zenon, <1>b, <1>c, <1>d, <1>f, <2>3, Kinds, PlacedSame
  <2>6. Placed(m)'
    <3>1. (\A p \in Procs : ~Sending(p, m)') /\ (\A a \in Actors : ~Boxed(a, m)')
      BY Zenon, <1>c, <1>d, <1>f, <2>2 DEF Placed
    <3>2. \A v \in Workers : cur'[v] # m /\ (m \in owed'[v] => v = w)
      BY Zenon, <2>2, <2>3, Kinds DEF Placed
    <3> QED
      BY Zenon, <2>3, <3>1, <3>2 DEF Placed
  <2> QED
    BY Zenon, <1>c, <1>f, <2>4, <2>5, <2>6 DEF MsgInv
<1>4. ASSUME NEW w \in Workers, DrainDeliver(w) PROVE MsgInv'
  <2>1. wpc[w] = "deliver" /\ UNCHANGED <<mailbox, call>>
    BY Zenon, <1>4 DEF DrainDeliver, actorVars
  <2>2. Settle(w, "dropped") \/ UNCHANGED <<fate, owed, cur>>
    BY Zenon, <1>4 DEF DrainDeliver
  <2>3. CASE UNCHANGED <<fate, owed, cur>>
    BY Zenon, <1>b, <1>c, <1>d, <2>1, <2>3, PlacedSame DEF MsgInv
  <2> QED
    BY Zenon, <1>f, <2>1, <2>2, <2>3
<1>5. ASSUME NEW w \in Workers, HandlerReturn(w) PROVE MsgInv'
  BY Zenon, <1>f, <1>5 DEF HandlerReturn, actorVars
<1>6. ASSUME NEW w \in Workers, PendingDec(w) PROVE MsgInv'
  <2>1. UNCHANGED <<mailbox, call, cur, fate>> /\ owed' = [owed EXCEPT ![w] = {}]
    BY Zenon, <1>6 DEF PendingDec, actorVars, locals
  <2>2. owed' \in [Workers -> SUBSET Msgs] /\ \A v \in Workers, x \in Msgs : x \in owed'[v] => x \in owed[v]
    BY Zenon, <1>b, <2>1
  <2> QED
    BY Zenon, <1>b, <1>c, <1>d, <2>1, <2>2, PlacedSame DEF MsgInv
<1>7. ASSUME JoinWorkersAndFree PROVE MsgInv'
  <2>1. mailbox' = [a \in Actors |-> <<>>] /\ UNCHANGED <<call, cur, fate, owed>>
    BY Zenon, <1>7 DEF JoinWorkersAndFree, workVars, posVars, locals
  <2>2. \A a \in Actors : Distinct(mailbox[a])' /\ \A x \in Msgs : ~Boxed(a, x)'
    BY Zenon, <2>1, NilOn DEF Boxed
  <2> QED
    BY Zenon, <1>b, <1>d, <2>1, <2>2, PlacedSame DEF MsgInv
\* The other actions touch no message.
<1>g. ASSUME UNCHANGED <<mailbox, cur, fate, owed>>,
             \A p \in Procs : call'[p].pc \in Sends => call'[p] = call[p]
      PROVE  MsgInv'
  <2>1. \A p \in Procs, x \in Msgs : Sending(p, x)' => Sending(p, x) /\ call'[p].pc = call[p].pc
    BY Zenon, <1>g DEF Sending
  <2> QED
    BY Zenon, <1>b, <1>c, <1>g, <2>1, PlacedSame DEF MsgInv
<1>8. ASSUME NEW p \in Procs, \/ \E k \in Tasks : Spawn(p, k) \/ Join(p, k)
                              \/ \E a \in Actors : Stop(p, a)
                              \/ PushRun(p) \/ EnqueueActor(p) \/ StopClose(p) \/ JoinCheck(p) \/ SpuriousWakeup(p)
      PROVE  MsgInv'
  <2>1. UNCHANGED <<mailbox, cur, fate, owed>>
    BY Zenon, <1>8 DEF Spawn, Join, Stop, PushRun, EnqueueActor, StopClose, JoinCheck, SpuriousWakeup,
      actorVars, workVars, posVars, locals
  <2>2. \/ call' = call \/ Return(p) \/ \E c \in {"asleep", "join"} : Goto(p, c)
        \/ \E c : c.pc \notin Sends /\ call' = [call EXCEPT ![p] = c]
    BY Zenon, <1>8 DEF Spawn, Join, Stop, PushRun, EnqueueActor, StopClose, JoinCheck, SpuriousWakeup, Sends
  <2>3. \A q \in Procs : call'[q].pc \in Sends => call'[q] = call[q]
    BY <1>a, <2>2 DEF Return, Goto, NoCall, Sends, CallInv
  <2> QED
    BY Zenon, <1>g, <2>1, <2>3
<1>9. ASSUME NEW w \in Workers, \/ WorkerTop(w) \/ PopLocal(w) \/ Steal(w) \/ StealGlobal(w) \/ IdleLeave(w)
                               \/ TaskReturn(w) \/ TaskSignal(w) \/ BroadcastDrained(w) \/ DrainLock(w)
                               \/ DrainEnd(w) \/ DrainMore(w)
      PROVE  MsgInv'
  <2>1. UNCHANGED <<mailbox, cur, fate, owed>>
    BY Zenon, <1>9 DEF WorkerTop, PopLocal, Steal, StealGlobal, IdleLeave, TaskReturn, TaskSignal, BroadcastDrained,
      DrainLock, DrainEnd, DrainMore, actorVars, workVars, locals
  <2>2. \A q \in Procs : call'[q].pc \in Sends => call'[q] = call[q]
    <3>1. CASE TaskSignal(w)
      BY Zenon, <1>a, <3>1 DEF TaskSignal, CallInv, Sends
    <3>2. CASE DrainMore(w)
      BY Zenon, <1>a, <3>2 DEF DrainMore, CallInv, Sends
    <3> QED
      BY Zenon, <1>9, <3>1, <3>2 DEF WorkerTop, PopLocal, Steal, StealGlobal, IdleLeave, TaskReturn, BroadcastDrained, DrainLock, DrainEnd
  <2> QED
    BY Zenon, <1>g, <2>1, <2>2
<1>10. ASSUME CallWaitAll \/ CallFinish \/ WaitAll \/ SetStopping \/ Terminated PROVE MsgInv'
  <2>1. UNCHANGED <<mailbox, cur, fate, owed, call>>
    BY Zenon, <1>10 DEF CallWaitAll, CallFinish, WaitAll, SetStopping, Terminated, vars, schedVars, actorVars, workVars, locals, posVars
  <2> QED
    BY Zenon, <1>g, <2>1
<1> QED
  BY ONLY Next, <1>1, <1>2, <1>3, <1>4, <1>5, <1>6, <1>7, <1>8, <1>9, <1>10
  DEF Next, UserCall, CallStep, WorkerStep, MainStep

\* At karkain_conc_init no message has been sent.
LEMMA MsgInitial == Init => MsgInv
<1> SUFFICES ASSUME Init PROVE MsgInv
  BY Zenon
<1>1. \A a \in Actors : Distinct(mailbox[a]) /\ \A m \in Msgs : ~Boxed(a, m)
  BY Zenon, NilOn DEF Init, Boxed
<1>2. \A m \in Msgs : Placed(m)
  BY Zenon, <1>1, Kinds DEF Init, Placed, Sending, Sends, NoCall
<1> QED
  BY Zenon, <1>1, <1>2 DEF Init, MsgInv, Fates

\* Every step, stuttering included, keeps the messages in place.
LEMMA MsgStep == ShapeInv /\ MsgInv /\ [Next]_vars => MsgInv'
<1> SUFFICES ASSUME ShapeInv, MsgInv, UNCHANGED vars PROVE MsgInv'
  BY Zenon, MsgKept
<1> QED
  BY DEF MsgInv, Placed, Sending, Boxed, vars, schedVars, actorVars, workVars, locals, posVars


-----------------------------------------------------------------------------
(* Nobody is forgotten: messages of actors that run, and joiners.          *)

Cared(a) == queued[a] \/ \E p \in Procs : Attends(p, a)

\* karkain_task_join: the worker that ran the task will signal.
JoinersWoken ==
  \A p \in Procs : At(p, "asleep") /\ done[call[p].obj]
    => \E w \in Workers : wpc[w] = "signal" /\ run[w] = call[p].obj

CareInv ==
  /\ stopped \in [Actors -> BOOLEAN] /\ done \in [Tasks -> BOOLEAN]
  /\ NoStrandedMessage /\ JoinersWoken

\* Every step leaves someone to look at a mailbox that is not empty.
LEMMA CaredKept ==
  ASSUME ShapeInv, RunInv, CareInv, Next
  PROVE  (stopped \in [Actors -> BOOLEAN])' /\ NoStrandedMessage'
<1> DEFINE Safe == (stopped \in [Actors -> BOOLEAN])' /\ NoStrandedMessage'
<1>a. BoxType /\ CallInv /\ PosType /\ \A x \in Workers : WorkerSound(x)
  BY Zenon DEF ShapeInv, WorkerInv
<1>b. ASSUME NEW a0, stopped' \in [Actors -> BOOLEAN],
             \A a \in Actors : mailbox'[a] # <<>> /\ ~stopped'[a] /\ a # a0 => mailbox[a] # <<>> /\ ~stopped[a],
             \A a \in Actors : Cared(a) /\ a # a0 => Cared(a)',
             a0 \in Actors => (mailbox'[a0] # <<>> /\ ~stopped'[a0] => Cared(a0)')
      PROVE  Safe
  BY Zenon, <1>b DEF CareInv, NoStrandedMessage, Cared
<1>c. None \notin Actors /\ stopped \in [Actors -> BOOLEAN] /\ queued \in [Actors -> BOOLEAN]
  BY Zenon, Kinds DEF CareInv, RunInv
<1>d. UNCHANGED <<wpc, run, queued>> /\ (\A p \in Procs : call[p].pc = "enqueue" => call'[p] = call[p])
        => \A a \in Actors : Cared(a) => Cared(a)'
  BY Zenon DEF Cared, Attends, At
<1>e. ASSUME NEW p \in Procs, call[p].pc # "enqueue", \A q \in Procs : q # p => call'[q] = call[q],
             UNCHANGED <<wpc, run, queued>>
      PROVE  \A a \in Actors : Cared(a) => Cared(a)'
  BY Zenon, <1>d, <1>e
<1>1. ASSUME NEW p \in Procs, SendMail(p) PROVE Safe
  <2>1. PICK a \in Actors : a = call[p].obj
    BY Zenon, <1>a, <1>1 DEF SendMail, At, CallInv, CallSound, Sends
  <2>2. call[p].pc = "mail" /\ UNCHANGED <<wpc, run, queued, stopped>>
    BY Zenon, <1>1 DEF SendMail, At, posVars, locals
  <2>3. \A q \in Procs : q # p => call'[q] = call[q]
    BY Zenon, <1>1, <1>a DEF SendMail, Goto, CallInv
  <2>4. /\ \A b \in Actors : b # a => mailbox'[b] = mailbox[b]
        /\ (mailbox'[a] = mailbox[a] \/ (call'[p].pc = "enqueue" /\ call'[p].obj = a))
    BY Zenon, <1>1, <1>a, <2>1 DEF SendMail, Goto, CallInv, BoxType
  <2>5. \A b \in Actors : Cared(b) => Cared(b)'
    BY Zenon, <1>e, <2>2, <2>3
  <2>6. CASE mailbox'[a] = mailbox[a]
    BY Zenon, <1>b, <1>c, <2>2, <2>4, <2>5, <2>6
  <2>7. CASE call'[p].pc = "enqueue" /\ call'[p].obj = a
    <3>1. Cared(a)'
      BY Zenon, <2>7 DEF Cared, Attends, At
    <3> QED
      BY Zenon, <1>b, <1>c, <2>2, <2>4, <2>5, <3>1
  <2> QED
    BY Zenon, <2>4, <2>6, <2>7
<1>2. ASSUME NEW p \in Procs, EnqueueActor(p) PROVE Safe
  <2>1. PICK a \in Actors : a = call[p].obj
    BY Zenon, <1>a, <1>2 DEF EnqueueActor, At, CallInv, CallSound
  <2>2. UNCHANGED <<wpc, run, stopped, mailbox>> /\ call[p].pc = "enqueue"
    BY Zenon, <1>2 DEF EnqueueActor, At, posVars, locals
  <2>3. (\A q \in Procs : q # p => call'[q] = call[q]) /\ (\A b \in Actors : queued[b] => queued'[b])
    BY Zenon, <1>2, <1>a, <1>c, <2>1 DEF EnqueueActor, Return, CallInv
  <2>4. \A b \in Actors : Cared(b) /\ b # a => Cared(b)'
    BY Zenon, <2>1, <2>2, <2>3, Kinds DEF Cared, Attends, At
  <2>5. ~stopped'[a] => queued'[a]
    BY Zenon, <1>2, <1>c, <2>1, <2>2 DEF EnqueueActor, CanEnqueue
  <2> QED
    BY Zenon, <1>b, <1>c, <2>2, <2>4, <2>5 DEF Cared
<1>3. ASSUME NEW p \in Procs, NEW a \in Actors, Stop(p, a) PROVE Safe
  <2>1. UNCHANGED <<wpc, run, queued, mailbox>> /\ call[p].pc # "enqueue" /\ stopped' = [stopped EXCEPT ![a] = TRUE]
    BY <1>3 DEF Stop, MayCall, NoCall, posVars, locals
  <2>2. \A q \in Procs : q # p => call'[q] = call[q]
    BY Zenon, <1>3, <1>a DEF Stop, CallInv
  <2>3. stopped' \in [Actors -> BOOLEAN] /\ \A b \in Actors : stopped[b] => stopped'[b]
    BY Zenon, <1>c, <2>1
  <2>4. \A b \in Actors : Cared(b) => Cared(b)'
    BY Zenon, <1>e, <2>1, <2>2
  <2> QED
    BY Zenon, <1>b, <1>c, <2>1, <2>3, <2>4
<1>f. ASSUME UNCHANGED <<mailbox, stopped>>, \A a \in Actors : Cared(a) => Cared(a)' PROVE Safe
  BY Zenon, <1>b, <1>c, <1>f
<1>4. ASSUME NEW p \in Procs, \/ \E k \in Tasks : Spawn(p, k) \/ Join(p, k)
                              \/ \E a \in Actors, m \in Msgs : Send(p, a, m)
                              \/ PushRun(p) \/ SendCount(p) \/ SendUndo(p) \/ StopClose(p) \/ JoinCheck(p) \/ SpuriousWakeup(p)
      PROVE  Safe
  <2>1. UNCHANGED <<mailbox, stopped, queued, wpc, run>>
    BY Zenon, <1>4 DEF Spawn, Join, Send, PushRun, SendCount, SendUndo, StopClose, JoinCheck, SpuriousWakeup, vars, schedVars, actorVars, workVars, locals, posVars
  <2>2. call[p].pc = "enqueue" => call' = call
    <3>1. call' = call \/ call[p] = NoCall \/ call[p].pc \in {"push", "count", "undo", "close", "join", "asleep"}
      BY Zenon, <1>4 DEF Spawn, Join, Send, PushRun, SendCount, SendUndo, StopClose, JoinCheck, SpuriousWakeup, MayCall, At, posVars
    <3> QED
      BY <3>1 DEF NoCall
  <2>3. \/ call' = call \/ Return(p) \/ \E c : Goto(p, c) \/ \E d : call' = [call EXCEPT ![p] = d]
    BY Zenon, <1>4 DEF Spawn, Join, Send, PushRun, SendCount, SendUndo, StopClose, JoinCheck, SpuriousWakeup
  <2>4. \A q \in Procs : q # p => call'[q] = call[q]
    BY Zenon, <1>a, <2>3 DEF Return, Goto, CallInv
  <2> QED
    BY Zenon, <1>d, <1>f, <2>1, <2>2, <2>4
<1>5. ASSUME NEW w \in Workers, DrainRecv(w) PROVE Safe
  <2>1. UNCHANGED <<stopped, queued, run, call>> /\ wpc[w] = "recv" /\ \E l : GoTo(w, l)
    BY Zenon, <1>5 DEF DrainRecv
  <2>2. \A a \in Actors : Cared(a) => Cared(a)'
    BY Zenon, <1>a, <2>1 DEF Cared, Attends, At, GoTo, PosType
  <2>3. \A a \in Actors : mailbox'[a] # <<>> => mailbox[a] # <<>>
    BY Zenon, <1>5, <1>a DEF DrainRecv, BoxType
  <2> QED
    BY Zenon, <1>b, <1>c, <2>1, <2>2, <2>3
<1>6. ASSUME NEW w \in Workers, DrainEnd(w) PROVE Safe
  <2>1. UNCHANGED <<stopped, mailbox, run, call>> /\ wpc[w] = "empty" /\ queued' = [queued EXCEPT ![run[w]] = FALSE]
        /\ \E l \in {"dec", "more"} : GoTo(w, l)
    BY Zenon, <1>6 DEF DrainEnd, locals
  <2>2. wpc'[w] \in {"dec", "more"} /\ \A v \in Workers : v # w => wpc'[v] = wpc[v]
    BY Zenon, <1>a, <2>1 DEF GoTo, PosType
  <2>3. \A p \in Procs, a \in Actors : Attends(p, a) => Attends(p, a)'
    BY Zenon, <2>1, <2>2 DEF Attends, At
  <2>4. Attends(w, run[w])' /\ w \in Procs
    BY Zenon, <2>1, <2>2, Kinds DEF Attends
  <2>5. \A a \in Actors : queued[a] /\ a # run[w] => queued'[a]
    BY Zenon, <1>c, <2>1
  <2>6. \A a \in Actors : Cared(a) => Cared(a)'
    BY Zenon, <2>1, <2>3, <2>4, <2>5 DEF Cared
  <2> QED
    BY Zenon, <1>f, <2>1, <2>6
<1>7. ASSUME NEW w \in Workers, PendingDec(w) \/ BroadcastDrained(w) PROVE Safe
  <2>1. UNCHANGED <<stopped, mailbox, queued, run, call>> /\ wpc[w] \in {"dec", "drained"}
    BY Zenon, <1>7 DEF PendingDec, BroadcastDrained, actorVars, locals
  <2>2. run[w] \in Tasks \/ GoTo(w, "drained") \/ GoTo(w, "more")
    BY Zenon, <1>7 DEF PendingDec, BroadcastDrained, AfterDec
  <2>3. (\A v \in Workers : v # w => wpc'[v] = wpc[v]) /\ (run[w] \in Actors => wpc'[w] \in {"drained", "more"})
    BY Zenon, <1>7, <1>a, <2>2, Kinds DEF PendingDec, BroadcastDrained, GoTo, PosType
  <2>4. \A p \in Procs, a \in Actors : Attends(p, a) => Attends(p, a)'
    BY Zenon, <2>1, <2>3 DEF Attends, At
  <2> QED
    BY Zenon, <1>f, <2>1, <2>4 DEF Cared
<1>8. ASSUME NEW w \in Workers, DrainMore(w) PROVE Safe
  <2>1. UNCHANGED <<stopped, mailbox, queued, run>> /\ wpc[w] = "more" /\ run[w] \in Actors /\ GoTo(w, "top")
    BY Zenon, <1>8, <1>a DEF DrainMore, WorkerSound, InDrain, actorVars, locals
  <2>2. (\A q \in Procs : q # w => call'[q] = call[q]) /\ (\A v \in Workers : v # w => wpc'[v] = wpc[v])
    BY Zenon, <1>8, <1>a, <2>1 DEF DrainMore, GoTo, CallInv, PosType
  <2>3. call[w].pc = "none"
    BY Zenon, <2>1 DEF ShapeInv, CallerInv
  <2>4. \A p \in Procs, a \in Actors : Attends(p, a) /\ a # run[w] => Attends(p, a)'
    BY Zenon, <2>1, <2>2, <2>3 DEF Attends, At
  <2>5. \A a \in Actors : Cared(a) /\ a # run[w] => Cared(a)'
    BY Zenon, <2>1, <2>4 DEF Cared
  <2>6. more(run[w]) => Cared(run[w])'
    <3>1. more(run[w]) => call'[w].pc = "enqueue" /\ call'[w].obj = run[w] /\ w \in Procs
      BY Zenon, <1>8, <1>a, Kinds DEF DrainMore, CallInv
    <3> QED
      BY Zenon, <2>1, <3>1 DEF Cared, Attends, At
  <2> QED
    BY Zenon, <1>b, <1>c, <2>1, <2>5, <2>6 DEF more
<1>9. ASSUME JoinWorkersAndFree PROVE Safe
  <2>1. UNCHANGED <<stopped, queued, wpc, run, call>> /\ mailbox' = [a \in Actors |-> <<>>]
    BY Zenon, <1>9 DEF JoinWorkersAndFree, posVars, locals
  <2> QED
    BY Zenon, <1>c, <2>1 DEF NoStrandedMessage
<1>10. ASSUME NEW w \in Workers, \/ WorkerTop(w) \/ PopLocal(w) \/ Steal(w) \/ StealGlobal(w) \/ IdleLeave(w)
                                \/ TaskReturn(w) \/ TaskSignal(w) \/ DrainLock(w) \/ DrainDeliver(w) \/ HandlerReturn(w)
      PROVE  Safe
  <2>1. UNCHANGED <<mailbox, stopped, queued>>
    BY Zenon, <1>10 DEF WorkerTop, PopLocal, Steal, StealGlobal, IdleLeave, TaskReturn, TaskSignal,
      DrainLock, DrainDeliver, HandlerReturn, actorVars
  <2>2. wpc[w] \notin {"dec", "drained", "more"}
    BY Zenon, <1>10 DEF WorkerTop, PopLocal, Steal, StealGlobal, IdleLeave, TaskReturn, TaskSignal,
      DrainLock, DrainDeliver, HandlerReturn
  <2>3. (wpc' = wpc \/ \E l : GoTo(w, l)) /\ (run' = run \/ \E r : run' = [run EXCEPT ![w] = r])
    BY Zenon, <1>10 DEF WorkerTop, PopLocal, Steal, StealGlobal, IdleLeave, TaskReturn, TaskSignal,
      DrainLock, DrainDeliver, HandlerReturn, Begin, Settle, locals
  <2>4. \A v \in Workers : v # w => wpc'[v] = wpc[v] /\ run'[v] = run[v]
    BY Zenon, <1>a, <2>3 DEF GoTo, PosType
  <2>5. \A q \in Procs : call[q].pc = "enqueue" => call'[q] = call[q]
    <3>1. CASE TaskSignal(w)
      BY Zenon, <1>a, <3>1 DEF TaskSignal, CallInv
    <3> QED
      BY Zenon, <1>10, <3>1 DEF WorkerTop, PopLocal, Steal, StealGlobal, IdleLeave, TaskReturn, DrainLock, DrainDeliver, HandlerReturn
  <2>6. \A p \in Procs, a \in Actors : Attends(p, a) => Attends(p, a)'
    BY Zenon, <2>2, <2>4, <2>5 DEF Attends, At
  <2> QED
    BY Zenon, <1>f, <2>1, <2>6 DEF Cared
<1>11. ASSUME CallWaitAll \/ CallFinish \/ WaitAll \/ SetStopping \/ Terminated PROVE Safe
  <2>1. UNCHANGED <<mailbox, stopped, queued, wpc, run, call>>
    BY Zenon, <1>11 DEF CallWaitAll, CallFinish, WaitAll, SetStopping, Terminated, vars, schedVars, actorVars, workVars, locals, posVars
  <2> QED
    BY Zenon, <1>d, <1>f, <2>1
<1> QED
  BY ONLY Next, <1>1, <1>2, <1>3, <1>4, <1>5, <1>6, <1>7, <1>8, <1>9, <1>10, <1>11
  DEF Next, UserCall, CallStep, WorkerStep, MainStep

\* karkain_task_join: whoever sleeps on a task that is done is about to be woken.
LEMMA JoinersKept ==
  ASSUME ShapeInv, CareInv, Next
  PROVE  (done \in [Tasks -> BOOLEAN])' /\ JoinersWoken'
<1> DEFINE Safe == (done \in [Tasks -> BOOLEAN])' /\ JoinersWoken'
<1>a. CallInv /\ PosType /\ (\A x \in Workers : WorkerSound(x)) /\ done \in [Tasks -> BOOLEAN]
  BY Zenon DEF ShapeInv, WorkerInv, CareInv
<1>b. ASSUME UNCHANGED done,
             \A p \in Procs : call'[p].pc = "asleep" => call[p].pc = "asleep" /\ call'[p].obj = call[p].obj,
             \A w \in Workers : wpc[w] = "signal" => wpc'[w] = "signal" /\ run'[w] = run[w]
      PROVE  Safe
  BY <1>a, <1>b DEF CareInv, JoinersWoken, At
<1>1. ASSUME NEW p \in Procs, JoinCheck(p) PROVE Safe
  <2>1. UNCHANGED <<done, wpc, run>> /\ (\A q \in Procs : q # p => call'[q] = call[q])
        /\ (call'[p].pc = "asleep" => call'[p].obj = call[p].obj /\ ~done[call[p].obj])
    BY <1>1, <1>a DEF JoinCheck, Return, Goto, NoCall, CallInv, workVars, posVars, locals
  <2> QED
    BY <1>a, <2>1 DEF CareInv, JoinersWoken, At
<1>2. ASSUME NEW w \in Workers, TaskReturn(w) PROVE Safe
  <2>1. UNCHANGED <<call, run>> /\ wpc[w] = "task" /\ run[w] \in Tasks
        /\ done' = [done EXCEPT ![run[w]] = TRUE] /\ wpc' = [wpc EXCEPT ![w] = "signal"]
    BY Zenon, <1>2, <1>a DEF TaskReturn, GoTo, WorkerSound, InTask
  <2>2. \A v \in Workers : wpc[v] = "signal" => wpc'[v] = "signal"
    BY Zenon, <1>a, <2>1 DEF PosType
  <2>3. wpc'[w] = "signal" /\ done' \in [Tasks -> BOOLEAN] /\ \A k \in Tasks : done'[k] => done[k] \/ k = run[w]
    BY Zenon, <1>a, <2>1 DEF PosType
  <2>4. \A p \in Procs : call[p].pc = "asleep" => call[p].obj \in Tasks
    BY Zenon, <1>a DEF CallInv, CallSound
  <2> QED
    BY Zenon, <2>1, <2>2, <2>3, <2>4 DEF CareInv, JoinersWoken, At
<1>3. ASSUME NEW w \in Workers, TaskSignal(w) PROVE Safe
  <2>1. UNCHANGED <<done, run>> /\ \A v \in Workers : v # w => wpc'[v] = wpc[v]
    BY Zenon, <1>3, <1>a DEF TaskSignal, GoTo, PosType, workVars, locals
  <2>2. \A p \in Procs : call'[p].pc = "asleep" => call[p].pc = "asleep" /\ call'[p].obj = call[p].obj /\ call[p].obj # run[w]
    BY Zenon, <1>3, <1>a DEF TaskSignal, CallInv
  <2> QED
    BY <1>a, <2>1, <2>2 DEF CareInv, JoinersWoken, At
<1>4. ASSUME NEW p \in Procs, \/ UserCall(p)
                              \/ PushRun(p) \/ SendCount(p) \/ SendMail(p) \/ SendUndo(p)
                              \/ EnqueueActor(p) \/ StopClose(p) \/ SpuriousWakeup(p)
      PROVE  Safe
  <2>1. UNCHANGED <<done, wpc, run>>
    BY Zenon, <1>4 DEF UserCall, Spawn, Join, Stop, Send, PushRun, SendCount, SendMail, SendUndo, EnqueueActor, StopClose,
      SpuriousWakeup, workVars, locals, posVars
  <2>2. \/ call' = call \/ Return(p)
        \/ \E c \in {"mail", "enqueue", "undo", "join"} : Goto(p, c)
        \/ \E d : d.pc # "asleep" /\ call' = [call EXCEPT ![p] = d]
    <3>1. CASE UserCall(p)
      BY Zenon, <3>1 DEF UserCall, Spawn, Join, Stop, Send
    <3>2. CASE EnqueueActor(p)
      BY Zenon, <3>2 DEF EnqueueActor
    <3> QED
      BY Zenon, <1>4, <3>1, <3>2 DEF PushRun, SendCount, SendMail, SendUndo, StopClose, SpuriousWakeup
  <2>3. (\A q \in Procs : q # p => call'[q] = call[q]) /\ (call' = call \/ call'[p].pc # "asleep")
    BY <1>a, <2>2 DEF Return, Goto, NoCall, CallInv
  <2> QED
    BY Zenon, <1>b, <2>1, <2>3
<1>5. ASSUME NEW w \in Workers, \/ WorkerTop(w) \/ PopLocal(w) \/ Steal(w) \/ StealGlobal(w) \/ IdleLeave(w)
                                \/ PendingDec(w) \/ BroadcastDrained(w) \/ DrainLock(w) \/ DrainRecv(w)
                                \/ DrainDeliver(w) \/ HandlerReturn(w) \/ DrainEnd(w) \/ DrainMore(w)
      PROVE  Safe
  <2>1. UNCHANGED done /\ (wpc' = wpc \/ \E l : GoTo(w, l)) /\ (run' = run \/ \E r : run' = [run EXCEPT ![w] = r])
    BY Zenon, <1>5 DEF WorkerTop, PopLocal, Steal, StealGlobal, IdleLeave, PendingDec, BroadcastDrained, DrainLock,
      DrainRecv, DrainDeliver, HandlerReturn, DrainEnd, DrainMore, Begin, Settle, locals, workVars
  <2>2. wpc[w] # "signal"
    BY Zenon, <1>5 DEF WorkerTop, PopLocal, Steal, StealGlobal, IdleLeave, PendingDec, BroadcastDrained, DrainLock,
      DrainRecv, DrainDeliver, HandlerReturn, DrainEnd, DrainMore
  <2>3. \A v \in Workers : v # w => wpc'[v] = wpc[v] /\ run'[v] = run[v]
    BY Zenon, <1>a, <2>1 DEF GoTo, PosType
  <2>4. call' = call \/ call' = [call EXCEPT ![w] = [pc |-> "enqueue", obj |-> run[w], m |-> None]]
    BY Zenon, <1>5 DEF WorkerTop, PopLocal, Steal, StealGlobal, IdleLeave, PendingDec, BroadcastDrained, DrainLock,
      DrainRecv, DrainDeliver, HandlerReturn, DrainEnd, DrainMore
  <2>5. \A q \in Procs : call'[q] = call[q] \/ call'[q].pc = "enqueue"
    BY <1>a, <2>4 DEF CallInv
  <2> QED
    BY Zenon, <1>b, <2>1, <2>2, <2>3, <2>5
<1>6. ASSUME CallWaitAll \/ CallFinish \/ WaitAll \/ SetStopping \/ JoinWorkersAndFree \/ Terminated PROVE Safe
  <2>1. UNCHANGED <<done, wpc, run, call>>
    BY Zenon, <1>6 DEF CallWaitAll, CallFinish, WaitAll, SetStopping, JoinWorkersAndFree, Terminated, vars, schedVars, workVars, locals, posVars
  <2> QED
    BY Zenon, <1>b, <2>1
<1> QED
  BY ONLY Next, <1>1, <1>2, <1>3, <1>4, <1>5, <1>6 DEF Next, CallStep, WorkerStep, MainStep

\* At the start no mailbox holds a message and nobody sleeps.
LEMMA CareInitial == Init => CareInv
<1> SUFFICES ASSUME Init PROVE CareInv
  BY Zenon
<1> QED
  BY Zenon DEF Init, CareInv, NoStrandedMessage, JoinersWoken, At, NoCall

\* Every step of the runtime leaves nobody forgotten.
LEMMA CareStep == ShapeInv /\ RunInv /\ CareInv /\ [Next]_vars => CareInv'
<1> SUFFICES ASSUME ShapeInv, RunInv, CareInv, UNCHANGED vars PROVE CareInv'
  BY Zenon, CaredKept, JoinersKept DEF CareInv
<1> QED
  BY DEF CareInv, NoStrandedMessage, JoinersWoken, Attends, At, vars, schedVars, actorVars, workVars, locals, posVars

-----------------------------------------------------------------------------
(* `pending` and what waits for it.                                        *)
INSTANCE FiniteSetTheorems

\* What a worker will discount.
Dues(w) ==
  /\ wpc[w] \in InDrain \ {"drain"} \/ (wpc[w] = "dec" /\ run[w] \in Actors) =>
       delivered[w] = Cardinality(owed[w])
  /\ wpc[w] \in Off \cup InTask \cup {"drained", "drain"} => owed[w] = {}
  /\ wpc[w] = "drain" => delivered[w] = 0
  /\ wpc[w] = "signal" \/ (wpc[w] = "dec" /\ run[w] \in Tasks) => delivered[w] = 1 /\ owed[w] = {}

\* karkain_wait_all: a worker is about to broadcast.
WaitersWoken ==
  mpc \in {"asleep", "fin_asleep"} /\ pending = 0 => \E w \in Workers : wpc[w] = "drained"

ShutMain == mpc \in {"stop", "join", "freed"}

CountInv ==
  /\ \A w \in Workers : Dues(w)
  /\ PendingExact
  /\ ShutMain => pending = 0
  /\ WaitersWoken

\* Only finitely much is counted.
LEMMA CountedFinite == MsgInv => IsFiniteSet(Counted) /\ \A w \in Workers : IsFiniteSet(owed[w])
<1> SUFFICES ASSUME MsgInv PROVE IsFiniteSet(Counted) /\ \A w \in Workers : IsFiniteSet(owed[w])
  BY Zenon
<1>1. IsFiniteSet(Tasks \cup Msgs) /\ IsFiniteSet(Msgs)
  BY Zenon, RuntimeAssumption, FS_Union
<1>2. Counted \subseteq Tasks \cup Msgs /\ \A w \in Workers : owed[w] \subseteq Msgs
  BY Zenon DEF MsgInv, Counted
<1> QED
  BY Zenon, <1>1, <1>2, FS_Subset

\* A worker in a task's function, in a handler or about to call one.
InUserCode(w) == wpc[w] \in {"task", "deliver", "handler"}

\* karkain_worker_loop: what a worker runs is counted until it has returned.
LEMMA UserCodeCounted ==
  ShapeInv /\ RunInv /\ MsgInv => \A w \in Workers : InUserCode(w) => Counted # {}
<1> SUFFICES ASSUME ShapeInv, RunInv, MsgInv, NEW w \in Workers, InUserCode(w) PROVE Counted # {}
  BY Zenon
<1>a. PosType /\ WorkerSound(w)
  BY Zenon DEF ShapeInv, WorkerInv
<1>1. CASE wpc[w] = "task"
  <2>1. run[w] \in Tasks /\ Does(w, run[w])
    BY Zenon, <1>1, <1>a DEF WorkerSound, InTask, Does
  <2>2. task[run[w]] = "running"
    BY Zenon, <2>1, Kinds DEF RunInv, Known, Running
  <2> QED
    BY Zenon, <2>1, <2>2 DEF Counted
<1>2. CASE wpc[w] \in {"deliver", "handler"}
  <2>1. cur[w] \in Msgs
    BY Zenon, <1>2, <1>a DEF WorkerSound, PosType
  <2>2. fate[cur[w]] = "taken"
    BY Zenon, <2>1 DEF MsgInv, Placed
  <2> QED
    BY Zenon, <2>1, <2>2 DEF Counted
<1> QED
  BY Zenon, <1>1, <1>2 DEF InUserCode

\* karkain_sched_drain_actor counts what it delivers, and starts at zero.
LEMMA DuesKept ==
  ASSUME ShapeInv, MsgInv, \A w \in Workers : Dues(w), Next
  PROVE  \A w \in Workers : Dues(w)'
<1> DEFINE Same(v) == wpc'[v] = wpc[v] /\ run'[v] = run[v] /\ delivered'[v] = delivered[v] /\ owed'[v] = owed[v]
<1>a. PosType /\ (\A x \in Workers : WorkerSound(x)) /\ owed \in [Workers -> SUBSET Msgs]
  BY Zenon DEF ShapeInv, WorkerInv, MsgInv
<1>b. \A v \in Workers : Same(v) => Dues(v)'
  BY Zenon DEF Dues
<1>c. ASSUME UNCHANGED <<wpc, run, delivered, owed>> PROVE \A w \in Workers : Dues(w)'
  BY Zenon, <1>b, <1>c
<1>1. ASSUME NEW w \in Workers, WorkerStep(w) PROVE \A v \in Workers : Dues(v)'
  <2> SUFFICES Dues(w)'
    <3>1. /\ wpc' = wpc \/ \E l : GoTo(w, l)
          /\ run' = run \/ \E x : run' = [run EXCEPT ![w] = x]
          /\ delivered' = delivered \/ \E x : delivered' = [delivered EXCEPT ![w] = x]
          /\ owed' = owed \/ \E x : owed' = [owed EXCEPT ![w] = x]
      BY ZenonT(60), <1>1 DEF WorkerStep, WorkerTop, PopLocal, Steal, StealGlobal, IdleLeave, TaskReturn, TaskSignal,
        PendingDec, BroadcastDrained, DrainLock, DrainRecv, DrainDeliver, HandlerReturn, DrainEnd, DrainMore,
        Begin, Settle, locals, workVars
    <3>2. \A v \in Workers : v # w => Same(v)
      <4>1. \A v \in Workers : v # w => wpc'[v] = wpc[v]
        BY Zenon, <3>1, <1>a DEF PosType, GoTo
      <4>2. \A v \in Workers : v # w => run'[v] = run[v]
        BY Zenon, <3>1, <1>a DEF PosType
      <4>3. \A v \in Workers : v # w => delivered'[v] = delivered[v] /\ owed'[v] = owed[v]
        BY Zenon, <3>1, <1>a DEF PosType
      <4> QED
        BY Zenon, <4>1, <4>2, <4>3
    <3> QED
      BY Zenon, <1>b, <3>2
  <2>a. wpc \in [Workers -> InTask \cup InDrain \cup Ending \cup Off] /\ WorkerSound(w) /\ Dues(w)
    BY Zenon, <1>a DEF PosType
  <2>1. CASE WorkerTop(w) \/ IdleLeave(w)
    <3>1. UNCHANGED <<run, delivered, owed>> /\ wpc[w] \in Off /\ \E l \in {"exit", "pop", "top"} : GoTo(w, l)
      BY Zenon, <2>1 DEF WorkerTop, IdleLeave, Off, locals, workVars
    <3> QED
      BY Zenon, <2>a, <3>1 DEF Dues, GoTo, Off, InTask, InDrain
  <2>2. CASE PopLocal(w) \/ Steal(w) \/ StealGlobal(w)
    <3>1. owed' = owed /\ wpc[w] \in {"pop", "steal"}
      BY Zenon, <2>2 DEF PopLocal, Steal, StealGlobal
    <3>2. \/ (\E r : Begin(w, r)) \/ GoTo(w, "steal") \/ GoTo(w, "idle") \/ wpc' = wpc
      BY Zenon, <2>2 DEF PopLocal, Steal, StealGlobal
    <3>3. (wpc'[w] = "drain" /\ delivered'[w] = 0) \/ wpc'[w] \in {"task", "steal", "idle", "pop"}
      BY Zenon, <2>a, <1>a, <3>1, <3>2 DEF Begin, GoTo, PosType
    <3> QED
      BY Zenon, <2>a, <3>1, <3>3 DEF Dues, Off, InTask, InDrain
  <2>3. CASE TaskReturn(w) \/ TaskSignal(w)
    <3>1. owed' = owed /\ run' = run /\ wpc[w] \in {"task", "signal"}
      BY Zenon, <2>3 DEF TaskReturn, TaskSignal, locals, workVars
    <3>2. wpc'[w] \in {"signal", "dec"} /\ delivered'[w] = 1
      BY Zenon, <2>a, <1>a, <2>3 DEF TaskReturn, TaskSignal, GoTo, Dues, PosType, locals
    <3> QED
      BY Zenon, <2>a, <3>1, <3>2, Kinds DEF Dues, Off, InTask, InDrain, WorkerSound
  <2>4. CASE PendingDec(w)
    <3>1. owed'[w] = {} /\ wpc'[w] \in {"drained", "top", "more"}
      BY Zenon, <2>a, <1>a, <2>4 DEF PendingDec, GoTo, AfterDec
    <3> QED
      BY Zenon, <3>1 DEF Dues, Off, InTask, InDrain
  <2>5. CASE BroadcastDrained(w) \/ DrainMore(w)
    <3>1. owed' = owed /\ wpc[w] \in {"drained", "more"} /\ wpc'[w] \in {"top", "more"}
      BY Zenon, <2>a, <2>5 DEF BroadcastDrained, DrainMore, GoTo, AfterDec, workVars
    <3> QED
      BY Zenon, <2>a, <3>1 DEF Dues, Off, InTask, InDrain
  <2>6. CASE DrainLock(w)
    <3>1. owed' = owed /\ delivered' = delivered /\ wpc[w] = "drain" /\ wpc'[w] = "recv"
      BY Zenon, <2>a, <2>6 DEF DrainLock, GoTo, workVars, locals
    <3> QED
      BY Zenon, <2>a, <3>1, FS_EmptySet DEF Dues, Off, InTask, InDrain
  <2>7. CASE DrainRecv(w) \/ DrainEnd(w)
    <3>1. owed' = owed /\ run' = run /\ delivered' = delivered /\ wpc[w] \in {"recv", "empty"}
      BY Zenon, <2>7 DEF DrainRecv, DrainEnd, workVars, locals
    <3>2. wpc'[w] \in {"deliver", "empty", "dec"} \/ (wpc'[w] = "more" /\ ~(delivered[w] > 0))
      BY Zenon, <2>a, <2>7 DEF DrainRecv, DrainEnd, GoTo
    <3>3. run[w] \in Actors /\ delivered[w] \in Nat /\ delivered[w] = Cardinality(owed[w])
      BY Zenon, <2>a, <1>a, <3>1 DEF WorkerSound, Dues, InDrain, PosType
    <3>4. delivered[w] = 0 => owed[w] = {}
      <4>1. IsFiniteSet(owed[w])
        BY Zenon, CountedFinite
      <4> QED
        BY Zenon, <3>3, <4>1, FS_EmptySet
    <3> QED
      BY <3>1, <3>2, <3>3, <3>4, Kinds DEF Dues, Off, InTask, InDrain
  <2>8. CASE DrainDeliver(w) \/ HandlerReturn(w)
    <3>1. wpc[w] \in {"deliver", "handler"}
      BY Zenon, <2>8 DEF DrainDeliver, HandlerReturn
    <3>2. cur[w] \in Msgs /\ delivered[w] = Cardinality(owed[w])
      BY Zenon, <2>a, <1>a, <3>1 DEF WorkerSound, Dues, InDrain, PosType
    <3>3. CASE GoTo(w, "handler") /\ UNCHANGED <<owed, delivered>>
      BY Zenon, <2>a, <3>2, <3>3 DEF GoTo, Dues, Off, InTask, InDrain
    <3>4. CASE \E f : Settle(w, f)
      <4>1. wpc'[w] = "recv" /\ owed'[w] = owed[w] \cup {cur[w]} /\ delivered'[w] = delivered[w] + 1
        BY Zenon, <2>a, <1>a, <3>4 DEF Settle, GoTo, PosType
      <4>2. cur[w] \notin owed[w]
        BY Zenon, <3>2 DEF MsgInv, Placed
      <4>3. Cardinality(owed'[w]) = Cardinality(owed[w]) + 1
        <5>1. IsFiniteSet(owed[w])
          BY Zenon, CountedFinite
        <5> QED
          BY <4>1, <4>2, <5>1, FS_AddElement, Zenon
      <4> QED
        BY Zenon, <3>2, <4>1, <4>3 DEF Dues, Off, InTask, InDrain
    <3> QED
      BY Zenon, <2>8, <3>3, <3>4 DEF DrainDeliver, HandlerReturn
  <2> QED
    BY Zenon, <1>1, <2>1, <2>2, <2>3, <2>4, <2>5, <2>6, <2>7, <2>8 DEF WorkerStep
<1>2. CASE UNCHANGED <<wpc, run, delivered, owed>>
  BY Zenon, <1>c, <1>2
<1>3. (\E w \in Workers : WorkerStep(w)) \/ UNCHANGED <<wpc, run, delivered, owed>>
  BY Zenon, OutsideWorkers DEF posVars, locals
<1> QED
  BY Zenon, <1>1, <1>2, <1>3

\* Each place that raises or lowers `pending` does so by what it adds to, or
\* takes from, the work that is counted.
LEMMA PendingKept ==
  ASSUME ShapeInv, RunInv, MsgInv, CountInv, Next
  PROVE  /\ PendingExact'
         /\ pending' = pending \/ (\E p \in Procs : UserCall(p) \/ SendCount(p) \/ SendUndo(p)) \/ (Counted' \subseteq Counted)
<1> DEFINE Shrank == Counted' \subseteq Counted
           Live == {"counted", "mailed", "taken"}
           Todo == {"spawned", "running"}
<1>a. PosType /\ CallInv /\ BoxType /\ QueueType /\ \A x \in Workers : WorkerSound(x)
  BY Zenon DEF ShapeInv, WorkerInv
<1>b. fate \in [Msgs -> Fates] /\ owed \in [Workers -> SUBSET Msgs] /\ task \in [Tasks -> {"fresh", "spawned", "running", "finished"}]
  BY Zenon DEF MsgInv, RunInv
<1>c. IsFiniteSet(Counted) /\ pending = Cardinality(Counted)
  BY Zenon, CountedFinite DEF CountInv, PendingExact
<1>d. \A x : x \in Counted <=> \/ x \in Tasks /\ task[x] \in Todo
                               \/ x \in Msgs /\ fate[x] \in Live
                               \/ \E v \in Workers : x \in owed[v]
  BY Zenon DEF Counted
<1>e. \A x : x \in Counted' <=> \/ x \in Tasks /\ task'[x] \in Todo
                                \/ x \in Msgs /\ fate'[x] \in Live
                                \/ \E v \in Workers : x \in owed'[v]
  BY Zenon DEF Counted
<1>f. ASSUME Counted' = Counted, pending' = pending PROVE PendingExact'
  BY Zenon, <1>c, <1>f DEF PendingExact
<1>g. ASSUME NEW x, x \notin Counted, Counted' = Counted \cup {x}, pending' = pending + 1 PROVE PendingExact'
  BY Zenon, <1>c, <1>g, FS_AddElement DEF PendingExact
<1>i. ASSUME \A k \in Tasks : task'[k] \in Todo <=> task[k] \in Todo,
             \A m \in Msgs : fate'[m] \in Live <=> fate[m] \in Live, UNCHANGED owed
      PROVE  Counted' = Counted
  <2>1. \A x : x \in Counted' <=> x \in Counted
    BY Zenon, <1>d, <1>e, <1>i
  <2> QED
    BY Zenon, <2>1
<1>h. \A m \in Msgs, v \in Workers : m \in owed[v] => fate[m] \in {"handled", "dropped"} /\ \A u \in Workers : m \in owed[u] => u = v
  BY Zenon DEF MsgInv, Placed
<1>1. ASSUME NEW p \in Procs, NEW k \in Tasks, Spawn(p, k) PROVE PendingExact'
  <2>1. task[k] = "fresh" /\ task' = [task EXCEPT ![k] = "spawned"] /\ UNCHANGED <<fate, owed>> /\ pending' = pending + 1
    BY Zenon, <1>1 DEF Spawn
  <2>2. k \notin Counted
    BY Zenon, <1>b, <1>d, <2>1, Kinds
  <2>3. Counted' = Counted \cup {k}
    BY Zenon, <1>b, <1>d, <1>e, <2>1
  <2> QED
    BY Zenon, <1>g, <2>1, <2>2, <2>3
<1>2. ASSUME NEW p \in Procs, NEW a \in Actors, NEW m \in Msgs, Send(p, a, m) PROVE PendingExact'
  <2>1. fate[m] = "fresh" /\ UNCHANGED <<task, owed, pending>> /\ \E f \in {"refused", "offered"} : fate' = [fate EXCEPT ![m] = f]
    BY Zenon, <1>2 DEF Send, schedVars
  <2>2. Counted' = Counted
    BY Zenon, <1>b, <1>i, <2>1
  <2> QED
    BY Zenon, <1>f, <2>1, <2>2
<1>3. ASSUME NEW p \in Procs, SendCount(p) PROVE PendingExact'
  <2>1. PICK m \in Msgs : m = call[p].m /\ Sending(p, m)
    BY Zenon, <1>3, <1>a DEF SendCount, At, CallInv, CallSound, Sends, Sending
  <2>2. fate[m] = "offered"
    BY Zenon, <1>3, <2>1 DEF SendCount, At, MsgInv, Placed
  <2>3. fate' = [fate EXCEPT ![m] = "counted"] /\ UNCHANGED <<task, owed>> /\ pending' = pending + 1
    BY Zenon, <1>3, <2>1 DEF SendCount
  <2>4. m \notin Counted
    BY Zenon, <1>d, <1>h, <2>2, Kinds
  <2>5. Counted' = Counted \cup {m}
    BY Zenon, <1>b, <1>d, <1>e, <2>3
  <2> QED
    BY Zenon, <1>g, <2>3, <2>4, <2>5
<1>4. ASSUME NEW p \in Procs, SendMail(p) PROVE PendingExact'
  <2>1. PICK m \in Msgs : m = call[p].m /\ Sending(p, m)
    BY Zenon, <1>4, <1>a DEF SendMail, At, CallInv, CallSound, Sends, Sending
  <2>2. fate[m] = "counted"
    BY Zenon, <1>4, <2>1 DEF SendMail, At, MsgInv, Placed
  <2>3. (fate' = fate \/ fate' = [fate EXCEPT ![m] = "mailed"]) /\ UNCHANGED <<task, owed, pending>>
    BY Zenon, <1>4, <2>1 DEF SendMail, schedVars
  <2>4. Counted' = Counted
    BY Zenon, <1>b, <1>i, <2>2, <2>3
  <2> QED
    BY Zenon, <1>f, <2>3, <2>4
<1>5. ASSUME NEW p \in Procs, SendUndo(p) PROVE PendingExact'
  <2>1. PICK m \in Msgs : m = call[p].m /\ Sending(p, m)
    BY Zenon, <1>5, <1>a DEF SendUndo, At, CallInv, CallSound, Sends, Sending
  <2>2. fate[m] = "counted"
    BY Zenon, <1>5, <2>1 DEF SendUndo, At, MsgInv, Placed
  <2>3. fate' = [fate EXCEPT ![m] = "refused"] /\ UNCHANGED <<task, owed>> /\ pending' = pending - 1
    BY Zenon, <1>5, <2>1 DEF SendUndo, Uncount
  <2>4. m \in Counted
    BY Zenon, <1>d, <2>2
  <2>5. Counted' = Counted \ {m}
    BY <1>b, <1>d, <1>e, <1>h, <2>2, <2>3, Kinds
  <2>6. Cardinality(Counted') = Cardinality(Counted) - 1
    BY Zenon, <1>c, <2>4, <2>5, FS_RemoveElement
  <2> QED
    BY Zenon, <1>c, <2>3, <2>6 DEF PendingExact
<1>6. ASSUME NEW w \in Workers, NEW q \in Procs, NEW r \in Runs, Queued(q, r), Begin(w, r), UNCHANGED <<fate, owed, pending>>
      PROVE  PendingExact'
  <2>1. r \in Tasks => task[r] = "spawned"
    BY Zenon, <1>6 DEF RunInv, Known, Waiting
  <2>2. Counted' = Counted
    BY Zenon, <1>b, <1>i, <1>6, <2>1 DEF Begin
  <2> QED
    BY Zenon, <1>f, <1>6, <2>2
<1>7. ASSUME NEW w \in Workers, PopLocal(w) \/ Steal(w) \/ StealGlobal(w) PROVE PendingExact'
  <2>1. UNCHANGED <<fate, owed, pending>>
    BY Zenon, <1>7 DEF PopLocal, Steal, StealGlobal
  <2>2. task' = task \/ \E q \in Procs : Queue(q) # <<>> /\ Begin(w, Head(Queue(q)))
    <3>1. CASE PopLocal(w)
      BY Zenon, <3>1, Kinds DEF PopLocal, Queue
    <3>2. CASE Steal(w)
      BY Zenon, <3>2, <1>a, VictimSound, Kinds DEF Steal, Queue
    <3>3. CASE StealGlobal(w)
      BY Zenon, <3>3, Kinds DEF StealGlobal, Queue
    <3> QED
      BY Zenon, <1>7, <3>1, <3>2, <3>3
  <2>3. ASSUME NEW q \in Procs, Queue(q) # <<>>, Begin(w, Head(Queue(q))) PROVE PendingExact'
    <3>1. Queue(q) \in Seq(Runs)
      BY Zenon, <1>a, Kinds DEF QueueType, Queue
    <3>2. Head(Queue(q)) \in Runs /\ Queued(q, Head(Queue(q)))
      BY Zenon, <2>3, <3>1, PopOn DEF Queued
    <3> QED
      BY Zenon, <1>6, <2>1, <2>3, <3>2
  <2>4. CASE task' = task
    <3>1. Counted' = Counted
      BY Zenon, <1>i, <2>1, <2>4
    <3> QED
      BY Zenon, <1>f, <2>1, <3>1
  <2> QED
    BY Zenon, <2>2, <2>3, <2>4
<1>8. ASSUME NEW w \in Workers, DrainRecv(w) PROVE PendingExact'
  <2>1. UNCHANGED <<task, owed, pending>>
    BY Zenon, <1>8 DEF DrainRecv, schedVars
  <2>2. PICK a \in Actors : a = run[w]
    BY Zenon, <1>a, <1>8 DEF DrainRecv, WorkerSound, InDrain
  <2>3. CASE fate' = fate
    <3>1. Counted' = Counted
      BY Zenon, <1>i, <2>1, <2>3
    <3> QED
      BY Zenon, <1>f, <2>1, <3>1
  <2>4. CASE mailbox[a] # <<>> /\ fate' = [fate EXCEPT ![Head(mailbox[a])] = "taken"]
    <3>1. PICK m \in Msgs : m = Head(mailbox[a]) /\ Boxed(a, m)
      BY Zenon, <1>a, <2>4, PopOn DEF BoxType, Boxed
    <3>2. fate[m] = "mailed"
      BY Zenon, <3>1 DEF MsgInv, Placed
    <3>3. Counted' = Counted
      BY Zenon, <1>b, <1>i, <2>1, <2>4, <3>1, <3>2
    <3> QED
      BY Zenon, <1>f, <2>1, <3>3
  <2> QED
    BY Zenon, <1>8, <2>2, <2>3, <2>4 DEF DrainRecv
<1>9. ASSUME NEW w \in Workers, DrainDeliver(w) \/ HandlerReturn(w) PROVE PendingExact'
  <2>1. UNCHANGED <<task, pending>> /\ wpc[w] \in {"deliver", "handler"}
    BY Zenon, <1>9 DEF DrainDeliver, HandlerReturn, schedVars
  <2>2. CASE UNCHANGED <<fate, owed>>
    <3>1. Counted' = Counted
      BY Zenon, <1>i, <2>1, <2>2
    <3> QED
      BY Zenon, <1>f, <2>1, <3>1
  <2>3. ASSUME NEW f \in {"dropped", "handled"}, Settle(w, f) PROVE PendingExact'
    <3>1. PICK m \in Msgs : m = cur[w]
      BY Zenon, <1>a, <2>1 DEF WorkerSound, PosType
    <3>2. fate[m] = "taken"
      BY Zenon, <3>1 DEF MsgInv, Placed
    <3>4. \A v \in Workers : owed'[v] = IF v = w THEN owed[v] \cup {m} ELSE owed[v]
      BY Zenon, <1>b, <2>3, <3>1 DEF Settle
    <3>5. \A x \in Msgs : fate'[x] = IF x = m THEN f ELSE fate[x]
      BY Zenon, <1>b, <2>3, <3>1 DEF Settle
    <3>6. Counted' = Counted
      <4>1. \A x : (\E v \in Workers : x \in owed'[v]) <=> (\E v \in Workers : x \in owed[v]) \/ x = m
        BY Zenon, <3>4
      <4>2. m \in Counted /\ m \in Counted'
        BY Zenon, <1>d, <1>e, <3>2, <4>1
      <4>3. \A x : x # m => (x \in Counted' <=> x \in Counted)
        BY Zenon, <1>d, <1>e, <2>1, <3>5, <4>1
      <4> QED
        BY <4>2, <4>3
    <3> QED
      BY Zenon, <1>f, <2>1, <3>6
  <2> QED
    BY Zenon, <1>9, <2>2, <2>3 DEF DrainDeliver, HandlerReturn
<1>10. ASSUME NEW w \in Workers, PendingDec(w) PROVE PendingExact' /\ Shrank
  <2>1. fate' = fate /\ wpc[w] = "dec" /\ pending' = pending - delivered[w] /\ owed' = [owed EXCEPT ![w] = {}]
        /\ Dues(w) /\ run[w] \in Runs /\ Cardinality(Counted) \in Nat
    BY Zenon, <1>10, <1>a, <1>c, FS_CardinalityType DEF PendingDec, CountInv, WorkerSound, Ending
  <2>2. CASE run[w] \in Tasks
    <3>1. Does(w, run[w]) /\ task' = [task EXCEPT ![run[w]] = "finished"] /\ delivered[w] = 1 /\ owed[w] = {}
      BY Zenon, <1>10, <2>1, <2>2 DEF PendingDec, Does, Dues
    <3>2. task[run[w]] = "running"
      BY Zenon, <2>2, <3>1, Kinds DEF RunInv, Known, Running
    <3>3. run[w] \in Counted
      BY Zenon, <1>d, <2>2, <3>2
    <3>4. \A v \in Workers : owed'[v] = owed[v]
      BY Zenon, <1>b, <2>1, <3>1
    <3>5. Counted' = Counted \ {run[w]}
      BY <1>b, <1>d, <1>e, <2>1, <2>2, <3>1, <3>2, <3>4, Kinds
    <3>6. Cardinality(Counted') = Cardinality(Counted) - 1
      BY Zenon, <1>c, <3>3, <3>5, FS_RemoveElement
    <3> QED
      BY Zenon, <1>c, <2>1, <3>1, <3>5, <3>6 DEF PendingExact
  <2>3. CASE run[w] \in Actors
    <3>1. task' = task /\ delivered[w] = Cardinality(owed[w])
      BY Zenon, <1>10, <2>1, <2>3, Kinds DEF PendingDec, Dues
    <3>2. owed[w] \subseteq Counted /\ Counted \cap owed[w] = owed[w]
      BY Zenon, <1>d
    <3>3. \A v \in Workers : owed'[v] = IF v = w THEN {} ELSE owed[v]
      BY Zenon, <1>b, <2>1
    <3>4. Counted' = Counted \ owed[w]
      <4>1. \A x : x \in Counted' => x \in Counted /\ x \notin owed[w]
        BY Zenon, <1>b, <1>d, <1>e, <1>h, <2>1, <3>1, <3>3, Kinds
      <4>2. \A x : x \in Counted /\ x \notin owed[w] => x \in Counted'
        BY Zenon, <1>d, <1>e, <2>1, <3>1, <3>3
      <4> QED
        BY Zenon, <4>1, <4>2
    <3>5. Cardinality(Counted') = Cardinality(Counted) - Cardinality(owed[w])
      <4>1. IsFiniteSet(owed[w])
        BY Zenon, CountedFinite
      <4>2. Cardinality(Counted \ owed[w]) = Cardinality(Counted) - Cardinality(Counted \cap owed[w])
        BY <1>c, <4>1, FS_Difference, Zenon
      <4> QED
        BY ONLY <3>2, <3>4, <4>2
    <3> QED
      BY Zenon, <1>c, <2>1, <3>1, <3>4, <3>5 DEF PendingExact
  <2> QED
    BY Zenon, <2>1, <2>2, <2>3 DEF Runs
<1>11. ASSUME UNCHANGED <<pending, task, fate, owed>> PROVE PendingExact'
  <2>1. Counted' = Counted
    BY Zenon, <1>11 DEF Counted
  <2> QED
    BY Zenon, <1>f, <1>11, <2>1
<1>12. ASSUME NEW p \in Procs, \/ \E k \in Tasks : Join(p, k)
                               \/ \E a \in Actors : Stop(p, a)
                               \/ PushRun(p) \/ EnqueueActor(p) \/ StopClose(p) \/ JoinCheck(p) \/ SpuriousWakeup(p)
       PROVE  UNCHANGED <<pending, task, fate, owed>>
  BY Zenon, <1>12 DEF Join, Stop, PushRun, EnqueueActor, StopClose, JoinCheck, SpuriousWakeup, schedVars, workVars
<1>13. ASSUME NEW w \in Workers, \/ WorkerTop(w) \/ IdleLeave(w) \/ TaskReturn(w) \/ TaskSignal(w) \/ BroadcastDrained(w)
                                 \/ DrainLock(w) \/ DrainEnd(w) \/ DrainMore(w)
       PROVE  UNCHANGED <<pending, task, fate, owed>>
  BY Zenon, <1>13 DEF WorkerTop, IdleLeave, TaskReturn, TaskSignal, BroadcastDrained, DrainLock, DrainEnd, DrainMore, schedVars, workVars
<1>14. ASSUME MainStep \/ CallWaitAll \/ Terminated PROVE UNCHANGED <<pending, task, fate, owed>>
  BY Zenon, <1>14 DEF MainStep, CallWaitAll, CallFinish, WaitAll, SetStopping, JoinWorkersAndFree, Terminated, vars, schedVars, workVars
<1>15. ASSUME NEW p \in Procs, SendMail(p) PROVE pending' = pending
  BY Zenon, <1>15 DEF SendMail, schedVars
<1>16. ASSUME NEW w \in Workers, PopLocal(w) \/ Steal(w) \/ StealGlobal(w) \/ DrainRecv(w) \/ DrainDeliver(w) \/ HandlerReturn(w)
       PROVE  pending' = pending
  BY Zenon, <1>16 DEF PopLocal, Steal, StealGlobal, DrainRecv, DrainDeliver, HandlerReturn, schedVars
<1>17. PendingExact'
  BY ONLY Next, <1>1, <1>2, <1>3, <1>4, <1>5, <1>7, <1>8, <1>9, <1>10, <1>11, <1>12, <1>13, <1>14
  DEF Next, UserCall, CallStep, WorkerStep
<1>18. pending' = pending \/ (\E p \in Procs : UserCall(p) \/ SendCount(p) \/ SendUndo(p)) \/ Shrank
  BY ONLY Next, <1>10, <1>12, <1>13, <1>14, <1>15, <1>16 DEF Next, CallStep, WorkerStep
<1> QED
  BY Zenon, <1>17, <1>18

\* Once karkain_conc_finish has seen pending = 0 it stays 0: only user code
\* adds work, and user code is itself counted.
LEMMA ShutKept ==
  ASSUME ShapeInv, RunInv, MsgInv, CountInv, Next, PendingExact', MsgInv'
  PROVE  (ShutMain => pending = 0)'
<1> SUFFICES ASSUME ShutMain' PROVE pending' = 0
  BY Zenon
<1>a. CallInv /\ CallerInv
  BY Zenon DEF ShapeInv
<1>1. CASE ShutMain
  <2>1. Counted = {} /\ pending = 0
    <3>1. IsFiniteSet(Counted) /\ Cardinality(Counted) = 0 /\ pending = 0
      BY Zenon, <1>1, CountedFinite DEF CountInv, PendingExact
    <3> QED
      BY Zenon, <3>1, FS_EmptySet
  <2>2. \A w \in Workers : wpc[w] \notin {"task", "handler"}
    BY Zenon, <2>1, UserCodeCounted DEF InUserCode
  <2>3. mpc # "run" /\ call[Main].pc = "none"
    BY Zenon, <1>1, <1>a DEF ShutMain, CallInv
  <2>4. \A p \in Procs : ~UserCall(p)
    BY <2>2, <2>3, Kinds DEF UserCall, Spawn, Join, Stop, Send, MayCall
  <2>5. \A p \in Procs : ~SendCount(p) /\ ~SendUndo(p)
    BY Zenon, <1>a, <2>2, <2>3, Kinds DEF SendCount, SendUndo, At, CallerInv
  <2>6. CASE pending' = pending
    BY Zenon, <2>1, <2>6
  <2>7. CASE Counted' \subseteq Counted
    <3>1. Counted' = {}
      BY Zenon, <2>1, <2>7
    <3> QED
      BY Zenon, <3>1, FS_EmptySet DEF PendingExact
  <2> QED
    BY Zenon, <2>4, <2>5, <2>6, <2>7, PendingKept
<1>2. CASE ~ShutMain
  <2>1. WaitAll
    <3>1. ASSUME NEW p \in Procs, UserCall(p) \/ CallStep(p) \/ SpuriousWakeup(p) PROVE FALSE
      <4>1. mpc' = mpc \/ mpc' \in {"wait", "fin_wait"}
        BY Zenon, <3>1 DEF UserCall, CallStep, Spawn, Join, Stop, Send, PushRun, SendCount, SendMail, SendUndo, EnqueueActor,
          StopClose, JoinCheck, SpuriousWakeup
      <4> QED
        BY Zenon, <1>2, <4>1 DEF ShutMain
    <3>2. ASSUME NEW w \in Workers, WorkerStep(w) PROVE FALSE
      <4>1. CASE BroadcastDrained(w)
        BY Zenon, <1>2, <4>1 DEF BroadcastDrained, ShutMain
      <4>2. CASE mpc' = mpc
        BY Zenon, <1>2, <4>2 DEF ShutMain
      <4> QED
        BY Zenon, <3>2, <4>1, <4>2 DEF WorkerStep, WorkerTop, PopLocal, Steal, StealGlobal, IdleLeave, TaskReturn, TaskSignal,
          PendingDec, DrainLock, DrainRecv, DrainDeliver, HandlerReturn, DrainEnd, DrainMore
    <3>3. ASSUME CallFinish \/ SetStopping \/ JoinWorkersAndFree \/ CallWaitAll \/ Terminated PROVE FALSE
      BY Zenon, <1>2, <3>3 DEF CallFinish, SetStopping, JoinWorkersAndFree, CallWaitAll, Terminated, vars, ShutMain
    <3> QED
      BY ONLY Next, <3>1, <3>2, <3>3 DEF Next, MainStep
  <2> QED
    BY Zenon, <1>2, <2>1 DEF WaitAll, Outstanding, ShutMain, schedVars
<1> QED
  BY Zenon, <1>1, <1>2

\* karkain_wait_all: the step that brings `pending` to zero leads to a
\* broadcast; the undo of a send never is that step.
LEMMA WaitersKept ==
  ASSUME ShapeInv, RunInv, MsgInv, CountInv, Next, ShapeInv', RunInv', MsgInv', PendingExact'
  PROVE  WaitersWoken'
<1> DEFINE Sleeps == mpc \in {"asleep", "fin_asleep"}
<1> SUFFICES ASSUME Sleeps', pending' = 0 PROVE \E w \in Workers : wpc'[w] = "drained"
  BY Zenon DEF WaitersWoken
<1>a. CallInv /\ CallerInv /\ PosType /\ pending \in Nat
  <2>1. Cardinality(Counted) \in Nat
    BY Zenon, CountedFinite, FS_CardinalityType
  <2> QED
    BY Zenon, <2>1 DEF ShapeInv, WorkerInv, CountInv, PendingExact
<1>b. ASSUME Sleeps, pending' = pending, \A w \in Workers : wpc[w] = "drained" => wpc'[w] = "drained"
      PROVE  \E w \in Workers : wpc'[w] = "drained"
  BY Zenon, <1>b DEF CountInv, WaitersWoken
<1>c. ASSUME NEW p \in Procs, UserCall(p) PROVE \E w \in Workers : wpc'[w] = "drained"
  <2>1. (pending' = pending \/ pending' = pending + 1) /\ mpc' = mpc /\ wpc' = wpc
    BY Zenon, <1>c DEF UserCall, Spawn, Join, Stop, Send, schedVars, posVars
  <2> QED
    BY <1>a, <1>b, <2>1
<1>1. ASSUME NEW p \in Procs, SendCount(p) PROVE FALSE
  BY <1>a, <1>1 DEF SendCount
<1>2. ASSUME NEW p \in Procs, SendUndo(p) PROVE FALSE
  <2>1. mpc' = mpc /\ wpc' = wpc /\ call[p].pc = "undo"
    BY Zenon, <1>2 DEF SendUndo, At, posVars
  <2>2. p \in Workers
    BY Zenon, <1>a, <2>1, Kinds DEF CallInv
  <2>3. wpc'[p] \in {"task", "handler"}
    BY Zenon, <1>a, <2>1, <2>2 DEF CallerInv
  <2>4. (\A w \in Workers : InUserCode(w) => Counted # {})' /\ IsFiniteSet(Counted)'
    BY UserCodeCounted, CountedFinite, PTL
  <2>5. Counted' # {} /\ IsFiniteSet(Counted')
    BY Zenon, <2>2, <2>3, <2>4 DEF InUserCode
  <2>6. Cardinality(Counted') # 0
    BY Zenon, <2>5, FS_EmptySet
  <2> QED
    BY Zenon, <2>6 DEF PendingExact
<1>3. ASSUME NEW p \in Procs, PushRun(p) \/ SendMail(p) \/ EnqueueActor(p) \/ StopClose(p) \/ JoinCheck(p) \/ SpuriousWakeup(p)
      PROVE  \E w \in Workers : wpc'[w] = "drained"
  <2>1. pending' = pending /\ wpc' = wpc
    BY Zenon, <1>3 DEF PushRun, SendMail, EnqueueActor, StopClose, JoinCheck, SpuriousWakeup, schedVars, posVars
  <2>2. mpc' = mpc \/ mpc' \in {"wait", "fin_wait"}
    BY Zenon, <1>3 DEF PushRun, SendMail, EnqueueActor, StopClose, JoinCheck, SpuriousWakeup
  <2> QED
    BY Zenon, <1>b, <2>1, <2>2
<1>4. ASSUME NEW w \in Workers, PendingDec(w) PROVE wpc'[w] = "drained"
  BY Zenon, <1>4, <1>a DEF PendingDec, ReachedZero, GoTo, PosType
<1>5. ASSUME NEW w \in Workers, BroadcastDrained(w) PROVE FALSE
  BY Zenon, <1>5 DEF BroadcastDrained
<1>6. ASSUME NEW w \in Workers, \/ WorkerTop(w) \/ PopLocal(w) \/ Steal(w) \/ StealGlobal(w) \/ IdleLeave(w)
                                \/ TaskReturn(w) \/ TaskSignal(w) \/ DrainLock(w) \/ DrainRecv(w)
                                \/ DrainDeliver(w) \/ HandlerReturn(w) \/ DrainEnd(w) \/ DrainMore(w)
      PROVE  \E v \in Workers : wpc'[v] = "drained"
  <2>1. pending' = pending /\ mpc' = mpc /\ (wpc' = wpc \/ \E l : GoTo(w, l))
    BY Zenon, <1>6 DEF WorkerTop, PopLocal, Steal, StealGlobal, IdleLeave, TaskReturn, TaskSignal, DrainLock,
      DrainRecv, DrainDeliver, HandlerReturn, DrainEnd, DrainMore, Begin, Settle, schedVars
  <2>2. wpc[w] # "drained"
    BY Zenon, <1>6 DEF WorkerTop, PopLocal, Steal, StealGlobal, IdleLeave, TaskReturn, TaskSignal, DrainLock,
      DrainRecv, DrainDeliver, HandlerReturn, DrainEnd, DrainMore
  <2>3. \A v \in Workers : v # w => wpc'[v] = wpc[v]
    BY Zenon, <1>a, <2>1 DEF GoTo, PosType
  <2> QED
    BY Zenon, <1>b, <2>1, <2>2, <2>3
<1>7. ASSUME WaitAll PROVE FALSE
  BY Zenon, <1>7 DEF WaitAll, Outstanding, schedVars
<1>8. ASSUME CallFinish \/ SetStopping \/ JoinWorkersAndFree \/ CallWaitAll PROVE FALSE
  BY Zenon, <1>8 DEF CallFinish, SetStopping, JoinWorkersAndFree, CallWaitAll
<1>9. ASSUME Terminated PROVE FALSE
  BY Zenon, <1>9 DEF Terminated, vars
<1> QED
  BY ONLY Next, <1>c, <1>1, <1>2, <1>3, <1>4, <1>5, <1>6, <1>7, <1>8, <1>9 DEF Next, CallStep, WorkerStep, MainStep

\* Nothing is counted at the start.
LEMMA CountInitial == Init => CountInv
<1> SUFFICES ASSUME Init PROVE CountInv
  BY Zenon
<1>1. Counted = {}
  BY Zenon DEF Init, Counted
<1>2. PendingExact /\ (ShutMain => pending = 0) /\ WaitersWoken
  BY Zenon, <1>1, FS_EmptySet DEF Init, PendingExact, ShutMain, WaitersWoken
<1>3. \A w \in Workers : Dues(w)
  BY Zenon DEF Init, Dues, Off, InDrain, InTask
<1> QED
  BY Zenon, <1>2, <1>3 DEF CountInv

\* The inductive invariant of the runtime.
RuntimeInv == ShapeInv /\ RunInv /\ MsgInv /\ CareInv /\ CountInv

\* Every step of the runtime keeps the whole invariant.
LEMMA RuntimeStep == RuntimeInv /\ [Next]_vars => RuntimeInv'
<1> SUFFICES ASSUME RuntimeInv, [Next]_vars PROVE RuntimeInv'
  BY Zenon
<1>1. ShapeInv' /\ RunInv' /\ MsgInv' /\ CareInv'
  BY Zenon, ShapeStep, RunStep, MsgStep, CareStep DEF RuntimeInv
<1>2. CASE Next
  <2>1. (\A w \in Workers : Dues(w)') /\ PendingExact'
    BY Zenon, <1>2, DuesKept, PendingKept DEF RuntimeInv, CountInv
  <2>2. (ShutMain => pending = 0)' /\ WaitersWoken'
    BY Zenon, <1>1, <1>2, <2>1, ShutKept, WaitersKept DEF RuntimeInv
  <2> QED
    BY Zenon, <1>1, <2>1, <2>2 DEF RuntimeInv, CountInv
<1>3. CASE UNCHANGED vars
  <2>1. UNCHANGED <<pending, mpc, wpc, run, delivered, task, fate, owed>>
    BY Zenon, <1>3 DEF vars, schedVars, workVars, posVars, locals
  <2>2. CountInv'
    BY <2>1 DEF RuntimeInv, CountInv, Dues, PendingExact, Counted, ShutMain, WaitersWoken
  <2> QED
    BY Zenon, <1>1, <2>2 DEF RuntimeInv
<1> QED
  BY Zenon, <1>2, <1>3

\* The invariant holds in every state of the runtime.
LEMMA RuntimeInvariant == Spec => []RuntimeInv
<1>1. Init => RuntimeInv
  BY Zenon, ShapeInitial, RunInitial, MsgInitial, CareInitial, CountInitial DEF RuntimeInv
<1> QED
  BY <1>1, RuntimeStep, PTL DEF Spec

-----------------------------------------------------------------------------
(* What follows.                                                           *)

\* A run has one holder at most, and none when it neither waits nor runs.
LEMMA OneHolder ==
  ASSUME ShapeInv, RunInv, NEW r \in Runs
  PROVE  /\ \A g, h \in Holders(r) : g = h
         /\ r \in Actors => (queued[r] <=> Holders(r) # {})
<1> DEFINE Slot(p, i) == i \in DOMAIN Queue(p) /\ Queue(p)[i] = r
           Works(w) == run[w] = r /\ wpc[w] \in {"task", "drain", "recv", "deliver", "handler", "empty"}
<1>1. \A h : h \in Holders(r) <=> \/ \E p \in Procs : \E i \in DOMAIN Queue(p) : Slot(p, i) /\ h = <<p, i>>
                                  \/ \E p \in Procs : Pushes(p, r) /\ h = <<p, 0>>
                                  \/ \E w \in Workers : Works(w) /\ h = <<w, -1>>
  <2>1. \A h : h \in Slots(r) <=>
          \/ \E w \in Workers : \E i \in DOMAIN local[w] : local[w][i] = r /\ h = <<w, i>>
          \/ \E i \in DOMAIN global : global[i] = r /\ h = <<Main, i>>
    <3> DEFINE Own(w) == {<<w, i>> : i \in {j \in DOMAIN local[w] : local[w][j] = r}}
               Injected == {<<Main, i>> : i \in {j \in DOMAIN global : global[j] = r}}
    <3>1. \A w, h : h \in Own(w) <=> \E i \in DOMAIN local[w] : local[w][i] = r /\ h = <<w, i>>
      BY Zenon
    <3>2. \A h : h \in Injected <=> \E i \in DOMAIN global : global[i] = r /\ h = <<Main, i>>
      BY Zenon
    <3>3. Slots(r) = (UNION {Own(w) : w \in Workers}) \cup Injected
      BY Zenon DEF Slots
    <3> HIDE DEF Own, Injected
    <3>4. \A h : h \in Slots(r) <=> (\E w \in Workers : h \in Own(w)) \/ h \in Injected
      BY Zenon, <3>3
    <3> QED
      BY Zenon, <3>1, <3>2, <3>4
  <2>2. Queue(Main) = global /\ \A w \in Workers : Queue(w) = local[w]
    BY Zenon, Kinds DEF Queue
  <2>3. \A h : h \in Slots(r) <=> \E p \in Procs : \E i \in DOMAIN Queue(p) : Slot(p, i) /\ h = <<p, i>>
    <3> HIDE DEF Queue
    <3> QED
      BY <2>1, <2>2, Kinds, Zenon
  <2>4. \A h : h \in Holders(r) <=>
          \/ h \in Slots(r)
          \/ \E p \in Procs : Pushes(p, r) /\ h = <<p, 0>>
          \/ \E w \in Workers : Works(w) /\ h = <<w, -1>>
    BY Zenon DEF Holders, Pushes, At
  <2> QED
    BY Zenon, <2>3, <2>4
<1>2. \A w \in Workers : Works(w) => Does(w, r)
  BY Zenon, Kinds DEF ShapeInv, WorkerInv, WorkerSound, Does, InDrain, InTask
<1>3. r \in Actors => \A w \in Workers : Does(w, r) => Works(w)
  BY Zenon, Kinds DEF Does, InDrain
<1>4. \A p \in Procs : \A i \in DOMAIN Queue(p) : Slot(p, i) => Queued(p, r)
  BY Zenon DEF Queued, On
<1>5. Once(r) /\ Known(r) /\ \A p \in Procs : Distinct(Queue(p))
  BY Zenon DEF RunInv
<1>6. ASSUME NEW g \in Holders(r), NEW h \in Holders(r) PROVE g = h
  <2>1. CASE \E p \in Procs : \E i \in DOMAIN Queue(p) : Slot(p, i) /\ g = <<p, i>>
    <3>1. PICK p \in Procs : \E i \in DOMAIN Queue(p) : Slot(p, i) /\ g = <<p, i>>
      BY Zenon, <2>1
    <3>2. PICK q \in Procs : \E j \in DOMAIN Queue(q) : Slot(q, j) /\ h = <<q, j>>
      BY <1>1, <1>2, <1>4, <1>5, <3>1 DEF Once, Waiting, Running
    <3>3. p = q
      BY Zenon, <1>4, <1>5, <3>1, <3>2 DEF Once
    <3> QED
      BY Zenon, <1>5, <3>1, <3>2, <3>3 DEF Distinct
  <2>2. CASE \E p \in Procs : Pushes(p, r) /\ g = <<p, 0>>
    <3>1. PICK p \in Procs : Pushes(p, r) /\ g = <<p, 0>>
      BY Zenon, <2>2
    <3>2. PICK q \in Procs : Pushes(q, r) /\ h = <<q, 0>>
      BY <1>1, <1>2, <1>4, <1>5, <3>1 DEF Once, Waiting, Running
    <3> QED
      BY Zenon, <1>5, <3>1, <3>2 DEF Once
  <2>3. CASE \E w \in Workers : Works(w) /\ g = <<w, -1>>
    <3>1. PICK w \in Workers : Works(w) /\ g = <<w, -1>>
      BY Zenon, <2>3
    <3>2. PICK v \in Workers : Works(v) /\ h = <<v, -1>>
      BY Zenon, <1>1, <1>2, <1>4, <1>5, <3>1 DEF Once, Waiting, Running
    <3> QED
      BY Zenon, <1>2, <1>5, <3>1, <3>2 DEF Once
  <2> QED
    BY Zenon, <1>1, <2>1, <2>2, <2>3
<1>7. ASSUME r \in Actors PROVE queued[r] <=> Holders(r) # {}
  <2>1. queued[r] <=> Waiting(r) \/ Running(r)
    BY Zenon, <1>5, <1>7 DEF Known
  <2>2. Waiting(r) \/ Running(r) => \E h : h \in Holders(r)
    BY Zenon, <1>1, <1>3, <1>7 DEF Waiting, Running, Queued, On
  <2>3. \A h \in Holders(r) : Waiting(r) \/ Running(r)
    BY Zenon, <1>1, <1>2, <1>4 DEF Waiting, Running
  <2> QED
    BY Zenon, <2>1, <2>2, <2>3
<1> QED
  BY Zenon, <1>6, <1>7

\* A set whose members are all equal has at most one.
LEMMA AtMostOne ==
  ASSUME NEW S, \A g, h \in S : g = h PROVE Cardinality(S) = IF S = {} THEN 0 ELSE 1
<1>1. CASE S = {}
  BY Zenon, <1>1, FS_EmptySet
<1>2. CASE S # {}
  <2>1. PICK h \in S : S = {h}
    BY Zenon, <1>2
  <2>2. Cardinality({h}) = 1
    BY Zenon, FS_Singleton
  <2> QED
    BY Zenon, <1>2, <2>1, <2>2
<1> QED
  BY Zenon, <1>1, <1>2

\* karkain_scheduler.c and karkain_actor.c: whatever the interleaving of
\* sends, pushes, steals and drains, an actor is in exactly one place while
\* its flag `queued` is set and nowhere while it is clear; a task is in one
\* place at most.
THEOREM RunsHaveOnePlace == Spec => []RunOnce
<1>1. RuntimeInv => RunOnce
  <2> SUFFICES ASSUME RuntimeInv PROVE RunOnce
    BY Zenon
  <2>1. \A r \in Runs : /\ Cardinality(Holders(r)) = IF Holders(r) = {} THEN 0 ELSE 1
                        /\ r \in Actors => (queued[r] <=> Holders(r) # {})
    BY Zenon, OneHolder, AtMostOne DEF RuntimeInv
  <2> QED
    BY <2>1, Kinds DEF RunOnce
<1> QED
  BY <1>1, RuntimeInvariant, PTL

\* karkain_actor_send, karkain_sched_spawn, karkain_sched_pending_dec:
\* `pending` is the number of accepted tasks and messages that are not yet
\* discounted.
THEOREM PendingIsExact == Spec => []PendingExact
<1>1. RuntimeInv => PendingExact
  BY Zenon DEF RuntimeInv, CountInv
<1> QED
  BY <1>1, RuntimeInvariant, PTL

\* karkain_sched_drain_actor's last look at the mailbox: no message of an
\* actor that is not stopped waits with nobody to bring it to the handler.
THEOREM MessagesAreAttended == Spec => []NoStrandedMessage
<1>1. RuntimeInv => NoStrandedMessage
  BY Zenon DEF RuntimeInv, CareInv
<1> QED
  BY <1>1, RuntimeInvariant, PTL

\* karkain_wait_all and karkain_task_join: nobody sleeps on a condition that
\* holds without a broadcast on its way.
THEOREM SleepersAreWoken == Spec => []SleepersWoken
<1>1. RuntimeInv => SleepersWoken
  BY Zenon DEF RuntimeInv, CareInv, CountInv, WaitersWoken, JoinersWoken, SleepersWoken
<1> QED
  BY <1>1, RuntimeInvariant, PTL

\* karkain_conc_finish: once it has seen pending = 0 every task has run,
\* every message is settled and no worker is inside user code.
THEOREM ShutdownIsComplete == Spec => []ShutdownComplete
<1>1. RuntimeInv => ShutdownComplete
  <2> SUFFICES ASSUME RuntimeInv, ShutMain
               PROVE  /\ Counted = {}
                      /\ \A a \in Actors : mailbox[a] = <<>>
                      /\ \A w \in Workers : /\ ~InUserCode(w)
                                            /\ call[w].pc \in {"none", "enqueue", "push"}
                                            /\ \A i \in DOMAIN local[w] : local[w][i] \in Actors
                      /\ \A i \in DOMAIN global : global[i] \in Actors
    BY Zenon DEF ShutdownComplete, ShutMain, InUserCode
  <2>a. ShapeInv /\ RunInv /\ MsgInv
    BY Zenon DEF RuntimeInv
  <2>1. Counted = {}
    <3>1. IsFiniteSet(Counted) /\ Cardinality(Counted) = 0
      BY Zenon, <2>a, CountedFinite DEF RuntimeInv, CountInv, PendingExact
    <3> QED
      BY Zenon, <3>1, FS_EmptySet
  <2>2. ASSUME NEW a \in Actors PROVE mailbox[a] = <<>>
    <3> SUFFICES ASSUME mailbox[a] # <<>> PROVE FALSE
      BY Zenon
    <3>1. PICK m \in Msgs : Boxed(a, m)
      BY Zenon, <2>a, PopOn DEF ShapeInv, BoxType, Boxed
    <3>2. fate[m] = "mailed"
      BY Zenon, <2>a, <3>1 DEF MsgInv, Placed
    <3> QED
      BY Zenon, <2>1, <3>2 DEF Counted
  <2>3. \A w \in Workers : ~InUserCode(w)
    BY Zenon, <2>a, <2>1, UserCodeCounted
  <2>4. \A w \in Workers : call[w].pc \in {"none", "enqueue", "push"}
    BY Zenon, <2>a, <2>3 DEF ShapeInv, CallerInv, InUserCode
  <2>5. ASSUME NEW p \in Procs, NEW i \in DOMAIN Queue(p) PROVE Queue(p)[i] \in Actors
    <3>1. Queue(p) \in Seq(Runs)
      BY Zenon, <2>a, Kinds DEF ShapeInv, QueueType, Queue
    <3>2. Queue(p)[i] \in Runs
      BY <3>1
    <3>3. Waiting(Queue(p)[i])
      BY Zenon DEF Waiting, Queued, On
    <3>4. Queue(p)[i] \notin Tasks
      BY Zenon, <2>a, <2>1, <3>2, <3>3 DEF RunInv, Known, Counted
    <3> QED
      BY Zenon, <3>2, <3>4 DEF Runs
  <2>6. \A w \in Workers : \A i \in DOMAIN local[w] : local[w][i] \in Actors
    BY Zenon, <2>5, Kinds DEF Queue
  <2>7. \A i \in DOMAIN global : global[i] \in Actors
    BY Zenon, <2>5, Kinds DEF Queue
  <2> QED
    BY Zenon, <2>1, <2>2, <2>3, <2>4, <2>6, <2>7
<1> QED
  BY <1>1, RuntimeInvariant, PTL

=============================================================================
