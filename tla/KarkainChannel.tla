--------------------------- MODULE KarkainChannel ---------------------------
(***************************************************************************)
(* One channel of the C concurrency runtime (karkain_channel.c).           *)
(*                                                                         *)
(* Every operation runs between karkain_mutex_lock(&c->lock) and the       *)
(* matching unlock, or up to a karkain_cond_wait, which gives the lock     *)
(* away.  Each such stretch is one action.  A condition variable is the    *)
(* set of threads asleep on it; a thread whose phase is "wait" and which   *)
(* is in neither set has been woken and is queueing for the lock.          *)
(***************************************************************************)
EXTENDS Integers, Sequences, FiniteSets

CONSTANTS
  Threads,  \* callers of the channel: workers and main
  Msgs,     \* payload boxes; each is offered to the channel at most once
  NoMsg,
  Caps      \* capacities the program creates channels with

ASSUME ChannelAssumption ==
  /\ IsFiniteSet(Threads)
  /\ NoMsg \notin Msgs
  /\ Caps \subseteq Int

VARIABLES
  cap, queue, closed, op, msg, fate, destroyed, \* as in FifoChannel
  phase,         \* "out", "enter" (about to lock) or "wait" (inside cond_wait)
  waiters_send,
  waiters_recv,
  not_full,      \* senders asleep on c->not_full
  not_empty      \* receivers asleep on c->not_empty

absVars == <<cap, queue, closed, op, msg, fate, destroyed>>
vars == <<absVars, phase, waiters_send, waiters_recv, not_full, not_empty>>

Fates == {"fresh", "offered", "queued", "received", "released", "leaked"}

-----------------------------------------------------------------------------
(* karkain_channel_create: the struct is zeroed, cap is the caller's.      *)
Init ==
  /\ cap \in Caps
  /\ queue = <<>>
  /\ closed = FALSE
  /\ op = [t \in Threads |-> "idle"]
  /\ msg = [t \in Threads |-> NoMsg]
  /\ fate = [m \in Msgs |-> "fresh"]
  /\ destroyed = FALSE
  /\ phase = [t \in Threads |-> "out"]
  /\ waiters_send = 0 /\ waiters_recv = 0
  /\ not_full = {} /\ not_empty = {}

Full == cap >= 0 /\ Len(queue) >= cap

\* The wait sets a karkain_cond_signal can leave, given the waiter counter
\* that guards it: one sleeper is woken if there is one.
Signal(waitset, waiters) ==
  IF waiters > 0 /\ waitset # {} THEN {waitset \ {t} : t \in waitset} ELSE {waitset}

\* What a thread inside a wait loop has added to its waiter counter.
InLoop(t) == IF phase[t] = "wait" THEN 1 ELSE 0

Return(t) ==
  /\ op' = [op EXCEPT ![t] = "idle"]
  /\ msg' = [msg EXCEPT ![t] = NoMsg]
  /\ phase' = [phase EXCEPT ![t] = "out"]

Call(t, o, m) ==
  /\ ~destroyed
  /\ phase[t] = "out"
  /\ op' = [op EXCEPT ![t] = o]
  /\ msg' = [msg EXCEPT ![t] = m]
  /\ phase' = [phase EXCEPT ![t] = "enter"]

-----------------------------------------------------------------------------
(* karkain_channel_send                                                    *)
CallSend(t, m) ==
  /\ fate[m] = "fresh"
  /\ Call(t, "send", m)
  /\ fate' = [fate EXCEPT ![m] = "offered"]
  /\ UNCHANGED <<cap, queue, closed, destroyed, waiters_send, waiters_recv, not_full, not_empty>>

\* malloc of the queue node fails before the lock is taken: 0 is returned and
\* the payload is not released.
SendNoMemory(t) ==
  /\ op[t] = "send" /\ phase[t] = "enter"
  /\ fate' = [fate EXCEPT ![msg[t]] = "leaked"]
  /\ Return(t)
  /\ UNCHANGED <<cap, queue, closed, destroyed, waiters_send, waiters_recv, not_full, not_empty>>

SendReject(t) ==
  /\ fate' = [fate EXCEPT ![msg[t]] = "released"]
  /\ Return(t)
  /\ UNCHANGED <<queue, not_empty>>

\* Mutant: waiters_recv is tested before the append makes a receiver's wait
\* pointless, so only the first message of a burst signals.
channel_append_SignalWhenEmpty(t) ==
  /\ queue' = Append(queue, msg[t])
  /\ fate' = [fate EXCEPT ![msg[t]] = "queued"]
  /\ not_empty' \in IF queue = <<>> THEN Signal(not_empty, waiters_recv) ELSE {not_empty}
  /\ Return(t)

channel_append(t) ==
  /\ queue' = Append(queue, msg[t])
  /\ fate' = [fate EXCEPT ![msg[t]] = "queued"]
  /\ not_empty' \in Signal(not_empty, waiters_recv)
  /\ Return(t)

\* The sender takes the lock, on entry or after cond_wait(&c->not_full) was
\* ended, and is rejected, appends, or goes (back) to sleep.
SendStep(t) ==
  /\ op[t] = "send" /\ phase[t] # "out" /\ t \notin not_full
  /\ \/ /\ closed /\ SendReject(t)
        /\ waiters_send' = waiters_send - InLoop(t)
        /\ UNCHANGED not_full
     \/ /\ ~closed /\ ~Full /\ channel_append(t)
        /\ waiters_send' = waiters_send - InLoop(t)
        /\ UNCHANGED not_full
     \/ /\ ~closed /\ Full
        /\ waiters_send' = waiters_send - InLoop(t) + 1
        /\ not_full' = not_full \cup {t}
        /\ phase' = [phase EXCEPT ![t] = "wait"]
        /\ UNCHANGED <<queue, op, msg, fate, not_empty>>
  /\ UNCHANGED <<cap, closed, destroyed, waiters_recv>>

-----------------------------------------------------------------------------
(* karkain_channel_recv and karkain_channel_try_recv                       *)
CallRecv(t) ==
  /\ Call(t, "recv", NoMsg)
  /\ UNCHANGED <<cap, queue, closed, fate, destroyed, waiters_send, waiters_recv, not_full, not_empty>>

\* Mutant: the node is read but the head is not advanced past it.
channel_pop_KeepHead ==
  /\ queue # <<>>
  /\ UNCHANGED queue
  /\ fate' = [fate EXCEPT ![Head(queue)] = "received"]
  /\ not_full' \in Signal(not_full, waiters_send)

channel_pop ==
  /\ queue # <<>>
  /\ queue' = Tail(queue)
  /\ fate' = [fate EXCEPT ![Head(queue)] = "received"]
  /\ not_full' \in Signal(not_full, waiters_send)

\* Mutant: waiters_recv is not incremented before the wait.
RecvStep_NoCount(t) ==
  /\ op[t] = "recv" /\ phase[t] # "out" /\ t \notin not_empty
  /\ \/ /\ channel_pop \/ (queue = <<>> /\ closed /\ UNCHANGED <<queue, fate, not_full>>)
        /\ Return(t)
        /\ waiters_recv' = waiters_recv - InLoop(t)
        /\ UNCHANGED not_empty
     \/ /\ queue = <<>> /\ ~closed
        /\ not_empty' = not_empty \cup {t}
        /\ phase' = [phase EXCEPT ![t] = "wait"]
        /\ UNCHANGED <<queue, op, msg, fate, not_full, waiters_recv>>
  /\ UNCHANGED <<cap, closed, destroyed, waiters_send>>

\* The receiver takes the lock and pops a message, returns NULL from a closed
\* and drained channel, or goes (back) to sleep.
RecvStep(t) ==
  /\ op[t] = "recv" /\ phase[t] # "out" /\ t \notin not_empty
  /\ \/ /\ channel_pop \/ (queue = <<>> /\ closed /\ UNCHANGED <<queue, fate, not_full>>)
        /\ Return(t)
        /\ waiters_recv' = waiters_recv - InLoop(t)
        /\ UNCHANGED not_empty
     \/ /\ queue = <<>> /\ ~closed
        /\ waiters_recv' = waiters_recv - InLoop(t) + 1
        /\ not_empty' = not_empty \cup {t}
        /\ phase' = [phase EXCEPT ![t] = "wait"]
        /\ UNCHANGED <<queue, op, msg, fate, not_full>>
  /\ UNCHANGED <<cap, closed, destroyed, waiters_send>>

\* An empty queue makes try_recv return NULL and changes nothing.
TryRecv(t) ==
  /\ ~destroyed /\ phase[t] = "out"
  /\ channel_pop
  /\ UNCHANGED <<cap, closed, op, msg, destroyed, phase, waiters_send, waiters_recv, not_empty>>

-----------------------------------------------------------------------------
\* Mutant: only the receivers are told.
Close_NoSenders(t) ==
  /\ ~destroyed /\ phase[t] = "out"
  /\ ~closed
  /\ closed' = TRUE
  /\ not_empty' = {}
  /\ UNCHANGED <<cap, queue, op, msg, fate, destroyed, phase, waiters_send, waiters_recv, not_full>>

(* karkain_channel_close: the first close broadcasts, a second one         *)
(* returns 0 and changes nothing.                                          *)
Close(t) ==
  /\ ~destroyed /\ phase[t] = "out"
  /\ ~closed
  /\ closed' = TRUE
  /\ not_empty' = {}
  /\ not_full' = {}
  /\ UNCHANGED <<cap, queue, op, msg, fate, destroyed, phase, waiters_send, waiters_recv>>

(* karkain_channel_release and karkain_channel_destroy, called by          *)
(* karkain_conc_finish on the main thread after every worker was joined.   *)
Destroy ==
  /\ ~destroyed
  /\ \A t \in Threads : phase[t] = "out"
  /\ destroyed' = TRUE
  /\ queue' = <<>>
  /\ fate' = [m \in Msgs |-> IF fate[m] = "queued" THEN "released" ELSE fate[m]]
  /\ UNCHANGED <<cap, closed, op, msg, phase, waiters_send, waiters_recv, not_full, not_empty>>

(* The platform may end a cond_wait without any signal.                    *)
SpuriousWakeup(t) ==
  /\ t \in not_full \cup not_empty
  /\ not_full' = not_full \ {t}
  /\ not_empty' = not_empty \ {t}
  /\ UNCHANGED <<absVars, phase, waiters_send, waiters_recv>>

-----------------------------------------------------------------------------
Step(t) == SendStep(t) \/ RecvStep(t)

Next ==
  \/ \E t \in Threads, m \in Msgs : CallSend(t, m)
  \/ \E t \in Threads :
       \/ Step(t) \/ SendNoMemory(t) \/ CallRecv(t) \/ TryRecv(t)
       \/ Close(t) \/ SpuriousWakeup(t)
  \/ Destroy

Spec == Init /\ [][Next]_vars

(* A thread that wants the lock gets it: no holder of c->lock ever blocks. *)
FairSpec == Spec /\ \A t \in Threads : WF_vars(Step(t))

-----------------------------------------------------------------------------
(* Properties                                                              *)

WaitingSenders == {t \in Threads : op[t] = "send" /\ phase[t] = "wait"}
WaitingReceivers == {t \in Threads : op[t] = "recv" /\ phase[t] = "wait"}

\* The struct's fields and the callers' positions have their types; a waiter
\* counter is never negative.
TypeOK ==
  /\ cap \in Caps
  /\ queue \in Seq(Msgs)
  /\ closed \in BOOLEAN
  /\ op \in [Threads -> {"idle", "send", "recv"}]
  /\ msg \in [Threads -> Msgs \cup {NoMsg}]
  /\ fate \in [Msgs -> Fates]
  /\ destroyed \in BOOLEAN
  /\ phase \in [Threads -> {"out", "enter", "wait"}]
  /\ waiters_send \in Nat /\ waiters_recv \in Nat
  /\ not_full \subseteq Threads /\ not_empty \subseteq Threads

\* The waiter counters that let send and recv skip the condition-variable call
\* count exactly the threads inside the wait loops, asleep or just woken, so
\* the fast path never skips a needed signal.
WaiterCounts ==
  /\ waiters_send = Cardinality(WaitingSenders)
  /\ waiters_recv = Cardinality(WaitingReceivers)
  /\ not_full \subseteq WaitingSenders
  /\ not_empty \subseteq WaitingReceivers

\* No wakeup is lost.  While a receiver sleeps, every queued message has a
\* woken receiver on its way to it; while a sender sleeps, every free slot has
\* a woken sender on its way; nobody sleeps on a closed channel.
NoLostWakeup ==
  /\ not_empty # {} => Len(queue) <= Cardinality(WaitingReceivers \ not_empty)
  /\ not_full # {} => cap - Len(queue) <= Cardinality(WaitingSenders \ not_full)
  /\ closed => not_empty = {} /\ not_full = {}

\* A bounded channel never holds more than cap messages, however many senders
\* a signal, a close or the platform wakes at once.
CapacityRespected == cap >= 0 => Len(queue) <= cap

\* Every payload has one owner: a message is in the queue, once, exactly when
\* it was accepted and not yet taken; it is in a thread's hands exactly while
\* that thread sends it; after karkain_channel_destroy none is left behind.
PayloadOwnership ==
  /\ \A m \in Msgs : fate[m] = "queued" <=> \E i \in 1..Len(queue) : queue[i] = m
  /\ \A i, j \in 1..Len(queue) : queue[i] = queue[j] => i = j
  /\ \A m \in Msgs : fate[m] = "offered" <=> \E t \in Threads : op[t] = "send" /\ msg[t] = m
  /\ \A t, u \in Threads : op[t] = "send" /\ op[u] = "send" /\ msg[t] = msg[u] => t = u
  /\ destroyed => \A m \in Msgs : fate[m] \notin {"queued", "offered"}

\* The channel implements the FIFO queue of FifoChannel: each call takes
\* effect once, in order, between its call and its return, and blocked calls
\* make the progress FifoChannel promises.  (The waiting of
\* karkain_channel_send and karkain_channel_recv is invisible there.)
Fifo == INSTANCE FifoChannel WITH
          Threads <- Threads, Msgs <- Msgs, NoMsg <- NoMsg, cap <- cap, queue <- queue,
          closed <- closed, op <- op, msg <- msg, fate <- fate, destroyed <- destroyed
FifoSafety == Fifo!Safety
FifoSpec == Fifo!Spec

=============================================================================
