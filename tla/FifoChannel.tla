---------------------------- MODULE FifoChannel ----------------------------
(***************************************************************************)
(* What a channel of the C concurrency runtime promises its callers,       *)
(* without the lock, the condition variables and the waiter counters of    *)
(* karkain_channel.c: a FIFO queue with an optional capacity, on which     *)
(* each operation takes effect in one step between its call and its        *)
(* return.  KarkainChannel implements this module.                         *)
(***************************************************************************)
EXTENDS Integers, Sequences

CONSTANTS Threads, Msgs, NoMsg

VARIABLES
  cap,      \* capacity; negative when unbounded
  queue,    \* accepted messages, oldest first
  closed,
  op,       \* the call a thread is in: "idle", "send" or "recv"
  msg,      \* the message a sending thread offers
  fate,     \* who owns each message now
  destroyed \* the scheduler has torn the channel down

vars == <<cap, queue, closed, op, msg, fate, destroyed>>

Full == cap >= 0 /\ Len(queue) >= cap

Init ==
  /\ cap \in Int
  /\ queue = <<>>
  /\ closed = FALSE
  /\ op = [t \in Threads |-> "idle"]
  /\ msg = [t \in Threads |-> NoMsg]
  /\ fate = [m \in Msgs |-> "fresh"]
  /\ destroyed = FALSE

Return(t) ==
  /\ op' = [op EXCEPT ![t] = "idle"]
  /\ msg' = [msg EXCEPT ![t] = NoMsg]

CallSend(t, m) ==
  /\ ~destroyed /\ op[t] = "idle" /\ fate[m] = "fresh"
  /\ op' = [op EXCEPT ![t] = "send"]
  /\ msg' = [msg EXCEPT ![t] = m]
  /\ fate' = [fate EXCEPT ![m] = "offered"]
  /\ UNCHANGED <<cap, queue, closed, destroyed>>

CallRecv(t) ==
  /\ ~destroyed /\ op[t] = "idle"
  /\ op' = [op EXCEPT ![t] = "recv"]
  /\ UNCHANGED <<cap, queue, closed, msg, fate, destroyed>>

Accept(t) ==
  /\ op[t] = "send" /\ ~closed /\ ~Full
  /\ queue' = Append(queue, msg[t])
  /\ fate' = [fate EXCEPT ![msg[t]] = "queued"]
  /\ Return(t)
  /\ UNCHANGED <<cap, closed, destroyed>>

\* A send fails when the channel is closed, and the payload is released;
\* a send that finds no memory fails too, and its payload is nobody's.
Refuse(t) ==
  /\ op[t] = "send"
  /\ \/ closed /\ fate' = [fate EXCEPT ![msg[t]] = "released"]
     \/ fate' = [fate EXCEPT ![msg[t]] = "leaked"]
  /\ Return(t)
  /\ UNCHANGED <<cap, queue, closed, destroyed>>

TakeHead ==
  /\ queue # <<>>
  /\ queue' = Tail(queue)
  /\ fate' = [fate EXCEPT ![Head(queue)] = "received"]

Take(t) ==
  /\ op[t] = "recv" /\ TakeHead /\ Return(t)
  /\ UNCHANGED <<cap, closed, destroyed>>

\* A blocking receive returns empty-handed only from a closed, empty channel.
TakeNothing(t) ==
  /\ op[t] = "recv" /\ closed /\ queue = <<>>
  /\ Return(t)
  /\ UNCHANGED <<cap, queue, closed, fate, destroyed>>

TryTake(t) ==
  /\ ~destroyed /\ op[t] = "idle" /\ TakeHead
  /\ UNCHANGED <<cap, closed, op, msg, destroyed>>

Close(t) ==
  /\ ~destroyed /\ op[t] = "idle" /\ ~closed
  /\ closed' = TRUE
  /\ UNCHANGED <<cap, queue, op, msg, fate, destroyed>>

Destroy ==
  /\ ~destroyed /\ \A t \in Threads : op[t] = "idle"
  /\ destroyed' = TRUE
  /\ queue' = <<>>
  /\ fate' = [m \in Msgs |-> IF fate[m] = "queued" THEN "released" ELSE fate[m]]
  /\ UNCHANGED <<cap, closed, op, msg>>

Next ==
  \/ \E t \in Threads, m \in Msgs : CallSend(t, m)
  \/ \E t \in Threads :
       \/ CallRecv(t) \/ Accept(t) \/ Refuse(t) \/ Take(t)
       \/ TakeNothing(t) \/ TryTake(t) \/ Close(t)
  \/ Destroy

Safety == Init /\ [][Next]_vars

\* The progress a caller may count on: with room, some waiting sender gets
\* through; with a message, some waiting receiver gets it; and after a close
\* every blocked call returns.
Progress ==
  /\ WF_vars(\E t \in Threads : Accept(t))
  /\ WF_vars(\E t \in Threads : Take(t))
  /\ \A t \in Threads : WF_vars(closed /\ Refuse(t)) /\ WF_vars(TakeNothing(t))

Spec == Safety /\ Progress
=============================================================================
