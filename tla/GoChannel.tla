----------------------------- MODULE GoChannel ------------------------------
(***************************************************************************)
(* Channel and Select of pkg/runtime/coroutine.go: a wrapper with its own  *)
(* closed flag around a Go channel, used by several goroutines at once.    *)
(*                                                                         *)
(* Each goroutine is in at most one call.  Send tests the flag, releases   *)
(* the lock and only then uses the Go channel, so the two are separate     *)
(* steps; a send that reaches a closed Go channel panics.  The Go channel  *)
(* itself (buffer, rendezvous, close) is external.                         *)
(***************************************************************************)
EXTENDS Integers, Sequences, FiniteSets, Functions

CONSTANTS
  Procs, Values, NoValue,
  Sizes,              \* arguments of NewChannel; 0 or less: synchronous
  Ops                 \* the calls the program makes

ASSUME GoChannelAssumption ==
  /\ Sizes \subseteq Int /\ NoValue \notin Values
  /\ Ops \subseteq {"Send", "SendNonBlocking", "Receive", "ReceiveNonBlocking", "Select", "Close"}
  /\ IsFiniteSet(Procs) /\ IsFiniteSet(Values)

VARIABLES
  bufferSize, closed, \* ch.bufferSize, ch.closed
  buffer, bufClosed,  \* the Go channel
  pc, val,            \* each goroutine's position, and the value it sends
  fate,               \* "fresh", "offered", "accepted" or "refused", for each value
  order, got,         \* (history) values in the order accepted, and received
  panicked            \* goroutines that sent on a closed Go channel

chan == <<bufferSize, closed, buffer, bufClosed>>
history == <<order, got>>
chanVars == <<chan, pc, val, fate, history, panicked>>

\* NewChannel
ChanInit ==
  /\ bufferSize \in {IF n < 0 THEN 0 ELSE n : n \in Sizes}
  /\ closed = FALSE /\ buffer = <<>> /\ bufClosed = FALSE
  /\ pc = [p \in Procs |-> "idle"] /\ val = [p \in Procs |-> NoValue]
  /\ fate = [v \in Values |-> "fresh"]
  /\ order = <<>> /\ got = <<>> /\ panicked = {}

At(p, S) == pc[p] \in S
Goto(p, l) == pc' = [pc EXCEPT ![p] = l]

-----------------------------------------------------------------------------
(* The Go channel.                                                         *)

\* p's value enters the channel, through the buffer or, when there is none,
\* straight to a goroutine that waits in a receive.
GoSend(p) ==
  /\ ~bufClosed
  /\ order' = Append(order, val[p])
  /\ fate' = [fate EXCEPT ![val[p]] = "accepted"]
  /\ val' = [val EXCEPT ![p] = NoValue]
  /\ \/ /\ Len(buffer) < bufferSize
        /\ buffer' = Append(buffer, val[p])
        /\ Goto(p, "idle")
        /\ UNCHANGED got
     \/ /\ bufferSize = 0
        /\ \E r \in {q \in Procs : At(q, {"receive", "receive_timed"})} :
             pc' = [pc EXCEPT ![p] = "idle", ![r] = "idle"]
        /\ got' = Append(got, val[p])
        /\ UNCHANGED buffer
  /\ UNCHANGED <<bufferSize, closed, bufClosed, panicked>>

GoPanic(p) ==
  /\ bufClosed
  /\ panicked' = panicked \cup {p}
  /\ Goto(p, "dead")
  /\ UNCHANGED <<chan, val, fate, history>>

\* A call returns without transferring anything.
ReturnFalse(p) ==
  /\ Goto(p, "idle")
  /\ fate' = IF val[p] = NoValue THEN fate ELSE [fate EXCEPT ![val[p]] = "refused"]
  /\ val' = [val EXCEPT ![p] = NoValue]
  /\ UNCHANGED <<chan, history, panicked>>

\* p receives the head of the buffer, or from a goroutine blocked in a send.
\* The value p itself offered (in Select) is not sent.
GoReceive(p) ==
  /\ \/ /\ buffer # <<>>
        /\ got' = Append(got, Head(buffer))
        /\ buffer' = Tail(buffer)
        /\ Goto(p, "idle")
        /\ fate' = IF val[p] = NoValue THEN fate ELSE [fate EXCEPT ![val[p]] = "refused"]
        /\ val' = [val EXCEPT ![p] = NoValue]
        /\ UNCHANGED order
     \/ /\ bufferSize = 0 /\ ~bufClosed
        /\ \E s \in {q \in Procs \ {p} : At(q, {"send", "send_timed"})} :
             /\ order' = Append(order, val[s]) /\ got' = Append(got, val[s])
             /\ pc' = [pc EXCEPT ![p] = "idle", ![s] = "idle"]
             /\ fate' = [v \in Values |-> IF v = val[s] THEN "accepted"
                                          ELSE IF v = val[p] THEN "refused" ELSE fate[v]]
             /\ val' = [val EXCEPT ![p] = NoValue, ![s] = NoValue]
        /\ UNCHANGED buffer
  /\ UNCHANGED <<bufferSize, closed, bufClosed, panicked>>

-----------------------------------------------------------------------------
(* A goroutine calls an operation; a value is offered once.                *)
CallSending(p, op, first) ==
  /\ op \in Ops /\ At(p, {"idle"})
  /\ \E v \in Values : /\ fate[v] = "fresh"
                       /\ fate' = [fate EXCEPT ![v] = "offered"]
                       /\ val' = [val EXCEPT ![p] = v]
  /\ Goto(p, first)
  /\ UNCHANGED <<chan, history, panicked>>

CallOther(p, op, first) ==
  /\ op \in Ops /\ At(p, {"idle"})
  /\ Goto(p, first)
  /\ UNCHANGED <<chan, val, fate, history, panicked>>

Call(p) ==
  \/ \E l \in {"send?", "send_timed?"} : CallSending(p, "Send", l)
  \/ CallSending(p, "SendNonBlocking", "try?")
  \/ CallSending(p, "Select", "select?")
  \/ \E l \in {"receive", "receive_timed"} : CallOther(p, "Receive", l)
  \/ CallOther(p, "ReceiveNonBlocking", "poll")
  \/ CallOther(p, "Close", "close")

(* Send and SendNonBlocking: the closed flag first.                        *)
SendCheck(p) ==
  \E l \in {<<"send?", "send">>, <<"send_timed?", "send_timed">>, <<"try?", "try">>} :
    /\ At(p, {l[1]})
    /\ \/ closed /\ ReturnFalse(p)
       \/ ~closed /\ Goto(p, l[2]) /\ UNCHANGED <<chan, val, fate, history, panicked>>

\* Mutant: the timer fires, and the value stays in the buffer.
Send_TimeoutKeeps(p) ==
  /\ At(p, {"send", "send_timed"})
  /\ \/ GoSend(p) \/ GoPanic(p)
     \/ /\ At(p, {"send_timed"}) /\ ~bufClosed /\ Len(buffer) < bufferSize
        /\ buffer' = Append(buffer, val[p]) /\ order' = Append(order, val[p])
        /\ fate' = [fate EXCEPT ![val[p]] = "refused"]
        /\ val' = [val EXCEPT ![p] = NoValue] /\ Goto(p, "idle")
        /\ UNCHANGED <<bufferSize, closed, bufClosed, got, panicked>>

Send(p) ==
  /\ At(p, {"send", "send_timed"})
  /\ \/ GoSend(p) \/ GoPanic(p)
     \/ At(p, {"send_timed"}) /\ ReturnFalse(p)

\* The default branch: no room, or no receiver is waiting yet.
SendNonBlocking(p) ==
  /\ At(p, {"try"})
  /\ \/ GoSend(p) \/ GoPanic(p)
     \/ ~bufClosed /\ Len(buffer) >= bufferSize /\ ReturnFalse(p)

\* Mutant: a timed receive reads the head and then gives up.
Receive_LateTimeout(p) ==
  /\ At(p, {"receive", "receive_timed"})
  /\ \/ GoReceive(p)
     \/ /\ At(p, {"receive_timed"}) /\ buffer # <<>>
        /\ buffer' = Tail(buffer) /\ Goto(p, "idle")
        /\ UNCHANGED <<bufferSize, closed, bufClosed, val, fate, history, panicked>>
     \/ bufClosed /\ buffer = <<>> /\ ReturnFalse(p)
     \/ At(p, {"receive_timed"}) /\ ReturnFalse(p)

Receive(p) ==
  /\ At(p, {"receive", "receive_timed"})
  /\ \/ GoReceive(p)
     \/ bufClosed /\ buffer = <<>> /\ ReturnFalse(p)
     \/ At(p, {"receive_timed"}) /\ ReturnFalse(p)

ReceiveNonBlocking(p) ==
  /\ At(p, {"poll"})
  /\ GoReceive(p) \/ (buffer = <<>> /\ ReturnFalse(p))

\* Close, under ch.mu: the flag, then the Go channel.
CloseFlag(p) ==
  /\ At(p, {"close"})
  /\ \/ /\ ~closed /\ closed' = TRUE
        /\ Goto(p, "close_buffer")
        /\ UNCHANGED <<bufferSize, buffer, bufClosed, val, fate, history, panicked>>
     \/ /\ closed
        /\ Goto(p, "idle")
        /\ UNCHANGED <<chan, val, fate, history, panicked>>

CloseBuffer(p) ==
  /\ At(p, {"close_buffer"})
  /\ bufClosed' = TRUE
  /\ Goto(p, "idle")
  /\ UNCHANGED <<bufferSize, closed, buffer, val, fate, history, panicked>>

(* Select over a send case and a receive case: the cases are polled in     *)
(* order, each as a non-blocking call, until one fires, the timeout has    *)
(* passed or there is a default.                                           *)
SelectSendCheck(p) ==
  /\ At(p, {"select?"})
  /\ Goto(p, IF closed THEN "select_recv" ELSE "select_send")
  /\ UNCHANGED <<chan, val, fate, history, panicked>>

SelectSend(p) ==
  /\ At(p, {"select_send"})
  /\ \/ GoSend(p) \/ GoPanic(p)
     \/ /\ ~bufClosed /\ Len(buffer) >= bufferSize
        /\ Goto(p, "select_recv")
        /\ UNCHANGED <<chan, val, fate, history, panicked>>

SelectReceive(p) ==
  /\ At(p, {"select_recv"})
  /\ \/ GoReceive(p)
     \/ /\ buffer = <<>>
        /\ Goto(p, "select_end")
        /\ UNCHANGED <<chan, val, fate, history, panicked>>

SelectEnd(p) ==
  /\ At(p, {"select_end"})
  /\ \/ ReturnFalse(p)
     \/ Goto(p, "select?") /\ UNCHANGED <<chan, val, fate, history, panicked>>

-----------------------------------------------------------------------------
Step(p) ==
  \/ SendCheck(p) \/ Send(p) \/ SendNonBlocking(p) \/ Receive(p) \/ ReceiveNonBlocking(p)
  \/ CloseFlag(p) \/ CloseBuffer(p)
  \/ SelectSendCheck(p) \/ SelectSend(p) \/ SelectReceive(p) \/ SelectEnd(p)

ChanNext == \E p \in Procs : Call(p) \/ Step(p)

ChanSpec == ChanInit /\ [][ChanNext]_chanVars

\* Go schedules every goroutine that can run, and wakes blocked ones in turn.
ChanFair == \A p \in Procs : WF_chanVars(Step(p))

ChanFairSpec == ChanSpec /\ ChanFair

-----------------------------------------------------------------------------
\* Values come out exactly once and in the order they went in: what was
\* received and what is in the buffer is what was accepted.
FifoExact == got \o buffer = order /\ IsInjective(order)

\* A send's answer is right: a value is in the channel's history exactly if
\* its Send, SendNonBlocking or Select case reported it sent, also when the
\* timeout and a receiver race.
AnswerTruthful == \A v \in Values : v \in Range(order) <=> fate[v] = "accepted"

\* "Returns false if the channel is closed" (Send), "Subsequent sends return
\* false" (Close): no send panics.
SendsReturn == panicked = {}
=============================================================================
