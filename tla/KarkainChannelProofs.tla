------------------------ MODULE KarkainChannelProofs ------------------------
(***************************************************************************)
(* Proofs about KarkainChannel, for any finite set of threads, any         *)
(* messages and any capacity: its type invariant, the waiter accounting,   *)
(* that no wakeup is lost, that the capacity holds, that every payload has *)
(* one owner, and that the channel implements FifoChannel's safety part.   *)
(***************************************************************************)
EXTENDS KarkainChannel, FiniteSetTheorems, TLAPS

\* A thread's call, its position in it and the message in its hands agree.
CallShape ==
  \A t \in Threads :
    /\ op[t] = "idle" <=> phase[t] = "out"
    /\ op[t] = "send" => msg[t] \in Msgs
    /\ op[t] # "send" => msg[t] = NoMsg

\* The inductive invariant behind the waiter accounting.
WInv == TypeOK /\ CallShape /\ WaiterCounts

\* The waiting threads are finite sets, so their cardinalities are naturals.
LEMMA WaitingFinite ==
  /\ IsFiniteSet(WaitingSenders) /\ IsFiniteSet(WaitingReceivers)
  /\ Cardinality(WaitingSenders) \in Nat /\ Cardinality(WaitingReceivers) \in Nat
<1>1. WaitingSenders \in SUBSET Threads /\ WaitingReceivers \in SUBSET Threads
  BY DEF WaitingSenders, WaitingReceivers
<1>2. IsFiniteSet(WaitingSenders) /\ IsFiniteSet(WaitingReceivers)
  BY <1>1, ChannelAssumption, FS_Subset
<1> QED
  BY <1>2, FS_CardinalityType

\* A thread that starts to wait, or stops waiting, changes a count by one.
LEMMA LeaveOrEnter ==
  ASSUME NEW S, IsFiniteSet(S), NEW t
  PROVE  /\ t \in S => /\ Cardinality(S \ {t}) = Cardinality(S) - 1
                       /\ Cardinality(S \cup {t}) = Cardinality(S)
                       /\ Cardinality(S) - 1 \in Nat
         /\ t \notin S => /\ Cardinality(S \ {t}) = Cardinality(S)
                          /\ Cardinality(S \cup {t}) = Cardinality(S) + 1
<1>1. Cardinality(S) \in Nat /\ Cardinality(S \ {t}) \in Nat
  BY FS_CardinalityType, FS_RemoveElement
<1> QED
  BY <1>1, FS_AddElement, FS_RemoveElement

\* What karkain_cond_signal does to a wait set.
LEMMA SignalFact ==
  ASSUME NEW W, NEW n, NEW V \in Signal(W, n)
  PROVE  /\ V \subseteq W
         /\ V = W \/ \E t \in W : V = W \ {t}
         /\ n > 0 /\ W # {} => \E t \in W : V = W \ {t}
BY DEF Signal

\* A new channel satisfies the inductive invariant.
LEMMA WInvInit == Init => WInv
<1> SUFFICES ASSUME Init PROVE WInv
  OBVIOUS
<1>0. queue \in Seq(Msgs)
  BY DEF Init
<1>1. TypeOK /\ CallShape
  <2>1. op \in [Threads -> {"idle", "send", "recv"}] /\ phase \in [Threads -> {"out", "enter", "wait"}]
    BY DEF Init
  <2>2. msg \in [Threads -> Msgs \cup {NoMsg}] /\ fate \in [Msgs -> Fates]
    BY DEF Init, Fates
  <2>3. CallShape
    BY DEF Init, CallShape
  <2> QED BY <1>0, <2>1, <2>2, <2>3 DEF Init, TypeOK
<1>2. WaitingSenders = {} /\ WaitingReceivers = {}
  BY DEF Init, WaitingSenders, WaitingReceivers
<1>3. WaiterCounts
  BY <1>2, FS_EmptySet DEF Init, WaiterCounts
<1> QED
  BY <1>1, <1>3 DEF WInv

\* Every stretch of a channel operation between lock and unlock keeps it.
LEMMA WInvStep == WInv /\ [Next]_vars => WInv'
<1> SUFFICES ASSUME WInv, [Next]_vars PROVE WInv'
  OBVIOUS
<1> USE ChannelAssumption DEF WInv
<1>0. /\ IsFiniteSet(WaitingSenders) /\ IsFiniteSet(WaitingReceivers)
      /\ Cardinality(WaitingSenders) \in Nat /\ Cardinality(WaitingReceivers) \in Nat
  BY WaitingFinite
<1>1. ASSUME NEW t \in Threads, NEW m \in Msgs, CallSend(t, m) PROVE WInv'
  <2>1. TypeOK' /\ CallShape'
    BY <1>1 DEF CallSend, Call, TypeOK, CallShape, Fates
  <2>2. WaitingSenders' = WaitingSenders /\ WaitingReceivers' = WaitingReceivers
    BY <1>1 DEF CallSend, Call, TypeOK, CallShape, WaitingSenders, WaitingReceivers
  <2> QED BY <1>1, <2>1, <2>2 DEF CallSend, WaiterCounts
<1>2. ASSUME NEW t \in Threads, CallRecv(t) PROVE WInv'
  <2>1. TypeOK' /\ CallShape'
    BY <1>2 DEF CallRecv, Call, TypeOK, CallShape
  <2>2. WaitingSenders' = WaitingSenders /\ WaitingReceivers' = WaitingReceivers
    BY <1>2 DEF CallRecv, Call, TypeOK, CallShape, WaitingSenders, WaitingReceivers
  <2> QED BY <1>2, <2>1, <2>2 DEF CallRecv, WaiterCounts
<1>3. ASSUME NEW t \in Threads, SendNoMemory(t) PROVE WInv'
  <2>1. TypeOK' /\ CallShape'
    BY <1>3 DEF SendNoMemory, Return, TypeOK, CallShape, Fates
  <2>2. WaitingSenders' = WaitingSenders /\ WaitingReceivers' = WaitingReceivers
    BY <1>3 DEF SendNoMemory, Return, TypeOK, WaitingSenders, WaitingReceivers
  <2> QED BY <1>3, <2>1, <2>2 DEF SendNoMemory, WaiterCounts
<1>4. ASSUME NEW t \in Threads, SendStep(t) PROVE WInv'
  <2>0. /\ op[t] = "send" /\ phase[t] \in {"enter", "wait"} /\ t \notin not_full
        /\ UNCHANGED <<cap, closed, destroyed, waiters_recv>>
        /\ t \in WaitingSenders <=> phase[t] = "wait"
    BY <1>4 DEF SendStep, WaitingSenders, TypeOK
  <2>1. /\ Cardinality(WaitingSenders \ {t}) = waiters_send - InLoop(t)
        /\ Cardinality(WaitingSenders \cup {t}) = waiters_send - InLoop(t) + 1
        /\ waiters_send - InLoop(t) \in Nat
    <3>1. CASE phase[t] = "wait"
      BY <2>0, <3>1, <1>0, LeaveOrEnter DEF WaiterCounts, InLoop
    <3>2. CASE phase[t] # "wait"
      BY <2>0, <3>2, <1>0, LeaveOrEnter DEF WaiterCounts, InLoop
    <3> QED BY <3>1, <3>2
  <2>2. CASE SendReject(t) /\ waiters_send' = waiters_send - InLoop(t) /\ UNCHANGED not_full
    <3>1. WaitingSenders' = WaitingSenders \ {t} /\ WaitingReceivers' = WaitingReceivers
      BY <2>0, <2>2 DEF SendReject, Return, TypeOK, WaitingSenders, WaitingReceivers
    <3>2. TypeOK' /\ CallShape'
      BY <2>0, <2>1, <2>2 DEF SendReject, Return, TypeOK, CallShape, Fates
    <3> QED BY <2>0, <2>1, <2>2, <3>1, <3>2 DEF SendReject, WaiterCounts
  <2>3. CASE channel_append(t) /\ waiters_send' = waiters_send - InLoop(t) /\ UNCHANGED not_full
    <3>1. WaitingSenders' = WaitingSenders \ {t} /\ WaitingReceivers' = WaitingReceivers
      BY <2>0, <2>3 DEF channel_append, Return, TypeOK, WaitingSenders, WaitingReceivers
    <3>2. not_empty' \subseteq not_empty
      BY <2>3, SignalFact DEF channel_append
    <3>3. TypeOK' /\ CallShape'
      BY <2>0, <2>1, <2>3, <3>2 DEF channel_append, Return, TypeOK, CallShape, Fates
    <3> QED BY <2>0, <2>1, <2>3, <3>1, <3>2, <3>3 DEF WaiterCounts
  <2>4. CASE /\ waiters_send' = waiters_send - InLoop(t) + 1
             /\ not_full' = not_full \cup {t}
             /\ phase' = [phase EXCEPT ![t] = "wait"]
             /\ UNCHANGED <<queue, op, msg, fate, not_empty>>
    <3>1. WaitingSenders' = WaitingSenders \cup {t} /\ WaitingReceivers' = WaitingReceivers
      BY <2>0, <2>4 DEF TypeOK, WaitingSenders, WaitingReceivers
    <3>2. TypeOK' /\ CallShape'
      BY <2>0, <2>1, <2>4 DEF TypeOK, CallShape
    <3> QED BY <2>0, <2>1, <2>4, <3>1, <3>2 DEF WaiterCounts
  <2> QED BY <1>4, <2>2, <2>3, <2>4 DEF SendStep
<1>6. ASSUME NEW t \in Threads, RecvStep(t) PROVE WInv'
  <2>0. /\ op[t] = "recv" /\ phase[t] \in {"enter", "wait"} /\ t \notin not_empty
        /\ UNCHANGED <<cap, closed, destroyed, waiters_send>>
        /\ t \in WaitingReceivers <=> phase[t] = "wait"
    BY <1>6 DEF RecvStep, WaitingReceivers, TypeOK
  <2>1. /\ Cardinality(WaitingReceivers \ {t}) = waiters_recv - InLoop(t)
        /\ Cardinality(WaitingReceivers \cup {t}) = waiters_recv - InLoop(t) + 1
        /\ waiters_recv - InLoop(t) \in Nat
    <3>1. CASE phase[t] = "wait"
      BY <2>0, <3>1, <1>0, LeaveOrEnter DEF WaiterCounts, InLoop
    <3>2. CASE phase[t] # "wait"
      BY <2>0, <3>2, <1>0, LeaveOrEnter DEF WaiterCounts, InLoop
    <3> QED BY <3>1, <3>2
  <2>2. CASE /\ channel_pop \/ (queue = <<>> /\ closed /\ UNCHANGED <<queue, fate, not_full>>)
             /\ Return(t) /\ waiters_recv' = waiters_recv - InLoop(t) /\ UNCHANGED not_empty
    <3>1. WaitingReceivers' = WaitingReceivers \ {t} /\ WaitingSenders' = WaitingSenders
      BY <2>0, <2>2 DEF Return, TypeOK, WaitingSenders, WaitingReceivers
    <3>2. not_full' \subseteq not_full
      BY <2>2, SignalFact DEF channel_pop
    <3>3. queue' \in Seq(Msgs) /\ fate' \in [Msgs -> Fates]
      <4>1. CASE channel_pop
        BY <4>1 DEF channel_pop, TypeOK, Fates
      <4>2. CASE UNCHANGED <<queue, fate>>
        BY <4>2 DEF TypeOK
      <4> QED BY <2>2, <4>1, <4>2
    <3>4. waiters_recv' \in Nat /\ not_empty' = not_empty /\ CallShape'
      BY <2>0, <2>1, <2>2 DEF Return, TypeOK, CallShape
    <3>5. TypeOK'
      <4>1. /\ op' \in [Threads -> {"idle", "send", "recv"}]
            /\ msg' \in [Threads -> Msgs \cup {NoMsg}]
            /\ phase' \in [Threads -> {"out", "enter", "wait"}]
        BY <2>2 DEF Return, TypeOK
      <4> QED BY <2>0, <3>2, <3>3, <3>4, <4>1 DEF TypeOK
    <3> QED BY <2>0, <2>1, <2>2, <3>1, <3>2, <3>4, <3>5 DEF WaiterCounts
  <2>3. CASE /\ waiters_recv' = waiters_recv - InLoop(t) + 1
             /\ not_empty' = not_empty \cup {t}
             /\ phase' = [phase EXCEPT ![t] = "wait"]
             /\ UNCHANGED <<queue, op, msg, fate, not_full>>
    <3>1. WaitingReceivers' = WaitingReceivers \cup {t} /\ WaitingSenders' = WaitingSenders
      BY <2>0, <2>3 DEF TypeOK, WaitingSenders, WaitingReceivers
    <3>2. TypeOK' /\ CallShape'
      BY <2>0, <2>1, <2>3 DEF TypeOK, CallShape
    <3> QED BY <2>0, <2>1, <2>3, <3>1, <3>2 DEF WaiterCounts
  <2> QED BY <1>6, <2>2, <2>3 DEF RecvStep
<1>8. ASSUME NEW t \in Threads, TryRecv(t) PROVE WInv'
  <2>1. not_full' \subseteq not_full
    BY <1>8, SignalFact DEF TryRecv, channel_pop
  <2>2. TypeOK' /\ CallShape'
    BY <1>8, <2>1 DEF TryRecv, channel_pop, TypeOK, CallShape, Fates
  <2>3. WaitingSenders' = WaitingSenders /\ WaitingReceivers' = WaitingReceivers
    BY <1>8 DEF TryRecv, WaitingSenders, WaitingReceivers
  <2> QED BY <1>8, <2>1, <2>2, <2>3 DEF TryRecv, WaiterCounts
<1>9. ASSUME NEW t \in Threads, Close(t) PROVE WInv'
  <2>1. TypeOK' /\ CallShape'
    BY <1>9 DEF Close, TypeOK, CallShape
  <2>2. WaitingSenders' = WaitingSenders /\ WaitingReceivers' = WaitingReceivers
    BY <1>9 DEF Close, WaitingSenders, WaitingReceivers
  <2> QED BY <1>9, <2>1, <2>2 DEF Close, WaiterCounts
<1>10. ASSUME NEW t \in Threads, SpuriousWakeup(t) PROVE WInv'
  <2>1. TypeOK' /\ CallShape'
    BY <1>10 DEF SpuriousWakeup, absVars, TypeOK, CallShape
  <2>2. WaitingSenders' = WaitingSenders /\ WaitingReceivers' = WaitingReceivers
    BY <1>10 DEF SpuriousWakeup, absVars, WaitingSenders, WaitingReceivers
  <2> QED BY <1>10, <2>1, <2>2 DEF SpuriousWakeup, WaiterCounts
<1>11. CASE Destroy
  <2>1. TypeOK' /\ CallShape'
    BY <1>11 DEF Destroy, TypeOK, CallShape, Fates
  <2>2. WaitingSenders' = WaitingSenders /\ WaitingReceivers' = WaitingReceivers
    BY <1>11 DEF Destroy, WaitingSenders, WaitingReceivers
  <2> QED BY <1>11, <2>1, <2>2 DEF Destroy, WaiterCounts
<1>12. CASE UNCHANGED vars
  BY <1>12 DEF vars, absVars, TypeOK, CallShape, WaiterCounts, WaitingSenders, WaitingReceivers
<1> QED
  BY <1>1, <1>2, <1>3, <1>4, <1>6, <1>8, <1>9, <1>10, <1>11, <1>12 DEF Next, Step

\* So it holds throughout.
LEMMA WInvAlways == Spec => []WInv
BY WInvInit, WInvStep, PTL DEF Spec

\* The fields keep their types, and no waiter counter of karkain_channel_send
\* or karkain_channel_recv ever goes negative.
THEOREM ChannelTypeOK == Spec => []TypeOK
BY WInvAlways, PTL DEF WInv

\* waiters_send and waiters_recv count exactly the threads inside the two
\* wait loops, so testing them before a signal is sound.
THEOREM ChannelWaiterCounts == Spec => []WaiterCounts
BY WInvAlways, PTL DEF WInv

-----------------------------------------------------------------------------
(* No lost wakeup                                                          *)

\* The number of woken waiters W \ N grows by one when a sleeper is woken, and
\* shrinks by one when a woken waiter leaves the loop.
LEMMA WokenCount ==
  ASSUME NEW W, IsFiniteSet(W), NEW N \in SUBSET W, NEW t
  PROVE  /\ Cardinality(W \ N) \in Nat
         /\ t \in N => Cardinality(W \ (N \ {t})) = Cardinality(W \ N) + 1
         /\ t \in W \ N => Cardinality((W \ {t}) \ N) = Cardinality(W \ N) - 1
<1>1. IsFiniteSet(W \ N)
  BY FS_Subset, (W \ N) \in SUBSET W
<1>2. Cardinality(W \ N) \in Nat
  BY <1>1, FS_CardinalityType
<1>3. ASSUME t \in N PROVE Cardinality(W \ (N \ {t})) = Cardinality(W \ N) + 1
  <2>1. W \ (N \ {t}) = (W \ N) \cup {t} /\ t \notin W \ N
    BY <1>3
  <2> QED BY <1>1, <2>1, FS_AddElement
<1>4. ASSUME t \in W \ N PROVE Cardinality((W \ {t}) \ N) = Cardinality(W \ N) - 1
  <2>1. (W \ {t}) \ N = (W \ N) \ {t}
    OBVIOUS
  <2> QED BY <1>1, <1>4, <2>1, FS_RemoveElement
<1> QED BY <1>2, <1>3, <1>4

\* A counted waiter exists whenever somebody sleeps.
LEMMA SleeperCounted ==
  ASSUME WInv
  PROVE  /\ not_empty # {} => waiters_recv > 0
         /\ not_full # {} => waiters_send > 0
<1>1. /\ not_empty # {} => Cardinality(WaitingReceivers) # 0
      /\ not_full # {} => Cardinality(WaitingSenders) # 0
  BY WaitingFinite, FS_EmptySet DEF WInv, WaiterCounts
<1> QED BY <1>1, WaitingFinite DEF WInv, WaiterCounts

\* What an append does to both halves of the accounting.
LEMMA AppendWakes ==
  ASSUME WInv, NoLostWakeup, ~closed, UNCHANGED <<cap, closed, not_full>>,
         NEW t \in Threads, channel_append(t), op[t] = "send",
         WaitingReceivers' = WaitingReceivers,
         \/ WaitingSenders' = WaitingSenders
         \/ t \in WaitingSenders \ not_full /\ WaitingSenders' = WaitingSenders \ {t}
  PROVE  NoLostWakeup'
<1> USE ChannelAssumption DEF WInv
<1>1. /\ Len(queue) \in Nat /\ Len(queue') = Len(queue) + 1 /\ cap \in Int
  BY DEF channel_append, TypeOK, CallShape
<1>2. /\ IsFiniteSet(WaitingSenders) /\ IsFiniteSet(WaitingReceivers)
      /\ not_full \in SUBSET WaitingSenders /\ not_empty \in SUBSET WaitingReceivers
      /\ Cardinality(WaitingSenders \ not_full) \in Nat
      /\ Cardinality(WaitingReceivers \ not_empty) \in Nat
  BY WaitingFinite, WokenCount DEF WaiterCounts
<1>3. ASSUME not_empty' # {} PROVE Len(queue') <= Cardinality(WaitingReceivers' \ not_empty')
  <2>1. PICK r \in not_empty : not_empty' = not_empty \ {r}
    BY <1>3, SleeperCounted, SignalFact DEF channel_append
  <2>2. Cardinality(WaitingReceivers \ (not_empty \ {r})) = Cardinality(WaitingReceivers \ not_empty) + 1
    BY <1>2, <2>1, WokenCount
  <2> QED BY <1>1, <1>2, <2>1, <2>2 DEF NoLostWakeup
<1>4. ASSUME not_full' # {} PROVE cap' - Len(queue') <= Cardinality(WaitingSenders' \ not_full')
  <2>1. cap - Len(queue) <= Cardinality(WaitingSenders \ not_full)
    BY <1>4 DEF NoLostWakeup
  <2>2. CASE WaitingSenders' = WaitingSenders
    BY <1>1, <1>2, <2>1, <2>2
  <2>3. CASE t \in WaitingSenders \ not_full /\ WaitingSenders' = WaitingSenders \ {t}
    <3>1. Cardinality((WaitingSenders \ {t}) \ not_full) = Cardinality(WaitingSenders \ not_full) - 1
      BY <1>2, <2>3, WokenCount
    <3> QED BY <1>1, <1>2, <2>1, <2>3, <3>1
  <2> QED BY <2>2, <2>3
<1> QED BY <1>3, <1>4 DEF NoLostWakeup

\* What taking a message does to both halves of the accounting.
LEMMA PopWakes ==
  ASSUME WInv, NoLostWakeup, UNCHANGED <<cap, closed, not_empty>>,
         channel_pop, NEW t,
         WaitingSenders' = WaitingSenders,
         \/ WaitingReceivers' = WaitingReceivers
         \/ t \in WaitingReceivers \ not_empty /\ WaitingReceivers' = WaitingReceivers \ {t}
  PROVE  NoLostWakeup'
<1> USE ChannelAssumption DEF WInv
<1>1. /\ Len(queue) \in Nat /\ Len(queue') = Len(queue) - 1 /\ cap \in Int
  BY DEF channel_pop, TypeOK
<1>2. /\ IsFiniteSet(WaitingSenders) /\ IsFiniteSet(WaitingReceivers)
      /\ not_full \in SUBSET WaitingSenders /\ not_empty \in SUBSET WaitingReceivers
      /\ Cardinality(WaitingSenders \ not_full) \in Nat
      /\ Cardinality(WaitingReceivers \ not_empty) \in Nat
  BY WaitingFinite, WokenCount DEF WaiterCounts
<1>3. ASSUME not_full' # {} PROVE cap' - Len(queue') <= Cardinality(WaitingSenders' \ not_full')
  <2>1. PICK r \in not_full : not_full' = not_full \ {r}
    BY <1>3, SleeperCounted, SignalFact DEF channel_pop
  <2>2. Cardinality(WaitingSenders \ (not_full \ {r})) = Cardinality(WaitingSenders \ not_full) + 1
    BY <1>2, <2>1, WokenCount
  <2> QED BY <1>1, <1>2, <2>1, <2>2 DEF NoLostWakeup
<1>4. ASSUME not_empty' # {} PROVE Len(queue') <= Cardinality(WaitingReceivers' \ not_empty')
  <2>1. Len(queue) <= Cardinality(WaitingReceivers \ not_empty)
    BY <1>4 DEF NoLostWakeup
  <2>2. CASE WaitingReceivers' = WaitingReceivers
    BY <1>1, <1>2, <2>1, <2>2
  <2>3. CASE t \in WaitingReceivers \ not_empty /\ WaitingReceivers' = WaitingReceivers \ {t}
    <3>1. Cardinality((WaitingReceivers \ {t}) \ not_empty) = Cardinality(WaitingReceivers \ not_empty) - 1
      BY <1>2, <2>3, WokenCount
    <3> QED BY <1>1, <1>2, <2>1, <2>3, <3>1
  <2> QED BY <2>2, <2>3
<1>5. closed' => not_empty' = {} /\ not_full' = {}
  BY SignalFact DEF channel_pop, NoLostWakeup
<1> QED BY <1>3, <1>4, <1>5 DEF NoLostWakeup

\* Every such stretch keeps NoLostWakeup: the signal of an append or a pop wakes a
\* sleeper for each unit of work it adds.
LEMMA NoLostWakeupStep == WInv /\ NoLostWakeup /\ [Next]_vars => NoLostWakeup'
<1> SUFFICES ASSUME WInv, NoLostWakeup, [Next]_vars PROVE NoLostWakeup'
  OBVIOUS
<1>0. WInv'
  BY WInvStep
<1> USE ChannelAssumption DEF WInv
<1>a. /\ IsFiniteSet(WaitingSenders) /\ IsFiniteSet(WaitingReceivers)
      /\ not_full \in SUBSET WaitingSenders /\ not_empty \in SUBSET WaitingReceivers
  BY WaitingFinite DEF WaiterCounts
<1>b. /\ Cardinality(WaitingSenders \ not_full) \in Nat
      /\ Cardinality(WaitingReceivers \ not_empty) \in Nat
      /\ Cardinality((WaitingSenders \ not_full)') \in Nat
      /\ Cardinality((WaitingReceivers \ not_empty)') \in Nat
  <2>1. (WaitingSenders \ not_full)' \in SUBSET Threads /\ (WaitingReceivers \ not_empty)' \in SUBSET Threads
    BY DEF WaitingSenders, WaitingReceivers
  <2> QED BY <1>a, <2>1, WokenCount, FS_Subset, FS_CardinalityType
<1>1. ASSUME NEW t \in Threads, NEW m \in Msgs, CallSend(t, m) PROVE NoLostWakeup'
  <2>1. WaitingSenders' = WaitingSenders /\ WaitingReceivers' = WaitingReceivers
    BY <1>1 DEF CallSend, Call, TypeOK, CallShape, WaitingSenders, WaitingReceivers
  <2> QED BY <1>1, <2>1 DEF CallSend, NoLostWakeup
<1>2. ASSUME NEW t \in Threads, CallRecv(t) PROVE NoLostWakeup'
  <2>1. WaitingSenders' = WaitingSenders /\ WaitingReceivers' = WaitingReceivers
    BY <1>2 DEF CallRecv, Call, TypeOK, CallShape, WaitingSenders, WaitingReceivers
  <2> QED BY <1>2, <2>1 DEF CallRecv, NoLostWakeup
<1>3. ASSUME NEW t \in Threads, SendNoMemory(t) PROVE NoLostWakeup'
  <2>1. WaitingSenders' = WaitingSenders /\ WaitingReceivers' = WaitingReceivers
    BY <1>3 DEF SendNoMemory, Return, TypeOK, WaitingSenders, WaitingReceivers
  <2> QED BY <1>3, <2>1 DEF SendNoMemory, NoLostWakeup
<1>4. ASSUME NEW t \in Threads, SendStep(t) PROVE NoLostWakeup'
  <2>0. /\ op[t] = "send" /\ phase[t] \in {"enter", "wait"} /\ t \notin not_full
        /\ UNCHANGED <<cap, closed>>
        /\ t \in WaitingSenders <=> phase[t] = "wait"
    BY <1>4 DEF SendStep, WaitingSenders, TypeOK
  <2>1. CASE closed
    BY <1>4, <2>0, <2>1 DEF SendStep, SendReject, NoLostWakeup
  <2>2. CASE ~closed /\ ~Full
    <3>1. channel_append(t) /\ UNCHANGED not_full
      BY <1>4, <2>2 DEF SendStep
    <3>2. WaitingSenders' = WaitingSenders \ {t} /\ WaitingReceivers' = WaitingReceivers
      BY <2>0, <3>1 DEF channel_append, Return, TypeOK, WaitingSenders, WaitingReceivers
    <3>3. WaitingSenders' = WaitingSenders \/ t \in WaitingSenders \ not_full
      BY <2>0, <3>2
    <3> QED BY <2>0, <2>2, <3>1, <3>2, <3>3, AppendWakes
  <2>3. CASE ~closed /\ Full
    <3>1. /\ not_full' = not_full \cup {t}
          /\ phase' = [phase EXCEPT ![t] = "wait"]
          /\ UNCHANGED <<queue, op, not_empty>>
      BY <1>4, <2>3 DEF SendStep
    <3>2. WaitingReceivers' = WaitingReceivers
      BY <2>0, <3>1 DEF TypeOK, WaitingReceivers
    <3>3. cap' - Len(queue') <= 0
      BY <2>0, <2>3, <3>1 DEF Full, TypeOK
    <3> QED BY <2>0, <2>3, <3>1, <3>2, <3>3, <1>0, <1>b DEF NoLostWakeup, TypeOK
  <2> QED BY <2>1, <2>2, <2>3
<1>6. ASSUME NEW t \in Threads, RecvStep(t) PROVE NoLostWakeup'
  <2>0. /\ op[t] = "recv" /\ phase[t] \in {"enter", "wait"} /\ t \notin not_empty
        /\ UNCHANGED <<cap, closed>>
        /\ t \in WaitingReceivers <=> phase[t] = "wait"
    BY <1>6 DEF RecvStep, WaitingReceivers, TypeOK
  <2>1. CASE channel_pop /\ Return(t) /\ UNCHANGED not_empty
    <3>1. WaitingSenders' = WaitingSenders /\ WaitingReceivers' = WaitingReceivers \ {t}
      BY <2>0, <2>1 DEF Return, TypeOK, WaitingSenders, WaitingReceivers
    <3>2. WaitingReceivers' = WaitingReceivers \/ t \in WaitingReceivers \ not_empty
      BY <2>0, <3>1
    <3> QED BY <2>0, <2>1, <3>1, <3>2, PopWakes
  <2>2. CASE closed /\ UNCHANGED <<not_empty, not_full>>
    BY <2>0, <2>2 DEF NoLostWakeup
  <2>3. CASE /\ queue = <<>> /\ ~closed
             /\ not_empty' = not_empty \cup {t}
             /\ phase' = [phase EXCEPT ![t] = "wait"]
             /\ UNCHANGED <<queue, op, not_full>>
    <3>1. WaitingSenders' = WaitingSenders
      BY <2>0, <2>3 DEF TypeOK, WaitingSenders
    <3>2. Len(queue') = 0
      BY <2>3
    <3> QED BY <2>0, <2>3, <3>1, <3>2, <1>b DEF NoLostWakeup
  <2> QED BY <1>6, <2>1, <2>2, <2>3 DEF RecvStep
<1>8. ASSUME NEW t \in Threads, TryRecv(t) PROVE NoLostWakeup'
  <2>1. WaitingSenders' = WaitingSenders /\ WaitingReceivers' = WaitingReceivers
    BY <1>8 DEF TryRecv, WaitingSenders, WaitingReceivers
  <2> QED BY <1>8, <2>1, PopWakes DEF TryRecv
<1>9. ASSUME NEW t \in Threads, Close(t) PROVE NoLostWakeup'
  BY <1>9 DEF Close, NoLostWakeup
<1>10. ASSUME NEW t \in Threads, SpuriousWakeup(t) PROVE NoLostWakeup'
  <2>1. /\ WaitingSenders' = WaitingSenders /\ WaitingReceivers' = WaitingReceivers
        /\ UNCHANGED <<cap, queue, closed>>
    BY <1>10 DEF SpuriousWakeup, absVars, WaitingSenders, WaitingReceivers
  <2>2. /\ Cardinality((WaitingSenders \ not_full)') >= Cardinality(WaitingSenders \ not_full)
        /\ Cardinality((WaitingReceivers \ not_empty)') >= Cardinality(WaitingReceivers \ not_empty)
    <3>1. /\ not_full' = not_full \ {t} /\ not_empty' = not_empty \ {t}
      BY <1>10 DEF SpuriousWakeup
    <3>2. /\ t \in not_full => Cardinality(WaitingSenders \ (not_full \ {t})) = Cardinality(WaitingSenders \ not_full) + 1
          /\ t \in not_empty => Cardinality(WaitingReceivers \ (not_empty \ {t})) = Cardinality(WaitingReceivers \ not_empty) + 1
      BY <1>a, WokenCount
    <3>3. /\ (WaitingSenders \ not_full)' = WaitingSenders \ (not_full \ {t})
          /\ (WaitingReceivers \ not_empty)' = WaitingReceivers \ (not_empty \ {t})
      BY <2>1, <3>1
    <3>4. /\ t \notin not_full => WaitingSenders \ (not_full \ {t}) = WaitingSenders \ not_full
          /\ t \notin not_empty => WaitingReceivers \ (not_empty \ {t}) = WaitingReceivers \ not_empty
      OBVIOUS
    <3>5. Cardinality(WaitingSenders \ (not_full \ {t})) >= Cardinality(WaitingSenders \ not_full)
      <4> DEFINE a == Cardinality(WaitingSenders \ not_full)
                 b == Cardinality(WaitingSenders \ (not_full \ {t}))
      <4>1. a \in Nat /\ (b = a \/ b = a + 1)
        BY <3>2, <3>4, <1>b, Zenon
      <4> HIDE DEF a, b
      <4>2. b >= a BY <4>1
      <4> QED BY <4>2 DEF a, b
    <3>6. Cardinality(WaitingReceivers \ (not_empty \ {t})) >= Cardinality(WaitingReceivers \ not_empty)
      <4> DEFINE a == Cardinality(WaitingReceivers \ not_empty)
                 b == Cardinality(WaitingReceivers \ (not_empty \ {t}))
      <4>1. a \in Nat /\ (b = a \/ b = a + 1)
        BY <3>2, <3>4, <1>b, Zenon
      <4> HIDE DEF a, b
      <4>2. b >= a BY <4>1
      <4> QED BY <4>2 DEF a, b
    <3> QED BY <3>3, <3>5, <3>6
  <2>3. not_full' \subseteq not_full /\ not_empty' \subseteq not_empty
    BY <1>10 DEF SpuriousWakeup
  <2>4. Len(queue) \in Nat /\ cap \in Int
    BY DEF TypeOK
  <2> QED BY <2>1, <2>2, <2>3, <2>4, <1>b DEF NoLostWakeup
<1>11. CASE Destroy
  <2>1. WaitingSenders = {} /\ WaitingReceivers = {}
    BY <1>11 DEF Destroy, WaitingSenders, WaitingReceivers
  <2> QED BY <1>11, <2>1, <1>a DEF Destroy, NoLostWakeup
<1>12. CASE UNCHANGED vars
  BY <1>12 DEF vars, absVars, NoLostWakeup, WaitingSenders, WaitingReceivers
<1> QED
  BY <1>1, <1>2, <1>3, <1>4, <1>6, <1>8, <1>9, <1>10, <1>11, <1>12 DEF Next, Step

\* No wakeup of a channel is lost: while a receiver sleeps in
\* karkain_channel_recv every queued message has a woken receiver coming for
\* it, likewise for senders and free slots, and close leaves nobody asleep.
THEOREM ChannelNoLostWakeup == Spec => []NoLostWakeup
<1>1. Init => NoLostWakeup
  BY DEF Init, NoLostWakeup
<1> QED BY <1>1, NoLostWakeupStep, WInvAlways, PTL DEF Spec

\* A bounded channel never holds more than cap messages.
THEOREM ChannelCapacity == Spec => []CapacityRespected
<1>1. Init => CapacityRespected
  BY DEF Init, CapacityRespected
<1>2. WInv /\ CapacityRespected /\ [Next]_vars => CapacityRespected'
  <2> SUFFICES ASSUME WInv, CapacityRespected, [Next]_vars PROVE CapacityRespected'
    OBVIOUS
  <2>0. Len(queue) \in Nat /\ cap \in Int /\ queue \in Seq(Msgs)
    BY ChannelAssumption DEF WInv, TypeOK
  <2>1. cap' = cap
    BY DEF Next, Step, vars, absVars, CallSend, CallRecv, SendNoMemory, SendStep, RecvStep, TryRecv, Close, SpuriousWakeup, Destroy
  <2>2. \/ queue' = queue
        \/ ~Full /\ \E t \in Threads : op[t] = "send" /\ queue' = Append(queue, msg[t])
        \/ queue # <<>> /\ queue' = Tail(queue)
        \/ queue' = <<>>
    BY DEF Next, Step, vars, absVars, CallSend, CallRecv, SendNoMemory, SendStep, RecvStep, TryRecv, Close, SpuriousWakeup, Destroy,
           channel_append, channel_pop, SendReject
  <2>3. ASSUME ~Full, NEW t \in Threads, op[t] = "send", queue' = Append(queue, msg[t])
        PROVE  CapacityRespected'
    BY <2>0, <2>1, <2>3 DEF Full, CapacityRespected, WInv, CallShape
  <2> QED BY <2>0, <2>1, <2>2, <2>3 DEF CapacityRespected
<1> QED BY <1>1, <1>2, WInvAlways, PTL DEF Spec

-----------------------------------------------------------------------------
(* Ownership of payloads                                                   *)

\* An appended payload passes from the sender to the queue.
LEMMA OwnershipAppend ==
  ASSUME WInv, PayloadOwnership, NEW t \in Threads, op[t] = "send",
         channel_append(t), destroyed' = destroyed
  PROVE  PayloadOwnership'
<1> USE DEF WInv
<1>0. /\ queue \in Seq(Msgs) /\ fate \in [Msgs -> Fates] /\ msg[t] \in Msgs
      /\ op \in [Threads -> {"idle", "send", "recv"}] /\ msg \in [Threads -> Msgs \cup {NoMsg}]
  BY DEF TypeOK, CallShape
<1>1. /\ queue' = Append(queue, msg[t]) /\ fate' = [fate EXCEPT ![msg[t]] = "queued"]
      /\ op' = [op EXCEPT ![t] = "idle"] /\ msg' = [msg EXCEPT ![t] = NoMsg]
  BY DEF channel_append, Return
<1>2. fate[msg[t]] = "offered" /\ ~destroyed
  BY <1>0 DEF PayloadOwnership
<1>3. \A i \in 1..Len(queue) : queue[i] # msg[t]
  BY <1>0, <1>2 DEF PayloadOwnership
<1>4. /\ Len(queue') = Len(queue) + 1 /\ Len(queue) \in Nat
      /\ \A i \in 1..Len(queue) : queue'[i] = queue[i]
      /\ queue'[Len(queue) + 1] = msg[t]
  BY <1>0, <1>1
<1>5. \A i \in 1..Len(queue') : i \in 1..Len(queue) \/ i = Len(queue) + 1
  BY <1>4
<1>6. \A m \in Msgs : fate'[m] = "queued" <=> \E i \in 1..Len(queue') : queue'[i] = m
  <2> TAKE m \in Msgs
  <2>1. CASE m = msg[t]
    BY <1>0, <1>1, <1>4, <2>1
  <2>2. CASE m # msg[t]
    <3>1. fate'[m] = fate[m]
      BY <1>0, <1>1, <2>2
    <3>2. (\E i \in 1..Len(queue) : queue[i] = m) <=> (\E i \in 1..Len(queue') : queue'[i] = m)
      BY <1>4, <1>5, <2>2
    <3> QED BY <3>1, <3>2 DEF PayloadOwnership
  <2> QED BY <2>1, <2>2
<1>7. \A i, j \in 1..Len(queue') : queue'[i] = queue'[j] => i = j
  BY <1>3, <1>4, <1>5 DEF PayloadOwnership
<1>8. \A u \in Threads : op'[u] = "send" <=> op[u] = "send" /\ u # t
  BY <1>0, <1>1
<1>9. \A u \in Threads : u # t => msg'[u] = msg[u]
  BY <1>0, <1>1
<1>10. \A m \in Msgs : fate'[m] = "offered" <=> \E u \in Threads : op'[u] = "send" /\ msg'[u] = m
  <2> TAKE m \in Msgs
  <2>1. CASE m = msg[t]
    BY <1>0, <1>1, <1>8, <1>9, <2>1 DEF PayloadOwnership
  <2>2. CASE m # msg[t]
    <3>1. fate'[m] = fate[m]
      BY <1>0, <1>1, <2>2
    <3> QED BY <1>8, <1>9, <2>2, <3>1 DEF PayloadOwnership
  <2> QED BY <2>1, <2>2
<1>11. \A u, v \in Threads : op'[u] = "send" /\ op'[v] = "send" /\ msg'[u] = msg'[v] => u = v
  BY <1>8, <1>9 DEF PayloadOwnership
<1> QED BY <1>2, <1>6, <1>7, <1>10, <1>11 DEF PayloadOwnership

\* A message is taken from the head while threads other than t, which may be
\* returning from a receive, keep what they are doing.
LEMMA OwnershipPop ==
  ASSUME WInv, PayloadOwnership, channel_pop, destroyed' = destroyed,
         \A u \in Threads : op'[u] = "send" <=> op[u] = "send",
         \A u \in Threads : op[u] = "send" => msg'[u] = msg[u]
  PROVE  PayloadOwnership'
<1> USE DEF WInv
<1>0. /\ queue \in Seq(Msgs) /\ fate \in [Msgs -> Fates] /\ queue # <<>>
      /\ queue' = Tail(queue) /\ fate' = [fate EXCEPT ![Head(queue)] = "received"]
  BY DEF TypeOK, channel_pop
<1>1. /\ Len(queue) \in Nat \ {0} /\ Len(queue') = Len(queue) - 1
      /\ Head(queue) = queue[1] /\ queue[1] \in Msgs
      /\ \A i \in 1..Len(queue') : queue'[i] = queue[i + 1] /\ i + 1 \in 1..Len(queue)
  BY <1>0
<1>2. \A i \in 2..Len(queue) : i - 1 \in 1..Len(queue') /\ queue'[i - 1] = queue[i]
  BY <1>0, <1>1
<1>3. \A m \in Msgs : fate'[m] = IF m = queue[1] THEN "received" ELSE fate[m]
  BY <1>0, <1>1
<1>4. fate[queue[1]] = "queued"
  BY <1>1 DEF PayloadOwnership
<1>5. \A m \in Msgs : fate'[m] = "queued" <=> \E i \in 1..Len(queue') : queue'[i] = m
  <2> TAKE m \in Msgs
  <2>1. CASE m = queue[1]
    <3>1. \A i \in 1..Len(queue') : queue[i + 1] # queue[1]
      BY <1>1 DEF PayloadOwnership
    <3> QED BY <1>1, <1>3, <2>1, <3>1
  <2>2. CASE m # queue[1]
    <3>1. ASSUME NEW i \in 1..Len(queue), queue[i] = m PROVE \E k \in 1..Len(queue') : queue'[k] = m
      <4>1. i \in 2..Len(queue)
        BY <1>1, <2>2, <3>1
      <4> QED BY <1>2, <3>1, <4>1
    <3>2. ASSUME NEW i \in 1..Len(queue'), queue'[i] = m PROVE \E k \in 1..Len(queue) : queue[k] = m
      BY <1>1, <3>2
    <3>3. fate'[m] = fate[m]
      BY <1>3, <2>2
    <3> QED BY <3>1, <3>2, <3>3 DEF PayloadOwnership
  <2> QED BY <2>1, <2>2
<1>6. \A i, j \in 1..Len(queue') : queue'[i] = queue'[j] => i = j
  <2> TAKE i, j \in 1..Len(queue')
  <2>1. queue[i + 1] = queue[j + 1] => i + 1 = j + 1
    BY <1>1 DEF PayloadOwnership
  <2> QED BY <1>1, <2>1
<1>7. \A m \in Msgs : fate'[m] = "offered" <=> fate[m] = "offered"
  BY <1>3, <1>4
<1>8. \A m \in Msgs : fate'[m] = "offered" <=> \E u \in Threads : op'[u] = "send" /\ msg'[u] = m
  BY <1>7 DEF PayloadOwnership
<1>9. \A u, v \in Threads : op'[u] = "send" /\ op'[v] = "send" /\ msg'[u] = msg'[v] => u = v
  BY DEF PayloadOwnership
<1>10. ~destroyed
  BY <1>1, <1>4 DEF PayloadOwnership
<1> QED BY <1>5, <1>6, <1>8, <1>9, <1>10 DEF PayloadOwnership

\* A send ends without an append: its payload leaves the "offered" state.
LEMMA OwnershipRefuse ==
  ASSUME WInv, PayloadOwnership, NEW t \in Threads, op[t] = "send",
         NEW f \in {"released", "leaked"},
         fate' = [fate EXCEPT ![msg[t]] = f], Return(t), UNCHANGED <<queue, destroyed>>
  PROVE  PayloadOwnership'
<1> USE DEF WInv
<1>0. /\ fate \in [Msgs -> Fates] /\ msg[t] \in Msgs
      /\ op \in [Threads -> {"idle", "send", "recv"}] /\ msg \in [Threads -> Msgs \cup {NoMsg}]
  BY DEF TypeOK, CallShape
<1>1. fate[msg[t]] = "offered" /\ ~destroyed
  BY <1>0 DEF PayloadOwnership
<1>2. \A m \in Msgs : fate'[m] = IF m = msg[t] THEN f ELSE fate[m]
  BY <1>0
<1>3. \A m \in Msgs : fate'[m] = "queued" <=> fate[m] = "queued"
  BY <1>1, <1>2
<1>4. \A u \in Threads : op'[u] = "send" <=> op[u] = "send" /\ u # t
  BY <1>0 DEF Return
<1>5. \A u \in Threads : u # t => msg'[u] = msg[u]
  BY <1>0 DEF Return
<1>6. \A m \in Msgs : fate'[m] = "offered" <=> \E u \in Threads : op'[u] = "send" /\ msg'[u] = m
  <2> TAKE m \in Msgs
  <2>1. CASE m = msg[t]
    BY <1>0, <1>2, <1>4, <1>5, <2>1 DEF PayloadOwnership
  <2>2. CASE m # msg[t]
    BY <1>2, <1>4, <1>5, <2>2 DEF PayloadOwnership
  <2> QED BY <2>1, <2>2
<1>7. \A u, v \in Threads : op'[u] = "send" /\ op'[v] = "send" /\ msg'[u] = msg'[v] => u = v
  BY <1>4, <1>5 DEF PayloadOwnership
<1> QED BY <1>1, <1>3, <1>6, <1>7 DEF PayloadOwnership

\* Every stretch of an operation leaves each payload with exactly one owner.
LEMMA OwnershipStep == WInv /\ PayloadOwnership /\ [Next]_vars => PayloadOwnership'
<1> SUFFICES ASSUME WInv, PayloadOwnership, [Next]_vars PROVE PayloadOwnership'
  OBVIOUS
<1>0. /\ fate \in [Msgs -> Fates] /\ queue \in Seq(Msgs)
      /\ op \in [Threads -> {"idle", "send", "recv"}] /\ msg \in [Threads -> Msgs \cup {NoMsg}]
  BY DEF WInv, TypeOK
<1>s. ASSUME UNCHANGED <<queue, fate, op, msg, destroyed>> PROVE PayloadOwnership'
  BY <1>s DEF PayloadOwnership
<1>r. ASSUME NEW t \in Threads, op[t] = "recv", Return(t)
      PROVE  \A u \in Threads : (op'[u] = "send" <=> op[u] = "send") /\ (op[u] = "send" => msg'[u] = msg[u])
  BY <1>0, <1>r DEF Return
<1>e. ASSUME NEW t \in Threads, op[t] = "recv", Return(t), UNCHANGED <<queue, fate, destroyed>>
      PROVE  PayloadOwnership'
  BY <1>r, <1>e DEF PayloadOwnership
<1>1. ASSUME NEW t \in Threads, NEW m \in Msgs, CallSend(t, m) PROVE PayloadOwnership'
  <2>1. /\ fate[m] = "fresh" /\ op[t] = "idle" /\ ~destroyed
        /\ op' = [op EXCEPT ![t] = "send"] /\ msg' = [msg EXCEPT ![t] = m]
        /\ fate' = [fate EXCEPT ![m] = "offered"] /\ UNCHANGED <<queue, destroyed>>
    BY <1>1 DEF CallSend, Call, WInv, CallShape
  <2>2. \A k \in Msgs : fate'[k] = IF k = m THEN "offered" ELSE fate[k]
    BY <1>0, <2>1
  <2>3. \A u \in Threads : (op'[u] = "send" <=> op[u] = "send" \/ u = t) /\ msg'[u] = IF u = t THEN m ELSE msg[u]
    BY <1>0, <2>1
  <2>4. \A u \in Threads : op[u] = "send" => msg[u] # m
    BY <2>1 DEF PayloadOwnership
  <2>5. \A k \in Msgs : fate'[k] = "offered" <=> \E u \in Threads : op'[u] = "send" /\ msg'[u] = k
    <3> TAKE k \in Msgs
    <3>1. CASE k = m
      BY <2>2, <2>3, <3>1
    <3>2. CASE k # m
      BY <2>1, <2>2, <2>3, <3>2 DEF PayloadOwnership
    <3> QED BY <3>1, <3>2
  <2>6. \A u, v \in Threads : op'[u] = "send" /\ op'[v] = "send" /\ msg'[u] = msg'[v] => u = v
    BY <2>3, <2>4 DEF PayloadOwnership
  <2>7. \A k \in Msgs : fate'[k] = "queued" <=> fate[k] = "queued"
    BY <2>1, <2>2
  <2> QED BY <2>1, <2>5, <2>6, <2>7 DEF PayloadOwnership
<1>2. ASSUME NEW t \in Threads, CallRecv(t) PROVE PayloadOwnership'
  <2>1. /\ op[t] = "idle" /\ op' = [op EXCEPT ![t] = "recv"] /\ msg' = [msg EXCEPT ![t] = NoMsg]
        /\ UNCHANGED <<queue, fate, destroyed>>
    BY <1>2 DEF CallRecv, Call, WInv, CallShape
  <2>2. \A u \in Threads : (op'[u] = "send" <=> op[u] = "send") /\ (op[u] = "send" => msg'[u] = msg[u])
    BY <1>0, <2>1
  <2> QED BY <2>1, <2>2 DEF PayloadOwnership
<1>3. ASSUME NEW t \in Threads, SendNoMemory(t) PROVE PayloadOwnership'
  BY <1>3, OwnershipRefuse DEF SendNoMemory
<1>4. ASSUME NEW t \in Threads, SendStep(t) PROVE PayloadOwnership'
  BY <1>4, <1>s, OwnershipRefuse, OwnershipAppend DEF SendStep, SendReject
<1>6. ASSUME NEW t \in Threads, RecvStep(t) PROVE PayloadOwnership'
  BY <1>6, <1>s, <1>r, <1>e, OwnershipPop DEF RecvStep
<1>8. ASSUME NEW t \in Threads, TryRecv(t) PROVE PayloadOwnership'
  BY <1>8, OwnershipPop DEF TryRecv
<1>9. ASSUME NEW t \in Threads, Close(t) PROVE PayloadOwnership'
  BY <1>9, <1>s DEF Close
<1>10. ASSUME NEW t \in Threads, SpuriousWakeup(t) PROVE PayloadOwnership'
  BY <1>10, <1>s DEF SpuriousWakeup, absVars
<1>11. CASE Destroy
  <2>1. \A t \in Threads : op[t] = "idle"
    BY <1>11 DEF Destroy, WInv, CallShape
  <2>2. \A m \in Msgs : fate'[m] \notin {"queued", "offered"}
    BY <1>11, <2>1 DEF Destroy, PayloadOwnership
  <2>3. Len(queue') = 0 /\ op' = op /\ msg' = msg
    BY <1>11 DEF Destroy
  <2> QED BY <2>1, <2>2, <2>3 DEF PayloadOwnership
<1>12. CASE UNCHANGED vars
  BY <1>12, <1>s DEF vars, absVars
<1> QED
  BY <1>1, <1>2, <1>3, <1>4, <1>6, <1>8, <1>9, <1>10, <1>11, <1>12 DEF Next, Step

\* Every payload handed to karkain_channel_send has exactly one owner at all
\* times: no message is duplicated, lost from the queue or freed while queued.
THEOREM ChannelPayloadOwnership == Spec => []PayloadOwnership
<1>1. Init => PayloadOwnership
  BY DEF Init, PayloadOwnership
<1> QED BY <1>1, OwnershipStep, WInvAlways, PTL DEF Spec

-----------------------------------------------------------------------------
(* Refinement                                                              *)

\* Every step of the channel is a step of the FIFO queue or invisible to it.
LEMMA RefinementStep == WInv /\ [Next]_vars => [Fifo!Next]_(Fifo!vars)
<1> SUFFICES ASSUME WInv, [Next]_vars PROVE [Fifo!Next]_(Fifo!vars)
  OBVIOUS
<1> USE DEF WInv, Fifo!Next, Fifo!vars
<1>f. Fifo!Full = Full
  BY DEF Full, Fifo!Full
<1>r. ASSUME NEW t \in Threads, Return(t) PROVE Fifo!Return(t)
  BY <1>r DEF Return, Fifo!Return
<1>p. channel_pop => Fifo!TakeHead
  BY DEF channel_pop, Fifo!TakeHead
<1>1. ASSUME NEW t \in Threads, NEW m \in Msgs, CallSend(t, m) PROVE Fifo!CallSend(t, m)
  BY <1>1 DEF CallSend, Call, CallShape, Fifo!CallSend
<1>2. ASSUME NEW t \in Threads, CallRecv(t) PROVE Fifo!CallRecv(t)
  <2>1. msg[t] = NoMsg /\ op[t] = "idle"
    BY <1>2 DEF CallRecv, Call, CallShape
  <2>2. msg' = msg
    BY <1>2, <2>1 DEF CallRecv, Call, TypeOK
  <2> QED BY <1>2, <2>1, <2>2 DEF CallRecv, Call, Fifo!CallRecv
<1>3. ASSUME NEW t \in Threads, SendNoMemory(t) PROVE Fifo!Refuse(t)
  BY <1>3, <1>r DEF SendNoMemory, Fifo!Refuse
<1>4. ASSUME NEW t \in Threads, SendStep(t)
      PROVE  Fifo!Refuse(t) \/ Fifo!Accept(t) \/ UNCHANGED Fifo!vars
  BY <1>4, <1>r, <1>f DEF SendStep, SendReject, channel_append, Fifo!Refuse, Fifo!Accept
<1>5. ASSUME NEW t \in Threads, RecvStep(t)
      PROVE  Fifo!Take(t) \/ Fifo!TakeNothing(t) \/ UNCHANGED Fifo!vars
  BY <1>5, <1>r, <1>p DEF RecvStep, Fifo!Take, Fifo!TakeNothing
<1>6. ASSUME NEW t \in Threads, TryRecv(t) PROVE Fifo!TryTake(t)
  BY <1>6, <1>p DEF TryRecv, CallShape, Fifo!TryTake
<1>7. ASSUME NEW t \in Threads, Close(t) PROVE Fifo!Close(t)
  BY <1>7 DEF Close, CallShape, Fifo!Close
<1>8. ASSUME NEW t \in Threads, SpuriousWakeup(t) PROVE UNCHANGED Fifo!vars
  BY <1>8 DEF SpuriousWakeup, absVars
<1>9. CASE Destroy
  BY <1>9 DEF Destroy, CallShape, Fifo!Destroy
<1>10. CASE UNCHANGED vars
  BY <1>10 DEF vars, absVars
<1> QED
  BY <1>1, <1>2, <1>3, <1>4, <1>5, <1>6, <1>7, <1>8, <1>9, <1>10 DEF Next, Step

\* The lock, the two condition variables and the waiter counters of
\* karkain_channel.c implement the FIFO queue callers rely on.
THEOREM ChannelImplementsFifo == Spec => FifoSafety
<1>1. Init => Fifo!Init
  BY ChannelAssumption DEF Init, Fifo!Init
<1> QED BY <1>1, RefinementStep, WInvAlways, PTL DEF Spec, FifoSafety, Fifo!Safety
=============================================================================
