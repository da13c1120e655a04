--------------------------- MODULE GoroutineProofs --------------------------
(***************************************************************************)
(* Parts of the Go runtime that several goroutines use: a channel delivers *)
(* what it accepted in order and tells its senders the truth, and the node *)
(* table and the connections agree.                                        *)
(***************************************************************************)
EXTENDS GoChannel, NodeMesh, SequenceTheorems, TLAPS

-----------------------------------------------------------------------------
(* The channel (GoChannel).                                                *)

\* Positions in a call that has a value to send, and positions that have none.
Sending == {"send?", "send_timed?", "try?", "send", "send_timed", "try",
            "select?", "select_send", "select_recv", "select_end"}
Other == {"idle", "receive", "receive_timed", "poll", "close", "close_buffer"}

ChanTypeOK ==
  /\ bufferSize \in Nat
  /\ buffer \in Seq(Values) /\ order \in Seq(Values) /\ got \in Seq(Values)
  /\ pc \in [Procs -> Sending \cup Other \cup {"dead"}]
  /\ val \in [Procs -> Values \cup {NoValue}]
  /\ fate \in [Values -> {"fresh", "offered", "accepted", "refused"}]

\* A goroutine holds a value exactly while its call may still send it; the
\* value is nobody else's and has not been sent.
Hands ==
  /\ \A p \in Procs : pc[p] \in Sending => val[p] \in Values
  /\ \A p \in Procs : pc[p] \in Other => val[p] = NoValue
  /\ \A p \in Procs : val[p] \in Values => fate[val[p]] = "offered"
  /\ \A p, q \in Procs : p # q /\ val[p] \in Values => val[q] # val[p]

ChanInv ==
  /\ ChanTypeOK /\ Hands
  /\ Len(buffer) <= bufferSize
  /\ FifoExact /\ AnswerTruthful

-----------------------------------------------------------------------------
\* A value that has not been sent goes to the end of the history.
LEMMA AppendNew ==
  ASSUME NEW s \in Seq(Values), IsInjective(s), NEW v \in Values, v \notin Range(s)
  PROVE  /\ IsInjective(Append(s, v))
         /\ \A w : w \in Range(Append(s, v)) <=> w \in Range(s) \/ w = v
<1>1. /\ Append(s, v) \in Seq(Values) /\ Len(Append(s, v)) = Len(s) + 1 /\ Len(s) \in Nat
      /\ \A i \in 1..Len(s) : Append(s, v)[i] = s[i]
      /\ Append(s, v)[Len(s) + 1] = v
  BY AppendProperties, LenProperties
<1>2. DOMAIN s = 1..Len(s) /\ DOMAIN Append(s, v) = 1..(Len(s) + 1)
  BY Zenon, <1>1, LenProperties
<1> DEFINE t == Append(s, v)
<1> HIDE DEF t
<1>3. /\ DOMAIN t = 1..(Len(s) + 1) /\ t[Len(s) + 1] = v
      /\ \A i \in 1..Len(s) : t[i] = s[i]
  BY Zenon, <1>1, <1>2 DEF t
<1>4. \A w : w \in Range(t) <=> w \in Range(s) \/ w = v
  <2>1. ASSUME NEW w, w \in Range(t) PROVE w \in Range(s) \/ w = v
    <3>1. PICK i \in 1..(Len(s) + 1) : t[i] = w
      BY Zenon, <1>3, <2>1 DEF Range
    <3>2. CASE i = Len(s) + 1
      BY Zenon, <1>3, <3>1, <3>2
    <3>3. CASE i # Len(s) + 1
      <4>1. i \in 1..Len(s)
        BY <1>1, <3>3
      <4> QED
        BY Zenon, <1>2, <1>3, <3>1, <4>1 DEF Range
    <3> QED
      BY Zenon, <3>2, <3>3
  <2>2. ASSUME NEW w, w \in Range(s) PROVE w \in Range(t)
    <3>1. PICK i \in 1..Len(s) : s[i] = w
      BY Zenon, <1>2, <2>2 DEF Range
    <3>2. i \in 1..(Len(s) + 1) /\ t[i] = w
      BY <1>1, <1>3, <3>1
    <3> QED
      BY Zenon, <1>3, <3>2 DEF Range
  <2>3. v \in Range(t)
    <3>1. Len(s) + 1 \in 1..(Len(s) + 1)
      BY <1>1
    <3> QED
      BY Zenon, <1>3, <3>1 DEF Range
  <2> QED
    BY Zenon, <2>1, <2>2, <2>3
<1>5. IsInjective(t)
  <2> SUFFICES ASSUME NEW i \in 1..(Len(s) + 1), NEW j \in 1..(Len(s) + 1), t[i] = t[j], i < j
               PROVE  FALSE
    BY <1>1, <1>3 DEF IsInjective
  <2>1. i \in 1..Len(s) /\ t[i] = s[i]
    BY <1>1, <1>3
  <2>2. CASE j = Len(s) + 1
    BY Zenon, <1>2, <1>3, <2>1, <2>2 DEF Range
  <2>3. CASE j # Len(s) + 1
    <3>1. j \in 1..Len(s) /\ t[j] = s[j]
      BY <1>1, <1>3, <2>3
    <3>2. i = j
      BY Zenon, <1>2, <2>1, <3>1 DEF IsInjective
    <3> QED
      BY <3>2
  <2> QED
    BY Zenon, <2>2, <2>3
<1> QED
  BY Zenon, <1>4, <1>5 DEF t

\* The buffer is a queue: what is appended to it comes last, and its head is
\* the next value of the history.
LEMMA QueueFacts ==
  ASSUME NEW s \in Seq(Values), NEW b \in Seq(Values)
  PROVE  /\ \A v \in Values : s \o Append(b, v) = Append(s \o b, v)
         /\ \A v \in Values : b = <<>> => Append(s, v) \o b = Append(s \o b, v)
         /\ b # <<>> => /\ Append(s, Head(b)) \o Tail(b) = s \o b
                        /\ Head(b) \in Values /\ Tail(b) \in Seq(Values)
                        /\ Len(Tail(b)) = Len(b) - 1
<1>1. ASSUME NEW v \in Values PROVE s \o Append(b, v) = Append(s \o b, v)
  <2>1. Append(b, v) = b \o <<v>> /\ Append(s \o b, v) = (s \o b) \o <<v>>
    BY Zenon, AppendIsConcat, ConcatProperties
  <2> QED
    BY <2>1, ConcatAssociative
<1>2. ASSUME NEW v \in Values, b = <<>> PROVE Append(s, v) \o b = Append(s \o b, v)
  BY <1>2, ConcatEmptySeq, AppendProperties
<1>3. ASSUME b # <<>>
      PROVE  /\ Append(s, Head(b)) \o Tail(b) = s \o b
             /\ Head(b) \in Values /\ Tail(b) \in Seq(Values)
             /\ Len(Tail(b)) = Len(b) - 1
  <2>1. Head(b) \in Values /\ Tail(b) \in Seq(Values) /\ Len(Tail(b)) = Len(b) - 1
    BY Zenon, <1>3, HeadTailProperties
  <2>2. b = <<Head(b)>> \o Tail(b)
    BY <1>3, <2>1, ConcatProperties, SeqEqual
  <2>3. Append(s, Head(b)) = s \o <<Head(b)>>
    BY Zenon, <2>1, AppendIsConcat
  <2>4. (s \o <<Head(b)>>) \o Tail(b) = s \o (<<Head(b)>> \o Tail(b))
    BY <2>1, ConcatAssociative
  <2> QED
    BY Zenon, <2>1, <2>2, <2>3, <2>4
<1> QED
  BY Zenon, <1>1, <1>2, <1>3

-----------------------------------------------------------------------------
\* What the positions tell, and that NoValue is no value.
LEMMA PositionFacts ==
  /\ \A l : l \in Sending => l \notin Other /\ l # "dead"
  /\ \A l : l \in Other => l # "dead"
  /\ "idle" \in Other /\ NoValue \notin Values
BY Zenon, GoChannelAssumption DEF Sending, Other

\* Calls that return, with their values sent or refused, leave the others'
\* values in their hands.
LEMMA HandsAfterReturn ==
  ASSUME ChanInv, NEW D \in SUBSET Procs,
         \A q \in D : pc'[q] = "idle" /\ val'[q] = NoValue,
         \A q \in Procs \ D : pc'[q] = pc[q] /\ val'[q] = val[q],
         \A q \in Procs \ D : val[q] \in Values => fate'[val[q]] = fate[val[q]]
  PROVE  Hands'
<1>1. \A p \in Procs : pc'[p] \in Sending => val'[p] \in Values
  BY PositionFacts DEF ChanInv, Hands
<1>2. \A p \in Procs : pc'[p] \in Other => val'[p] = NoValue
  BY Zenon, PositionFacts DEF ChanInv, Hands
<1>3. \A p \in Procs : val'[p] \in Values => fate'[val'[p]] = "offered"
  BY PositionFacts DEF ChanInv, Hands
<1>4. \A p, q \in Procs : p # q /\ val'[p] \in Values => val'[q] # val'[p]
  BY PositionFacts DEF ChanInv, Hands
<1> QED
  BY Zenon, <1>1, <1>2, <1>3, <1>4 DEF Hands

\* A step that transfers nothing and keeps every value in its hands: the tests
\* of the closed flag, both halves of Close, the branches of Select that go
\* on, calls without a value, and a panic.
LEMMA Quiet ==
  ASSUME ChanInv, NEW p \in Procs, NEW l, Goto(p, l),
         UNCHANGED <<bufferSize, buffer, val, fate, history>>,
         \/ pc[p] \in Sending /\ l \in Sending
         \/ pc[p] \in Other /\ l \in Other
         \/ l = "dead"
  PROVE  ChanInv'
<1>1. ChanTypeOK'
  BY Zenon DEF ChanInv, ChanTypeOK, Goto, history
<1>2. Hands'
  <2>1. pc'[p] = l /\ \A q \in Procs \ {p} : pc'[q] = pc[q]
    BY Zenon DEF ChanInv, ChanTypeOK, Goto
  <2>2. val' = val /\ fate' = fate
    BY Zenon
  <2>3. \A q \in Procs : pc'[q] \in Sending => val'[q] \in Values
    BY Zenon, <2>1, <2>2, PositionFacts DEF ChanInv, Hands
  <2>4. \A q \in Procs : pc'[q] \in Other => val'[q] = NoValue
    BY Zenon, <2>1, <2>2, PositionFacts DEF ChanInv, Hands
  <2> QED
    BY Zenon, <2>2, <2>3, <2>4 DEF ChanInv, Hands
<1> QED
  BY Zenon, <1>1, <1>2 DEF ChanInv, FifoExact, AnswerTruthful, history

\* A call that gives up: its value is refused and stays out of the channel.
LEMMA ReturnFalseKeeps ==
  ASSUME ChanInv, NEW p \in Procs, ReturnFalse(p)
  PROVE  ChanInv'
<1>1. /\ pc'[p] = "idle" /\ val'[p] = NoValue
      /\ \A q \in Procs \ {p} : pc'[q] = pc[q]
      /\ \A q \in Procs \ {p} : val'[q] = val[q]
  BY Zenon DEF ChanInv, ChanTypeOK, ReturnFalse, Goto
<1>2. \A v \in Values : fate'[v] = IF v = val[p] THEN "refused" ELSE fate[v]
  BY Zenon, PositionFacts DEF ChanInv, ChanTypeOK, ReturnFalse
<1>3. ChanTypeOK'
  BY Zenon, PositionFacts DEF ChanInv, ChanTypeOK, ReturnFalse, Goto, chan, history
<1>4. Hands'
  <2>1. \A q \in Procs \ {p} : val[q] \in Values => fate'[val[q]] = fate[val[q]]
    BY Zenon, <1>2 DEF ChanInv, Hands
  <2> DEFINE D == {p}
  <2>2. \A q \in D : pc'[q] = "idle" /\ val'[q] = NoValue
    BY Zenon, <1>1
  <2>3. \A q \in Procs \ D : pc'[q] = pc[q] /\ val'[q] = val[q]
    BY Zenon, <1>1
  <2>4. \A q \in Procs \ D : val[q] \in Values => fate'[val[q]] = fate[val[q]]
    BY Zenon, <2>1
  <2>5. D \in SUBSET Procs
    BY Zenon
  <2> HIDE DEF D
  <2> QED
    BY Zenon, <2>2, <2>3, <2>4, <2>5, HandsAfterReturn
<1>5. AnswerTruthful'
  BY <1>2 DEF ChanInv, Hands, AnswerTruthful, ReturnFalse, history
<1> QED
  BY Zenon, <1>3, <1>4, <1>5 DEF ChanInv, FifoExact, ReturnFalse, chan, history

\* A call with a value: the value is new.
LEMMA CallSendingKeeps ==
  ASSUME ChanInv, NEW p \in Procs, NEW op, NEW l \in Sending, CallSending(p, op, l)
  PROVE  ChanInv'
<1>1. PICK v \in Values : /\ fate[v] = "fresh"
                          /\ fate' = [fate EXCEPT ![v] = "offered"]
                          /\ val' = [val EXCEPT ![p] = v]
  BY Zenon DEF CallSending
<1>2. /\ pc'[p] = l /\ val'[p] = v
      /\ \A q \in Procs \ {p} : pc'[q] = pc[q]
      /\ \A q \in Procs \ {p} : val'[q] = val[q]
  BY Zenon, <1>1 DEF ChanInv, ChanTypeOK, CallSending, Goto
<1>3. \A w \in Values : fate'[w] = IF w = v THEN "offered" ELSE fate[w]
  BY Zenon, <1>1 DEF ChanInv, ChanTypeOK
<1>4. ChanTypeOK'
  BY Zenon, <1>1 DEF ChanInv, ChanTypeOK, CallSending, Goto, chan, history
<1>5. \A q \in Procs : val[q] # v
  BY Zenon, <1>1 DEF ChanInv, Hands
<1>6. l \notin Other
  BY Zenon, PositionFacts
<1>7. Hands'
  <2>1. \A q \in Procs : pc'[q] \in Sending => val'[q] \in Values
    BY Zenon, <1>2 DEF ChanInv, Hands
  <2>2. \A q \in Procs : pc'[q] \in Other => val'[q] = NoValue
    BY Zenon, <1>2, <1>6 DEF ChanInv, Hands
  <2>3. \A q \in Procs : val'[q] \in Values => fate'[val'[q]] = "offered"
    BY <1>2, <1>3 DEF ChanInv, Hands
  <2>4. \A q, r \in Procs : q # r /\ val'[q] \in Values => val'[r] # val'[q]
    BY <1>2, <1>5 DEF ChanInv, Hands
  <2> QED
    BY Zenon, <2>1, <2>2, <2>3, <2>4 DEF Hands
<1>8. AnswerTruthful'
  BY <1>1, <1>3 DEF ChanInv, AnswerTruthful, CallSending, history
<1> QED
  BY Zenon, <1>4, <1>7, <1>8 DEF ChanInv, FifoExact, CallSending, chan, history

\* The facts a transfer rests on: v, in the hands of s, is new to the history.
LEMMA TransferFacts ==
  ASSUME ChanInv, NEW s \in Procs, val[s] \in Values, order' = Append(order, val[s])
  PROVE  /\ order' \in Seq(Values) /\ IsInjective(order')
         /\ \A w \in Values : w \in Range(order') <=> fate[w] = "accepted" \/ w = val[s]
<1>1. val[s] \notin Range(order)
  BY Zenon DEF ChanInv, Hands, AnswerTruthful
<1>2. order' \in Seq(Values)
  BY Zenon, AppendProperties DEF ChanInv, ChanTypeOK
<1>3. /\ IsInjective(order')
      /\ \A w : w \in Range(order') <=> w \in Range(order) \/ w = val[s]
  BY Zenon, <1>1, AppendNew DEF ChanInv, ChanTypeOK, FifoExact
<1> QED
  BY Zenon, <1>2, <1>3 DEF ChanInv, AnswerTruthful

\* A send through the buffer, or to a goroutine that waits in a receive.
LEMMA GoSendKeeps ==
  ASSUME ChanInv, NEW p \in Procs, pc[p] \in Sending, GoSend(p)
  PROVE  ChanInv'
<1> DEFINE v == val[p]
<1>1. v \in Values
  BY Zenon DEF ChanInv, Hands
<1>2. /\ order' \in Seq(Values) /\ IsInjective(order')
      /\ \A w \in Values : w \in Range(order') <=> fate[w] = "accepted" \/ w = v
  BY Zenon, <1>1, TransferFacts DEF GoSend
<1>3. fate' \in [Values -> {"fresh", "offered", "accepted", "refused"}]
      /\ \A w \in Values : fate'[w] = IF w = v THEN "accepted" ELSE fate[w]
  BY Zenon, <1>1 DEF GoSend, ChanInv, ChanTypeOK
<1>4. AnswerTruthful'
  BY Zenon, <1>2, <1>3 DEF AnswerTruthful
<1>5. \A q \in Procs \ {p} : val[q] \in Values => fate'[val[q]] = fate[val[q]]
  BY Zenon, <1>1, <1>3 DEF ChanInv, Hands
<1>6. val' \in [Procs -> Values \cup {NoValue}] /\ val'[p] = NoValue
      /\ \A q \in Procs \ {p} : val'[q] = val[q]
  BY Zenon DEF GoSend, ChanInv, ChanTypeOK
<1>7. CASE Len(buffer) < bufferSize /\ buffer' = Append(buffer, v) /\ Goto(p, "idle") /\ got' = got
  <2>1. pc' \in [Procs -> Sending \cup Other \cup {"dead"}] /\ pc'[p] = "idle"
        /\ \A q \in Procs \ {p} : pc'[q] = pc[q]
    BY Zenon, <1>7, PositionFacts DEF Goto, ChanInv, ChanTypeOK
  <2>2. Hands'
    <3> DEFINE D == {p}
    <3>1. \A q \in D : pc'[q] = "idle" /\ val'[q] = NoValue
      BY Zenon, <1>6, <2>1
    <3>2. \A q \in Procs \ D : pc'[q] = pc[q] /\ val'[q] = val[q]
      BY Zenon, <1>6, <2>1
    <3>3. \A q \in Procs \ D : val[q] \in Values => fate'[val[q]] = fate[val[q]]
      BY Zenon, <1>5
    <3>4. D \in SUBSET Procs
      BY Zenon
    <3> HIDE DEF D
    <3> QED
      BY Zenon, <3>1, <3>2, <3>3, <3>4, HandsAfterReturn
  <2>3. buffer' \in Seq(Values) /\ Len(buffer') <= bufferSize
    BY <1>1, <1>7, AppendProperties, LenProperties DEF ChanInv, ChanTypeOK
  <2>4. got' \o buffer' = order'
    BY <1>1, <1>7, QueueFacts DEF GoSend, ChanInv, ChanTypeOK, FifoExact
  <2>5. ChanTypeOK'
    BY Zenon, <1>2, <1>3, <1>6, <1>7, <2>1, <2>3 DEF GoSend, ChanInv, ChanTypeOK
  <2> QED
    BY Zenon, <1>2, <1>4, <2>2, <2>3, <2>4, <2>5 DEF GoSend, ChanInv, FifoExact
<1>8. ASSUME bufferSize = 0, NEW r \in Procs, pc[r] \in {"receive", "receive_timed"},
             pc' = [pc EXCEPT ![p] = "idle", ![r] = "idle"],
             got' = Append(got, v), buffer' = buffer
      PROVE  ChanInv'
  <2>1. pc' \in [Procs -> Sending \cup Other \cup {"dead"}] /\ pc'[p] = "idle" /\ pc'[r] = "idle"
        /\ \A q \in Procs \ {p, r} : pc'[q] = pc[q]
    BY Zenon, <1>8, PositionFacts DEF ChanInv, ChanTypeOK
  <2>2. pc[r] \in Other
    BY Zenon, <1>8 DEF Other
  <2>3. val'[r] = NoValue
    BY Zenon, <1>6, <2>2 DEF ChanInv, Hands
  <2>4. Hands'
    <3> DEFINE D == {p, r}
    <3>1. \A q \in D : pc'[q] = "idle" /\ val'[q] = NoValue
      BY Zenon, <1>6, <2>1, <2>3
    <3>2. \A q \in Procs \ D : pc'[q] = pc[q] /\ val'[q] = val[q]
      BY Zenon, <1>6, <2>1
    <3>3. \A q \in Procs \ D : val[q] \in Values => fate'[val[q]] = fate[val[q]]
      BY Zenon, <1>5
    <3>4. D \in SUBSET Procs
      BY Zenon
    <3> HIDE DEF D
    <3> QED
      BY Zenon, <3>1, <3>2, <3>3, <3>4, HandsAfterReturn
  <2>5. buffer = <<>>
    BY <1>8, EmptySeq, LenProperties DEF ChanInv, ChanTypeOK
  <2>6. got' \in Seq(Values) /\ got' \o buffer' = order'
    BY <1>1, <1>8, <2>5, QueueFacts, AppendProperties DEF GoSend, ChanInv, ChanTypeOK, FifoExact
  <2>7. ChanTypeOK'
    BY Zenon, <1>2, <1>3, <1>6, <1>8, <2>1, <2>6 DEF GoSend, ChanInv, ChanTypeOK
  <2> QED
    BY Zenon, <1>2, <1>4, <1>8, <2>4, <2>6, <2>7 DEF GoSend, ChanInv, FifoExact
<1> QED
  BY Zenon, <1>7, <1>8 DEF GoSend, At

\* A receive from the buffer, or from a goroutine blocked in a send; the value
\* the receiver itself offered in a Select is refused.
LEMMA GoReceiveKeeps ==
  ASSUME ChanInv, NEW p \in Procs, GoReceive(p)
  PROVE  ChanInv'
<1>1. CASE /\ buffer # <<>>
           /\ got' = Append(got, Head(buffer)) /\ buffer' = Tail(buffer)
           /\ Goto(p, "idle")
           /\ fate' = IF val[p] = NoValue THEN fate ELSE [fate EXCEPT ![val[p]] = "refused"]
           /\ val' = [val EXCEPT ![p] = NoValue]
           /\ order' = order
  <2>1. /\ pc' \in [Procs -> Sending \cup Other \cup {"dead"}]
        /\ pc'[p] = "idle" /\ \A q \in Procs \ {p} : pc'[q] = pc[q]
    BY Zenon, <1>1, PositionFacts DEF Goto, ChanInv, ChanTypeOK
  <2>2. /\ val' \in [Procs -> Values \cup {NoValue}]
        /\ val'[p] = NoValue /\ \A q \in Procs \ {p} : val'[q] = val[q]
    BY Zenon, <1>1 DEF ChanInv, ChanTypeOK
  <2>3. /\ fate' \in [Values -> {"fresh", "offered", "accepted", "refused"}]
        /\ \A v \in Values : fate'[v] = IF v = val[p] THEN "refused" ELSE fate[v]
    BY Zenon, <1>1, PositionFacts DEF ChanInv, ChanTypeOK
  <2>4. Hands'
    <3>0. \A q \in Procs \ {p} : val[q] \in Values => fate'[val[q]] = fate[val[q]]
      BY Zenon, <2>3 DEF ChanInv, Hands
    <3> DEFINE D == {p}
    <3>1. \A q \in D : pc'[q] = "idle" /\ val'[q] = NoValue
      BY Zenon, <2>1, <2>2
    <3>2. \A q \in Procs \ D : pc'[q] = pc[q] /\ val'[q] = val[q]
      BY Zenon, <2>1, <2>2
    <3>3. \A q \in Procs \ D : val[q] \in Values => fate'[val[q]] = fate[val[q]]
      BY Zenon, <3>0
    <3>4. D \in SUBSET Procs
      BY Zenon
    <3> HIDE DEF D
    <3> QED
      BY Zenon, <3>1, <3>2, <3>3, <3>4, HandsAfterReturn
  <2>5. AnswerTruthful'
    BY <1>1, <2>3 DEF ChanInv, Hands, AnswerTruthful
  <2>6. /\ Head(buffer) \in Values /\ buffer' \in Seq(Values) /\ Len(buffer') = Len(buffer) - 1
        /\ got' \o buffer' = got \o buffer
    BY Zenon, <1>1, QueueFacts DEF ChanInv, ChanTypeOK
  <2>7. got' \in Seq(Values)
    BY Zenon, <1>1, <2>6, AppendProperties DEF ChanInv, ChanTypeOK
  <2>8. ChanTypeOK'
    BY Zenon, <1>1, <2>1, <2>2, <2>3, <2>6, <2>7 DEF GoReceive, ChanInv, ChanTypeOK
  <2>9. Len(buffer') <= bufferSize'
    BY <2>6, LenProperties DEF GoReceive, ChanInv, ChanTypeOK
  <2> QED
    BY Zenon, <1>1, <2>4, <2>5, <2>6, <2>8, <2>9 DEF ChanInv, FifoExact
<1>2. ASSUME bufferSize = 0, NEW s \in Procs \ {p}, pc[s] \in {"send", "send_timed"},
             order' = Append(order, val[s]), got' = Append(got, val[s]),
             pc' = [pc EXCEPT ![p] = "idle", ![s] = "idle"],
             fate' = [v \in Values |-> IF v = val[s] THEN "accepted"
                                       ELSE IF v = val[p] THEN "refused" ELSE fate[v]],
             val' = [val EXCEPT ![p] = NoValue, ![s] = NoValue],
             buffer' = buffer
      PROVE  ChanInv'
  <2>0. val[s] \in Values /\ val[p] # val[s]
    BY Zenon, <1>2 DEF ChanInv, Hands, Sending
  <2>1. /\ pc' \in [Procs -> Sending \cup Other \cup {"dead"}] /\ pc'[p] = "idle" /\ pc'[s] = "idle"
        /\ \A q \in Procs \ {p, s} : pc'[q] = pc[q]
    BY Zenon, <1>2, PositionFacts DEF ChanInv, ChanTypeOK
  <2>2. /\ val' \in [Procs -> Values \cup {NoValue}] /\ val'[p] = NoValue /\ val'[s] = NoValue
        /\ \A q \in Procs \ {p, s} : val'[q] = val[q]
    BY Zenon, <1>2 DEF ChanInv, ChanTypeOK
  <2>3. fate' \in [Values -> {"fresh", "offered", "accepted", "refused"}]
    BY Zenon, <1>2 DEF ChanInv, ChanTypeOK
  <2>4. Hands'
    <3> DEFINE D == {p, s}
    <3>1. \A q \in D : pc'[q] = "idle" /\ val'[q] = NoValue
      BY Zenon, <2>1, <2>2
    <3>2. \A q \in Procs \ D : pc'[q] = pc[q] /\ val'[q] = val[q]
      BY Zenon, <2>1, <2>2
    <3>3. \A q \in Procs \ D : val[q] \in Values => fate'[val[q]] = fate[val[q]]
      BY Zenon, <1>2 DEF ChanInv, Hands
    <3>4. D \in SUBSET Procs
      BY Zenon, <1>2
    <3> HIDE DEF D
    <3> QED
      BY Zenon, <3>1, <3>2, <3>3, <3>4, HandsAfterReturn
  <2>5. /\ order' \in Seq(Values) /\ IsInjective(order')
        /\ \A w \in Values : w \in Range(order') <=> fate[w] = "accepted" \/ w = val[s]
    BY Zenon, <1>2, <2>0, TransferFacts
  <2>6. AnswerTruthful'
    BY Zenon, <1>2, <2>0, <2>5 DEF ChanInv, Hands, AnswerTruthful
  <2>7. buffer = <<>>
    BY <1>2, EmptySeq, LenProperties DEF ChanInv, ChanTypeOK
  <2>8. got' \in Seq(Values) /\ got' \o buffer' = order'
    BY <1>2, <2>0, <2>7, QueueFacts, AppendProperties DEF ChanInv, ChanTypeOK, FifoExact
  <2>9. ChanTypeOK'
    BY Zenon, <1>2, <2>1, <2>2, <2>3, <2>5, <2>8 DEF GoReceive, ChanInv, ChanTypeOK
  <2> QED
    BY Zenon, <1>2, <2>4, <2>5, <2>6, <2>8, <2>9 DEF GoReceive, ChanInv, FifoExact
<1> QED
  BY Zenon, <1>1, <1>2 DEF GoReceive, At

\* Every call and every step of a goroutine is one of the above.
LEMMA StepKeeps ==
  ASSUME ChanInv, NEW p \in Procs, Call(p) \/ Step(p)
  PROVE  ChanInv'
<1> USE DEF At
<1>1. CASE Call(p)
  <2>1. ASSUME NEW op, NEW l \in Sending, CallSending(p, op, l) PROVE ChanInv'
    BY Zenon, <2>1, CallSendingKeeps
  <2>2. ASSUME NEW op, NEW l \in Other, CallOther(p, op, l) PROVE ChanInv'
    <3>1. /\ pc[p] \in Other /\ Goto(p, l)
          /\ UNCHANGED <<bufferSize, buffer, val, fate, history>>
      BY Zenon, <2>2, PositionFacts DEF CallOther, chan
    <3> QED
      BY Zenon, <2>2, <3>1, Quiet
  <2> QED
    BY Zenon, <1>1, <2>1, <2>2 DEF Call, Sending, Other
<1>2. ASSUME NEW l, Goto(p, l), UNCHANGED <<chan, val, fate, history>>,
             \/ pc[p] \in Sending /\ l \in Sending
             \/ pc[p] \in Other /\ l \in Other
             \/ l = "dead"
      PROVE  ChanInv'
  <2>1. UNCHANGED <<bufferSize, buffer, val, fate, history>>
    BY Zenon, <1>2 DEF chan
  <2> QED
    BY Zenon, <1>2, <2>1, Quiet
<1>3. CASE GoPanic(p)
  BY Zenon, <1>2, <1>3 DEF GoPanic
<1>4. CASE SendCheck(p)
  BY <1>2, <1>4, ReturnFalseKeeps DEF SendCheck, Sending
<1>5. CASE Send(p) \/ SendNonBlocking(p)
  BY Zenon, <1>3, <1>5, GoSendKeeps, ReturnFalseKeeps DEF Send, SendNonBlocking, Sending
<1>6. CASE Receive(p) \/ ReceiveNonBlocking(p)
  BY Zenon, <1>6, GoReceiveKeeps, ReturnFalseKeeps DEF Receive, ReceiveNonBlocking
<1>7. CASE CloseFlag(p) \/ CloseBuffer(p)
  <2>1. PICK l \in {"close_buffer", "idle"} :
          /\ Goto(p, l) /\ pc[p] \in {"close", "close_buffer"}
          /\ UNCHANGED <<bufferSize, buffer, val, fate, history>>
    BY Zenon, <1>7 DEF CloseFlag, CloseBuffer, chan
  <2>2. pc[p] \in Other /\ l \in Other
    BY Zenon, <2>1 DEF Other
  <2> QED
    BY Zenon, <2>1, <2>2, Quiet
<1>8. CASE SelectSendCheck(p)
  BY Zenon, <1>2, <1>8 DEF SelectSendCheck, Sending
<1>9. CASE SelectSend(p)
  BY Zenon, <1>2, <1>3, <1>9, GoSendKeeps DEF SelectSend, Sending
<1>10. CASE SelectReceive(p)
  BY Zenon, <1>2, <1>10, GoReceiveKeeps DEF SelectReceive, Sending
<1>11. CASE SelectEnd(p)
  BY Zenon, <1>2, <1>11, ReturnFalseKeeps DEF SelectEnd, Sending
<1> QED
  BY Zenon, <1>1, <1>4, <1>5, <1>6, <1>7, <1>8, <1>9, <1>10, <1>11 DEF Step

\* A new channel is empty.
LEMMA ChanInitial == ChanInit => ChanInv
<1> SUFFICES ASSUME ChanInit PROVE ChanInv
  BY Zenon
<1>1. bufferSize \in Nat
  BY GoChannelAssumption DEF ChanInit
<1>2. <<>> \in Seq(Values) /\ <<>> \o <<>> = <<>> /\ Len(<<>>) = 0 /\ DOMAIN <<>> = {}
  BY EmptySeq, ConcatEmptySeq
<1>3. ChanTypeOK
  BY Zenon, <1>1, <1>2, PositionFacts DEF ChanInit, ChanTypeOK
<1>4. Hands
  BY Zenon, PositionFacts DEF ChanInit, Hands
<1>5. FifoExact /\ AnswerTruthful
  BY Zenon, <1>2 DEF ChanInit, FifoExact, AnswerTruthful, IsInjective, Range
<1> QED
  BY <1>1, <1>2, <1>3, <1>4, <1>5 DEF ChanInv, ChanInit

\* The invariant holds throughout.
LEMMA ChanInvariant == ChanSpec => []ChanInv
<1>1. ChanInv /\ [ChanNext]_chanVars => ChanInv'
  <2> SUFFICES ASSUME ChanInv, [ChanNext]_chanVars
               PROVE  ChanInv'
    BY Zenon
  <2>1. CASE ChanNext
    BY Zenon, <2>1, StepKeeps DEF ChanNext
  <2>2. CASE UNCHANGED chanVars
    BY Zenon, <2>2 DEF chanVars, chan, history, ChanInv, ChanTypeOK, Hands, FifoExact, AnswerTruthful
  <2> QED
    BY Zenon, <2>1, <2>2
<1> QED
  BY ChanInitial, <1>1, PTL DEF ChanSpec

-----------------------------------------------------------------------------
\* Channel of coroutine.go, for any number of goroutines, any values and any
\* buffer size: values are received once each and in the order of the sends,
\* whatever Close, timeouts and Select do in between.
THEOREM DeliveryIsFifo == ChanSpec => []FifoExact
<1>1. ChanInv => FifoExact
  BY Zenon DEF ChanInv
<1> QED
  BY <1>1, ChanInvariant, PTL

\* Send, SendNonBlocking and Select, for the same: "sent" is reported for the
\* values that are in the channel's history and for no others.
THEOREM SendersAreTold == ChanSpec => []AnswerTruthful
<1>1. ChanInv => AnswerTruthful
  BY Zenon DEF ChanInv
<1> QED
  BY <1>1, ChanInvariant, PTL

-----------------------------------------------------------------------------
(* The nodes and their connections (NodeMesh).                             *)

\* The types the argument needs.
MeshTypeOK ==
  /\ nodes \in [Peers -> Conns \cup {NoConn}] /\ ID \in [Conns -> Peers]
  /\ link \in [Conns -> {"none", "up", "broken"}]
  /\ nodeClosed \in [Conns -> BOOLEAN] /\ loop \in [Conns -> LoopStates]

\* The table holds opened connections, under their own identifier.
TableSound == \A p \in Peers : nodes[p] # NoConn => ID[nodes[p]] = p /\ link[nodes[p]] # "none"

\* Only an opened connection has a receive loop, and the handler of MsgLeave
\* has closed it before it takes the identifier off the table.
LoopSound ==
  \A c \in Conns : /\ loop[c] # "none" => link[c] # "none"
                   /\ loop[c] = "delete" => nodeClosed[c]

MeshInv == MeshTypeOK /\ TableSound /\ LoopSound /\ UnregisteredIsClosed

-----------------------------------------------------------------------------
\* A step that opens nothing and keeps the table leaves every connection as
\* it was, or closed.
LEMMA TableKept ==
  ASSUME MeshInv, nodes' = nodes, ID' = ID,
         \A c \in Conns : link'[c] = "none" <=> link[c] = "none",
         \A c \in Conns : nodeClosed[c] => nodeClosed'[c]
  PROVE  TableSound' /\ UnregisteredIsClosed'
<1>1. TableSound'
  BY DEF MeshInv, MeshTypeOK, TableSound
<1>2. UnregisteredIsClosed'
  BY Zenon DEF MeshInv, UnregisteredIsClosed
<1> QED
  BY Zenon, <1>1, <1>2

\* ConnectToNode and handleIncoming: the connection that loses its entry has
\* the identifier of the new one.
LEMMA ConnectKeeps ==
  ASSUME MeshInv, NEW c \in Conns, Connect(c)
  PROVE  MeshInv'
<1> USE MeshAssumption
<1>1. MeshTypeOK'
  BY Zenon DEF Connect, Register, MeshInv, MeshTypeOK
<1>2. TableSound'
  BY DEF Connect, Register, MeshInv, MeshTypeOK, TableSound
<1>3. LoopSound'
  BY Zenon DEF Connect, MeshInv, MeshTypeOK, LoopSound
<1>4. UnregisteredIsClosed'
  <2> SUFFICES ASSUME NEW d \in Conns, link'[d] # "none", nodes'[ID[d]] # d
               PROVE  nodeClosed'[d] \/ \E e \in Conns \ {d} : link'[e] # "none" /\ ID[e] = ID[d]
    BY Zenon DEF UnregisteredIsClosed, Connect
  <2>1. d # c /\ link[d] # "none" /\ link'[c] # "none"
    BY Zenon DEF Connect, Register, MeshInv, MeshTypeOK
  <2>2. CASE ID[d] = ID[c]
    BY Zenon, <2>1, <2>2
  <2>3. CASE ID[d] # ID[c]
    <3>1. nodes[ID[d]] # d
      BY Zenon, <2>3 DEF Connect, Register, MeshInv, MeshTypeOK
    <3>2. \A e \in Conns : link[e] # "none" => link'[e] # "none"
      BY Zenon, <2>1 DEF Connect, MeshInv, MeshTypeOK
    <3> QED
      BY Zenon, <2>1, <3>1, <3>2 DEF MeshInv, UnregisteredIsClosed, Connect
  <2> QED
    BY Zenon, <2>2, <2>3
<1> QED
  BY Zenon, <1>1, <1>2, <1>3, <1>4 DEF MeshInv

\* receiveLoop and the environment: only the handler of MsgLeave touches the
\* table, and the connection it serves is closed by then.
LEMMA LoopKeeps ==
  ASSUME MeshInv, NEW c \in Conns, Decode(c) \/ LoopStep(c) \/ Break(c) \/ GrowStale(c)
  PROVE  MeshInv'
<1> USE MeshAssumption
<1>1. CASE Decode(c) \/ StartLoop(c) \/ LoopTop(c) \/ DecodeError(c) \/ HandleHeartbeat(c)
  <2>1. MeshTypeOK' /\ LoopSound'
    BY <1>1 DEF Decode, StartLoop, LoopTop, DecodeError, HandleHeartbeat, Move, LoopStates,
       MeshInv, MeshTypeOK, LoopSound
  <2>2. UNCHANGED <<nodes, ID, link, nodeClosed>>
    BY Zenon, <1>1 DEF Decode, StartLoop, LoopTop, DecodeError, HandleHeartbeat
  <2> QED
    BY Zenon, <2>1, <2>2, TableKept DEF MeshInv
<1>2. CASE LeaveClose(c)
  <2>1. MeshTypeOK' /\ LoopSound'
    BY Zenon, <1>2 DEF LeaveClose, Move, LoopStates, MeshInv, MeshTypeOK, LoopSound
  <2>2. \A d \in Conns : nodeClosed[d] => nodeClosed'[d]
    BY Zenon, <1>2 DEF LeaveClose, MeshInv, MeshTypeOK
  <2>3. UNCHANGED <<nodes, ID, link>>
    BY Zenon, <1>2 DEF LeaveClose
  <2> QED
    BY Zenon, <2>1, <2>2, <2>3, TableKept DEF MeshInv
<1>3. CASE LeaveDelete(c)
  <2>1. MeshTypeOK' /\ LoopSound'
    BY Zenon, <1>3 DEF LeaveDelete, Move, LoopStates, MeshInv, MeshTypeOK, LoopSound
  <2>2. TableSound'
    BY Zenon, <1>3 DEF LeaveDelete, MeshInv, MeshTypeOK, TableSound
  <2>3. nodeClosed[c] /\ link[c] # "none"
    BY Zenon, <1>3 DEF LeaveDelete, Move, MeshInv, LoopSound
  <2>4. ASSUME NEW d \in Conns, d # c, ID[d] # ID[c] PROVE nodes'[ID[d]] = nodes[ID[d]]
    BY Zenon, <1>3, <2>4 DEF LeaveDelete, MeshInv, MeshTypeOK
  <2>5. UnregisteredIsClosed'
    BY Zenon, <1>3, <2>3, <2>4 DEF LeaveDelete, MeshInv, UnregisteredIsClosed
  <2> QED
    BY Zenon, <2>1, <2>2, <2>5 DEF MeshInv
<1>4. CASE Break(c) \/ GrowStale(c)
  <2>1. MeshTypeOK' /\ LoopSound'
    BY Zenon, <1>4 DEF Break, GrowStale, MeshInv, MeshTypeOK, LoopSound
  <2>2. \A d \in Conns : link'[d] = "none" <=> link[d] = "none"
    BY Zenon, <1>4 DEF Break, GrowStale, MeshInv, MeshTypeOK
  <2>3. UNCHANGED <<nodes, ID, nodeClosed>>
    BY Zenon, <1>4 DEF Break, GrowStale
  <2> QED
    BY Zenon, <2>1, <2>2, <2>3, TableKept DEF MeshInv
<1> QED
  BY Zenon, <1>1, <1>2, <1>3, <1>4 DEF LoopStep

\* checkNodeHealth closes the connection of every entry it deletes.
LEMMA HealthKeeps ==
  ASSUME MeshInv, CheckNodeHealth
  PROVE  MeshInv'
<1> USE MeshAssumption
<1>1. Expired \subseteq Peers
  BY Zenon DEF Expired
<1> HIDE DEF Expired
<1>2. MeshTypeOK'
  BY Zenon DEF CheckNodeHealth, MeshInv, MeshTypeOK
<1>3. TableSound'
  BY Zenon, <1>1 DEF CheckNodeHealth, MeshInv, MeshTypeOK, TableSound
<1>4. LoopSound'
  BY Zenon DEF CheckNodeHealth, MeshInv, MeshTypeOK, LoopSound
<1>5. UnregisteredIsClosed'
  <2> SUFFICES ASSUME NEW c \in Conns, link[c] # "none", nodes'[ID[c]] # c
               PROVE  nodeClosed'[c] \/ \E d \in Conns \ {c} : link[d] # "none" /\ ID[d] = ID[c]
    BY Zenon DEF UnregisteredIsClosed, CheckNodeHealth
  <2>1. CASE nodes[ID[c]] = c
    <3>1. ID[c] \in Expired
      BY Zenon, <2>1 DEF CheckNodeHealth, MeshInv, MeshTypeOK
    <3> QED
      BY Zenon, <2>1, <3>1 DEF CheckNodeHealth
  <2>2. CASE nodes[ID[c]] # c
    <3>1. nodeClosed[c] \/ \E d \in Conns \ {c} : link[d] # "none" /\ ID[d] = ID[c]
      BY Zenon, <2>2 DEF MeshInv, UnregisteredIsClosed
    <3> QED
      BY Zenon, <3>1 DEF CheckNodeHealth
  <2> QED
    BY Zenon, <2>1, <2>2
<1> QED
  BY Zenon, <1>2, <1>3, <1>4, <1>5 DEF MeshInv

\* Shutdown closes connections and keeps the table.
LEMMA ShutdownKeeps ==
  ASSUME MeshInv, Shutdown
  PROVE  MeshInv'
<1>1. MeshTypeOK' /\ LoopSound'
  BY Zenon DEF Shutdown, MeshInv, MeshTypeOK, LoopSound
<1>2. \A c \in Conns : nodeClosed[c] => nodeClosed'[c]
  BY Zenon DEF Shutdown
<1>3. UNCHANGED <<nodes, ID, link>>
  BY Zenon DEF Shutdown
<1> QED
  BY Zenon, <1>1, <1>2, <1>3, TableKept DEF MeshInv

-----------------------------------------------------------------------------
\* ActorSystem.nodes, for any connections and identifiers: a connection that
\* leaves the table through MsgLeave or checkNodeHealth is closed, so none is
\* left open that Shutdown cannot reach, as long as identifiers are not reused.
THEOREM TableAndConnectionsAgree == MeshSpec => []UnregisteredIsClosed
<1>1. MeshInit => MeshInv
  BY Zenon, MeshAssumption DEF MeshInit, MeshInv, MeshTypeOK, LoopStates, TableSound, LoopSound,
     UnregisteredIsClosed
<1>2. MeshInv /\ [MeshNext]_meshVars => MeshInv'
  <2> SUFFICES ASSUME MeshInv, [MeshNext]_meshVars
               PROVE  MeshInv'
    BY Zenon
  <2>1. ASSUME NEW c \in Conns, Connect(c) PROVE MeshInv'
    BY Zenon, <2>1, ConnectKeeps
  <2>2. ASSUME NEW c \in Conns, Decode(c) \/ LoopStep(c) \/ Break(c) \/ GrowStale(c) PROVE MeshInv'
    BY Zenon, <2>2, LoopKeeps
  <2>3. CASE CheckNodeHealth
    BY Zenon, <2>3, HealthKeeps
  <2>4. CASE Shutdown
    BY Zenon, <2>4, ShutdownKeeps
  <2>5. CASE UNCHANGED meshVars
    BY Zenon, <2>5 DEF meshVars, MeshInv, MeshTypeOK, TableSound, LoopSound, UnregisteredIsClosed
  <2> QED
    BY Zenon, <2>1, <2>2, <2>3, <2>4, <2>5 DEF MeshNext
<1>3. MeshInv => UnregisteredIsClosed
  BY Zenon DEF MeshInv
<1> QED
  BY <1>1, <1>2, <1>3, PTL DEF MeshSpec
=============================================================================
