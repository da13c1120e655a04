------------------------- MODULE ActorSystemProofs --------------------------
(***************************************************************************)
(* For any actors, messages and mailbox size: an accepted message is in    *)
(* one place, and when an actor stops, the only messages accepted before   *)
(* its shutdown and left behind are those of the window in runActor.       *)
(***************************************************************************)
EXTENDS ActorSystem, SequenceTheorems, TLAPS

\* The types the argument needs.
TypeOK ==
  /\ status \in [Actors -> {"none", "starting", "running", "polling", "failed", "stopped"}]
  /\ closed \in [Actors -> BOOLEAN] /\ shutting \in [Actors -> BOOLEAN]
  /\ mailbox \in [Actors -> Seq(Msgs \cup {Shut})]
  /\ cur \in [Actors -> Msgs \cup {None}]
  /\ fate \in [Msgs -> {"fresh", "checked", "accepted", "refused", "full", "handled", "dead"}]
  /\ target \in [Msgs -> Actors \cup {None}]
  /\ early \in SUBSET Msgs /\ window \in SUBSET Msgs

Slots(a) == 1..Len(mailbox[a])

\* A mailbox holds accepted messages to its actor, each once, and not the one
\* at the actor's hand.
BoxSound(a) ==
  /\ \A i \in Slots(a) : mailbox[a][i] # Shut =>
       target[mailbox[a][i]] = a /\ fate[mailbox[a][i]] = "accepted" /\ cur[a] # mailbox[a][i]
  /\ \A i, j \in Slots(a) : mailbox[a][i] # Shut /\ mailbox[a][i] = mailbox[a][j] => i = j

\* The message at hand was accepted, and its actor runs.
HandSound(a) ==
  cur[a] # None => target[cur[a]] = a /\ fate[cur[a]] = "accepted" /\ status[a] = "running"

\* Every accepted message is in its target's mailbox or at its hand; a message
\* that is not yet delivered is not on record as accepted.
MsgSound(m) ==
  /\ fate[m] = "accepted" => /\ target[m] \in Actors
                             /\ cur[target[m]] = m \/ \E i \in Slots(target[m]) : mailbox[target[m]][i] = m
  /\ fate[m] = "checked" => target[m] \in Actors
  /\ fate[m] \in {"fresh", "checked"} => m \notin early

\* The shutdown message and a stop come after the closed flag, so what is
\* behind the shutdown message came after it too; what an actor that has seen
\* an empty mailbox finds in it now came in the window.
ShutSound(a) ==
  /\ shutting[a] \/ status[a] = "stopped" => closed[a]
  /\ \A i \in Slots(a) : mailbox[a][i] = Shut => closed[a]
  /\ \A i, j \in Slots(a) : i < j /\ mailbox[a][i] = Shut => mailbox[a][j] \notin early
  /\ status[a] = "polling" => \A i \in Slots(a) : mailbox[a][i] \in window \cup {Shut}

ActorInv ==
  /\ TypeOK
  /\ \A a \in Actors : BoxSound(a) /\ HandSound(a) /\ ShutSound(a)
  /\ \A m \in Msgs : MsgSound(m)
  /\ OnlyWindowIsLost

-----------------------------------------------------------------------------
\* Mailboxes are sequences.
LEMMA BoxFacts ==
  ASSUME TypeOK, NEW a \in Actors
  PROVE  /\ mailbox[a] \in Seq(Msgs \cup {Shut}) /\ Len(mailbox[a]) \in Nat
         /\ \A i \in Slots(a) : mailbox[a][i] \in Msgs \cup {Shut}
         /\ mailbox[a] = <<>> => Slots(a) = {}
<1>1. mailbox[a] \in Seq(Msgs \cup {Shut})
  BY Zenon DEF TypeOK
<1>2. Len(mailbox[a]) \in Nat /\ \A i \in Slots(a) : mailbox[a][i] \in Msgs \cup {Shut}
  BY Zenon, <1>1, LenProperties, ElementOfSeq DEF Slots
<1>3. mailbox[a] = <<>> => Slots(a) = {}
  BY EmptySeq DEF Slots
<1> QED
  BY Zenon, <1>1, <1>2, <1>3

\* A step that leaves an actor's own state alone, settles none of its messages
\* and neither backdates nor forgets one, keeps what is known of the actor.
LEMMA OtherKept ==
  ASSUME NEW b \in Actors, BoxSound(b), HandSound(b), ShutSound(b),
         mailbox'[b] = mailbox[b], cur'[b] = cur[b], status'[b] = status[b], closed'[b] = closed[b],
         shutting'[b] => shutting[b], target' = target,
         cur[b] # None => fate'[cur[b]] = fate[cur[b]],
         \A i \in Slots(b) :
           /\ mailbox[b][i] # Shut => fate'[mailbox[b][i]] = fate[mailbox[b][i]]
           /\ mailbox[b][i] \in early' => mailbox[b][i] \in early
           /\ mailbox[b][i] \in window => mailbox[b][i] \in window'
  PROVE  BoxSound(b)' /\ HandSound(b)' /\ ShutSound(b)'
<1>1. Slots(b)' = Slots(b)
  BY Zenon DEF Slots
<1>2. BoxSound(b)'
  BY <1>1 DEF BoxSound
<1>3. HandSound(b)'
  BY Zenon DEF HandSound
<1>4. ShutSound(b)'
  BY <1>1 DEF ShutSound
<1> QED
  BY Zenon, <1>2, <1>3, <1>4

\* Spawn, Start, PollEmpty, the two Shutdowns and the replies move no message.
LEMMA Still ==
  ASSUME ActorInv, TypeOK', UNCHANGED <<mailbox, cur, fate, target, early, window>>,
         \A a \in Actors :
           /\ cur[a] # None /\ status[a] = "running" => status'[a] = "running"
           /\ closed[a] \/ shutting'[a] => closed'[a]
           /\ status'[a] = "stopped" => status[a] = "stopped"
           /\ status'[a] = "polling" => status[a] = "polling" \/ mailbox[a] = <<>>
  PROVE  ActorInv'
<1>1. ASSUME NEW a \in Actors PROVE BoxSound(a)' /\ HandSound(a)'
  BY DEF ActorInv, BoxSound, HandSound, Slots
<1>2. ASSUME NEW a \in Actors PROVE ShutSound(a)'
  BY Zenon, BoxFacts DEF ActorInv, ShutSound, Slots
<1>3. ASSUME NEW m \in Msgs PROVE MsgSound(m)'
  BY Zenon DEF ActorInv, MsgSound, Slots
<1>4. OnlyWindowIsLost'
  <2> SUFFICES ASSUME NEW m \in early \ window, status'[target[m]] = "stopped"
               PROVE  fate[m] # "accepted"
    BY Zenon DEF OnlyWindowIsLost
  <2>1. CASE fate[m] = "accepted"
    <3>1. target[m] \in Actors
      BY Zenon, <2>1 DEF ActorInv, TypeOK, MsgSound
    <3> QED
      BY Zenon, <3>1 DEF ActorInv, OnlyWindowIsLost
  <2> QED
    BY Zenon, <2>1
<1> QED
  BY Zenon, <1>1, <1>2, <1>3, <1>4 DEF ActorInv

\* The same, action by action.
LEMMA StillActions ==
  ASSUME ActorInv,
         \/ \E a \in Actors : Spawn(a) \/ Start(a) \/ PollEmpty(a) \/ Shutdown(a)
         \/ \E m \in Requests : RequestTimeout(m) \/ RequestReturn(m)
         \/ SystemStep
  PROVE  ActorInv'
<1> USE DEF ActorInv, actorVars, msgVars
<1>1. ASSUME NEW a \in Actors, Spawn(a) \/ Start(a) \/ PollEmpty(a) PROVE ActorInv'
  <2>1. PICK s \in {"starting", "running", "failed", "polling"} :
          /\ status' = [status EXCEPT ![a] = s]
          /\ s = "polling" => cur[a] = None /\ mailbox[a] = <<>>
          /\ s # "polling" => status[a] \in {"none", "starting"}
    BY Zenon, <1>1 DEF Spawn, Start, PollEmpty, Idle
  <2>2. UNCHANGED <<closed, mailbox, shutting, cur, fate, target, early, window>>
    BY Zenon, <1>1 DEF Spawn, Start, PollEmpty
  <2>3. \A b \in Actors : status'[b] = IF b = a THEN s ELSE status[b]
    BY Zenon, <2>1 DEF TypeOK
  <2>4. TypeOK'
    BY Zenon, <2>1, <2>2 DEF TypeOK
  <2>5. \A b \in Actors : shutting[b] => closed[b]
    BY Zenon DEF ShutSound
  <2>6. \A b \in Actors :
          /\ cur[b] # None /\ status[b] = "running" => status'[b] = "running"
          /\ closed[b] \/ shutting'[b] => closed'[b]
          /\ status'[b] = "stopped" => status[b] = "stopped"
          /\ status'[b] = "polling" => status[b] = "polling" \/ mailbox[b] = <<>>
    BY Zenon, <2>1, <2>2, <2>3, <2>5
  <2> QED
    BY Zenon, <2>2, <2>4, <2>6, Still
<1>2. ASSUME NEW a \in Actors, SetClosed(a),
             UNCHANGED <<status, mailbox, cur, fate, target, early, window>>
      PROVE  ActorInv'
  <2>1. TypeOK'
    BY Zenon, <1>2 DEF SetClosed, TypeOK
  <2>2. \A b \in Actors : /\ closed'[b] = IF b = a THEN TRUE ELSE closed[b]
                          /\ b # a => shutting'[b] = shutting[b]
    BY Zenon, <1>2 DEF SetClosed, TypeOK
  <2>3. \A b \in Actors : closed[b] \/ shutting'[b] => closed'[b]
    BY Zenon, <2>2 DEF ShutSound
  <2> QED
    BY Zenon, <1>2, <2>1, <2>3, Still
<1>3. ASSUME UNCHANGED <<status, closed, mailbox, shutting, cur, fate, target, early, window>>
      PROVE  ActorInv'
  <2>1. TypeOK' /\ \A b \in Actors : closed[b] \/ shutting'[b] => closed'[b]
    BY Zenon, <1>3 DEF TypeOK, ShutSound
  <2> QED
    BY Zenon, <1>3, <2>1, Still
<1>4. ASSUME NEW a \in Actors, Shutdown(a) \/ SystemShutdownActor(a) PROVE ActorInv'
  BY Zenon, <1>2, <1>4 DEF Shutdown, SystemShutdownActor
<1>5. ASSUME NEW m \in Requests, RequestTimeout(m) \/ RequestReturn(m) PROVE ActorInv'
  BY Zenon, <1>3, <1>5 DEF RequestTimeout, RequestReturn
<1>6. CASE SystemShutdown
  BY Zenon, <1>3, <1>6 DEF SystemShutdown
<1> QED
  BY Zenon, <1>1, <1>4, <1>5, <1>6 DEF SystemStep

\* Send, Request and handleNetworkMessage look at the actor: the message is
\* in no mailbox yet.
LEMMA SendCheckKeeps ==
  ASSUME ActorInv, NEW m \in Msgs, NEW a \in Actors, SendCheck(m, a)
  PROVE  ActorInv'
<1> USE DEF ActorInv
<1>1. PICK f \in {"refused", "checked", "dead"} : fate' = [fate EXCEPT ![m] = f]
  BY Zenon DEF SendCheck
<1>2. /\ fate[m] = "fresh" /\ target' = [target EXCEPT ![m] = a]
      /\ UNCHANGED <<status, closed, mailbox, shutting, cur, early, window>>
  BY Zenon DEF SendCheck, actorVars
<1>3. TypeOK'
  BY Zenon, <1>1, <1>2 DEF TypeOK
<1>4. \A n \in Msgs : n # m => fate'[n] = fate[n] /\ target'[n] = target[n]
  BY Zenon, <1>1, <1>2 DEF TypeOK
<1>5. fate'[m] = f /\ target'[m] = a
  BY Zenon, <1>1, <1>2 DEF TypeOK
<1>6. ASSUME NEW b \in Actors PROVE BoxSound(b)'
  BY <1>2, <1>4, BoxFacts DEF BoxSound, Slots
<1>7. ASSUME NEW b \in Actors PROVE HandSound(b)'
  BY <1>2, <1>4 DEF HandSound, TypeOK
<1>8. ASSUME NEW b \in Actors PROVE ShutSound(b)'
  BY Zenon, <1>2 DEF ShutSound, Slots
<1>9. ASSUME NEW n \in Msgs PROVE MsgSound(n)'
  BY <1>2, <1>4, <1>5 DEF MsgSound, Slots
<1>10. OnlyWindowIsLost'
  BY <1>2, <1>4, <1>5 DEF OnlyWindowIsLost, TypeOK
<1> QED
  BY Zenon, <1>3, <1>6, <1>7, <1>8, <1>9, <1>10

\* The closed flag after an empty mailbox: what is in the mailbox now came in
\* the window, so nothing else is left behind.
LEMMA PollFlagKeeps ==
  ASSUME ActorInv, NEW a \in Actors, PollFlag(a)
  PROVE  ActorInv'
<1> USE DEF ActorInv
<1>0. /\ status[a] = "polling"
      /\ UNCHANGED <<closed, mailbox, shutting, cur, fate, target, early>>
  BY Zenon DEF PollFlag
<1>1. cur[a] = None
  BY Zenon, <1>0 DEF HandSound
<1>2. CASE closed[a] /\ status' = [status EXCEPT ![a] = "stopped"] /\ window' = window
  <2>1. TypeOK' /\ \A b \in Actors : status'[b] = IF b = a THEN "stopped" ELSE status[b]
    BY Zenon, <1>0, <1>2 DEF TypeOK
  <2>2. ASSUME NEW b \in Actors PROVE BoxSound(b)' /\ HandSound(b)'
    BY <1>0, <1>1, <2>1 DEF BoxSound, HandSound, Slots
  <2>3. ASSUME NEW b \in Actors PROVE ShutSound(b)'
    BY <1>0, <1>2, <2>1 DEF ShutSound, Slots
  <2>4. ASSUME NEW m \in Msgs PROVE MsgSound(m)'
    BY Zenon, <1>0 DEF MsgSound, Slots
  <2>5. OnlyWindowIsLost'
    <3> SUFFICES ASSUME NEW m \in early \ window, status'[target[m]] = "stopped", fate[m] = "accepted"
                 PROVE  FALSE
      BY Zenon, <1>0, <1>2 DEF OnlyWindowIsLost
    <3>1. m \in Msgs /\ target[m] \in Actors
      BY Zenon DEF TypeOK, MsgSound
    <3>2. CASE target[m] # a
      BY Zenon, <2>1, <3>1, <3>2 DEF OnlyWindowIsLost
    <3>3. CASE target[m] = a
      <4>1. PICK i \in Slots(a) : mailbox[a][i] = m
        BY Zenon, <1>1, <3>1, <3>3, ActorAssumption DEF MsgSound
      <4> QED
        BY Zenon, <1>0, <3>1, <4>1, ActorAssumption DEF ShutSound
    <3> QED
      BY Zenon, <3>2, <3>3
  <2> QED
    BY Zenon, <2>1, <2>2, <2>3, <2>4, <2>5
<1>3. CASE /\ status' = [status EXCEPT ![a] = "running"]
           /\ window' = {m \in window : target[m] # a}
  <2>1. TypeOK' /\ \A b \in Actors : status'[b] = IF b = a THEN "running" ELSE status[b]
    BY Zenon, <1>0, <1>3 DEF TypeOK
  <2>2. ASSUME NEW b \in Actors PROVE BoxSound(b)' /\ HandSound(b)'
    BY <1>0, <1>1, <2>1 DEF BoxSound, HandSound, Slots
  <2>3. ASSUME NEW b \in Actors PROVE ShutSound(b)'
    <3>1. ASSUME b # a, NEW i \in Slots(b), mailbox[b][i] \in window PROVE mailbox[b][i] \in window' \cup {Shut}
      BY Zenon, <1>3, <3>1 DEF BoxSound
    <3> QED
      BY Zenon, <1>0, <2>1, <3>1 DEF ShutSound, Slots
  <2>4. ASSUME NEW m \in Msgs PROVE MsgSound(m)'
    BY Zenon, <1>0 DEF MsgSound, Slots
  <2>5. OnlyWindowIsLost'
    <3> SUFFICES ASSUME NEW m \in early, m \notin window', status'[target[m]] = "stopped", fate[m] = "accepted"
                 PROVE  FALSE
      BY Zenon, <1>0 DEF OnlyWindowIsLost
    <3>1. m \in Msgs /\ target[m] \in Actors
      BY Zenon DEF TypeOK, MsgSound
    <3>2. target[m] # a /\ status[target[m]] = "stopped"
      BY Zenon, <2>1, <3>1
    <3>3. m \notin window
      BY Zenon, <1>3, <3>2
    <3> QED
      BY Zenon, <3>2, <3>3 DEF OnlyWindowIsLost
  <2> QED
    BY Zenon, <2>1, <2>2, <2>3, <2>4, <2>5
<1> QED
  BY Zenon, <1>2, <1>3 DEF PollFlag, SeesClosed

\* HandleMessage settles the message at hand, which is in no mailbox.
LEMMA HandleKeeps ==
  ASSUME ActorInv, NEW a \in Actors, Handle(a)
  PROVE  ActorInv'
<1> USE DEF ActorInv
<1> DEFINE n == cur[a]
<1>0. /\ n \in Msgs /\ target[n] = a
      /\ UNCHANGED <<status, closed, mailbox, shutting, target, early, window>>
  BY DEF Handle, TypeOK, HandSound
<1>1. PICK f \in {"handled", "dead"} : fate' = [fate EXCEPT ![n] = f]
  BY Zenon DEF Handle
<1>2. TypeOK'
  BY Zenon, <1>0, <1>1 DEF Handle, TypeOK
<1>3. fate'[n] = f /\ \A m \in Msgs : m # n => fate'[m] = fate[m]
  BY Zenon, <1>0, <1>1 DEF TypeOK
<1>4. cur'[a] = None /\ \A b \in Actors \ {a} : cur'[b] = cur[b]
  BY Zenon DEF Handle, TypeOK
<1>5. ASSUME NEW b \in Actors PROVE BoxSound(b)'
  <2>1. ASSUME NEW i \in Slots(b), mailbox[b][i] # Shut PROVE mailbox[b][i] \in Msgs /\ mailbox[b][i] # n
    BY <1>0, <2>1, BoxFacts DEF BoxSound
  <2> QED
    BY <1>0, <1>3, <1>4, <2>1, ActorAssumption DEF BoxSound, Slots
<1>6. ASSUME NEW b \in Actors PROVE HandSound(b)'
  <2>1. CASE b # a /\ cur[b] # None
    <3>1. cur'[b] = cur[b] /\ cur[b] \in Msgs
      BY Zenon, <1>4, <2>1 DEF TypeOK
    <3>2. target[cur[b]] = b /\ fate[cur[b]] = "accepted" /\ status[b] = "running"
      BY Zenon, <2>1 DEF HandSound
    <3>3. cur[b] # n
      BY Zenon, <1>0, <2>1, <3>2
    <3>4. fate'[cur[b]] = "accepted"
      BY ONLY <1>3, <3>1, <3>2, <3>3
    <3> QED
      BY ONLY <1>0, <3>1, <3>2, <3>4 DEF HandSound
  <2> QED
    BY Zenon, <1>4, <2>1 DEF HandSound
<1>7. ASSUME NEW b \in Actors PROVE ShutSound(b)'
  BY Zenon, <1>0 DEF ShutSound, Slots
<1>8. ASSUME NEW m \in Msgs PROVE MsgSound(m)'
  <2>1. CASE m = n
    <3>1. fate[n] = "accepted"
      BY Zenon, <1>0, ActorAssumption DEF HandSound
    <3> QED
      BY Zenon, <1>0, <1>3, <2>1 DEF MsgSound
  <2>2. CASE m # n
    BY Zenon, <1>0, <1>3, <1>4, <2>2 DEF MsgSound, Slots
  <2> QED
    BY Zenon, <2>1, <2>2
<1>9. OnlyWindowIsLost'
  BY Zenon, <1>0, <1>3 DEF OnlyWindowIsLost, TypeOK
<1> QED
  BY Zenon, <1>2, <1>5, <1>6, <1>7, <1>8, <1>9

-----------------------------------------------------------------------------
\* A mailbox that has taken one more message.
LEMMA BoxAfterAppend ==
  ASSUME TypeOK, NEW a \in Actors, NEW x \in Msgs \cup {Shut},
         mailbox' = [mailbox EXCEPT ![a] = Append(@, x)]
  PROVE  /\ mailbox' \in [Actors -> Seq(Msgs \cup {Shut})]
         /\ \A b \in Actors \ {a} : mailbox'[b] = mailbox[b] /\ Slots(b)' = Slots(b)
         /\ \E k \in Nat : /\ k \notin Slots(a) /\ Slots(a)' = Slots(a) \cup {k}
                           /\ mailbox'[a][k] = x
                           /\ \A i \in Slots(a) : i < k /\ mailbox'[a][i] = mailbox[a][i]
<1> DEFINE s == mailbox[a]
<1>1. s \in Seq(Msgs \cup {Shut}) /\ Len(s) \in Nat
  BY Zenon, BoxFacts
<1>2. mailbox'[a] = Append(s, x) /\ \A b \in Actors \ {a} : mailbox'[b] = mailbox[b]
  BY Zenon DEF TypeOK
<1>3. /\ Append(s, x) \in Seq(Msgs \cup {Shut}) /\ Len(Append(s, x)) = Len(s) + 1
      /\ \A i \in 1..Len(s) : Append(s, x)[i] = s[i]
      /\ Append(s, x)[Len(s) + 1] = x
  BY <1>1, AppendProperties
<1>4. mailbox' \in [Actors -> Seq(Msgs \cup {Shut})]
  BY Zenon, <1>3 DEF TypeOK
<1>5. \A b \in Actors \ {a} : Slots(b)' = Slots(b)
  BY Zenon, <1>2 DEF Slots
<1>6. Slots(a)' = 1..(Len(s) + 1) /\ Slots(a) = 1..Len(s)
  BY Zenon, <1>2, <1>3 DEF Slots
<1>7. /\ Len(s) + 1 \in Nat /\ Len(s) + 1 \notin 1..Len(s)
      /\ 1..(Len(s) + 1) = (1..Len(s)) \cup {Len(s) + 1}
      /\ \A i \in 1..Len(s) : i < Len(s) + 1
  BY <1>1
<1> DEFINE k == Len(s) + 1
<1>8. /\ k \in Nat /\ k \notin Slots(a) /\ Slots(a)' = Slots(a) \cup {k}
      /\ mailbox'[a][k] = x
      /\ \A i \in Slots(a) : i < k /\ mailbox'[a][i] = mailbox[a][i]
  BY Zenon, <1>2, <1>3, <1>6, <1>7
<1> HIDE DEF k
<1> QED
  BY Zenon, <1>2, <1>4, <1>5, <1>8

\* A mailbox whose first message has been taken.
LEMMA BoxAfterTail ==
  ASSUME TypeOK, NEW a \in Actors, mailbox[a] # <<>>,
         mailbox' = [mailbox EXCEPT ![a] = Tail(mailbox[a])]
  PROVE  /\ mailbox' \in [Actors -> Seq(Msgs \cup {Shut})]
         /\ \A b \in Actors \ {a} : mailbox'[b] = mailbox[b] /\ Slots(b)' = Slots(b)
         /\ 1 \in Slots(a) /\ Head(mailbox[a]) = mailbox[a][1]
         /\ \A i \in Slots(a)' : i + 1 \in Slots(a) /\ mailbox'[a][i] = mailbox[a][i + 1]
         /\ \A i \in Slots(a) : i # 1 => i - 1 \in Slots(a)' /\ mailbox'[a][i - 1] = mailbox[a][i]
<1> DEFINE s == mailbox[a]
<1>1. s \in Seq(Msgs \cup {Shut}) /\ Len(s) \in Nat /\ Len(s) # 0
  BY Zenon, BoxFacts, EmptySeq
<1>2. mailbox'[a] = Tail(s) /\ \A b \in Actors \ {a} : mailbox'[b] = mailbox[b]
  BY Zenon DEF TypeOK
<1>3. /\ Tail(s) \in Seq(Msgs \cup {Shut}) /\ Len(Tail(s)) = Len(s) - 1
      /\ \A i \in 1..Len(Tail(s)) : Tail(s)[i] = s[i + 1]
  BY Zenon, <1>1, HeadTailProperties
<1>4. mailbox' \in [Actors -> Seq(Msgs \cup {Shut})]
  BY Zenon, <1>3 DEF TypeOK
<1>5. \A b \in Actors \ {a} : Slots(b)' = Slots(b)
  BY Zenon, <1>2 DEF Slots
<1>6. Slots(a)' = 1..(Len(s) - 1) /\ Slots(a) = 1..Len(s)
  BY Zenon, <1>2, <1>3 DEF Slots
<1>7. 1 \in 1..Len(s) /\ Head(s) = s[1]
  BY <1>1
<1>8. ASSUME NEW i \in 1..(Len(s) - 1)
      PROVE  i + 1 \in 1..Len(s) /\ mailbox'[a][i] = s[i + 1]
  <2> HIDE DEF s
  <2>1. i + 1 \in 1..Len(s)
    BY <1>1
  <2>2. Tail(s)[i] = s[i + 1]
    BY Zenon, <1>3
  <2> QED
    BY Zenon, <1>2, <2>1, <2>2
<1>9. ASSUME NEW i \in 1..Len(s), i # 1
      PROVE  i - 1 \in 1..(Len(s) - 1) /\ mailbox'[a][i - 1] = s[i]
  <2>1. i - 1 \in 1..(Len(s) - 1) /\ (i - 1) + 1 = i
    BY <1>1, <1>9
  <2> QED
    BY Zenon, <1>8, <2>1
<1> QED
  BY Zenon, <1>2, <1>4, <1>5, <1>6, <1>7, <1>8, <1>9

-----------------------------------------------------------------------------
(* The actions that put a message into a mailbox or take one out of it.    *)
\* deliver: a message goes to the end of its target's mailbox; it counts as
\* accepted before the shutdown only if no shutdown message is before it.
LEMMA DeliverKeeps ==
  ASSUME ActorInv, NEW m \in Msgs, Deliver(m)
  PROVE  ActorInv'
<1> USE DEF ActorInv
<1>0. PICK a \in Actors : a = target[m]
  BY Zenon DEF Deliver, MsgSound
<1>1. /\ fate[m] = "checked" /\ target[m] = a /\ m \notin early /\ m # Shut
      /\ UNCHANGED <<status, closed, shutting, cur, target>>
  BY Zenon, <1>0, ActorAssumption DEF Deliver, MsgSound
<1>2. PICK f \in {"accepted", "full"} : fate' = [fate EXCEPT ![m] = f]
  BY Zenon DEF Deliver
<1>3. fate'[m] = f /\ \A n \in Msgs : n # m => fate'[n] = fate[n]
  BY Zenon, <1>2 DEF TypeOK
<1>4. \A b \in Actors : /\ cur[b] # m
                        /\ \A i \in Slots(b) : mailbox[b][i] # m
  BY <1>1, ActorAssumption DEF BoxSound, HandSound
<1>5. ASSUME NEW b \in Actors PROVE HandSound(b)'
  BY <1>1, <1>3, <1>4 DEF HandSound, TypeOK
<1>6. CASE fate' = [fate EXCEPT ![m] = "full"] /\ UNCHANGED <<mailbox, early, window>>
  <2>0. fate'[m] = "full"
    BY Zenon, <1>6 DEF TypeOK
  <2>1. TypeOK'
    BY Zenon, <1>1, <1>2, <1>6 DEF TypeOK
  <2>2. ASSUME NEW b \in Actors PROVE BoxSound(b)'
    BY <1>1, <1>3, <1>4, <1>6, BoxFacts DEF BoxSound, Slots
  <2>3. ASSUME NEW b \in Actors PROVE ShutSound(b)'
    BY Zenon, <1>1, <1>6 DEF ShutSound, Slots
  <2>4. ASSUME NEW n \in Msgs PROVE MsgSound(n)'
    BY Zenon, <1>1, <1>3, <1>6, <2>0 DEF MsgSound, Slots
  <2>5. OnlyWindowIsLost'
    BY Zenon, <1>1, <1>3, <1>6, <2>0 DEF OnlyWindowIsLost, TypeOK
  <2> QED
    BY Zenon, <1>5, <2>1, <2>2, <2>3, <2>4, <2>5
<1>7. CASE /\ mailbox' = [mailbox EXCEPT ![a] = Append(@, m)]
           /\ fate' = [fate EXCEPT ![m] = "accepted"]
           /\ early' = IF closed[a] THEN early ELSE early \cup {m}
           /\ window' = IF status[a] = "polling" THEN window \cup {m} ELSE window
  <2>0. fate'[m] = "accepted"
    BY Zenon, <1>7 DEF TypeOK
  <2>1. /\ mailbox' \in [Actors -> Seq(Msgs \cup {Shut})]
        /\ \A b \in Actors \ {a} : mailbox'[b] = mailbox[b] /\ Slots(b)' = Slots(b)
        /\ \E k \in Nat : /\ k \notin Slots(a) /\ Slots(a)' = Slots(a) \cup {k}
                          /\ mailbox'[a][k] = m
                          /\ \A i \in Slots(a) : i < k /\ mailbox'[a][i] = mailbox[a][i]
    <3>1. /\ TypeOK /\ a \in Actors /\ m \in Msgs \cup {Shut}
          /\ mailbox' = [mailbox EXCEPT ![a] = Append(@, m)]
      BY Zenon, <1>7
    <3> QED
      BY ONLY <3>1, BoxAfterAppend
  <2>2. PICK k \in Nat : /\ k \notin Slots(a) /\ Slots(a)' = Slots(a) \cup {k}
                         /\ mailbox'[a][k] = m
                         /\ \A i \in Slots(a) : i < k /\ mailbox'[a][i] = mailbox[a][i]
    BY Zenon, <2>1
  <2>3. TypeOK'
    BY <1>1, <1>2, <1>7, <2>1 DEF TypeOK
  <2>3a. ASSUME NEW b \in Actors, b # a PROVE BoxSound(b)' /\ ShutSound(b)'
    <3>1. \A i \in Slots(b) :
            /\ mailbox[b][i] # Shut => fate'[mailbox[b][i]] = fate[mailbox[b][i]]
            /\ mailbox[b][i] \in early' => mailbox[b][i] \in early
            /\ mailbox[b][i] \in window => mailbox[b][i] \in window'
      <4>1. \A i \in Slots(b) : mailbox[b][i] # m /\ mailbox[b][i] \in Msgs \cup {Shut}
        BY Zenon, <1>4, BoxFacts
      <4> QED
        BY Zenon, <1>3, <1>7, <4>1
    <3>2. cur[b] # None => fate'[cur[b]] = fate[cur[b]]
      BY Zenon, <1>3, <1>4 DEF TypeOK
    <3>3. BoxSound(b) /\ HandSound(b) /\ ShutSound(b) /\ b \in Actors
      BY Zenon
    <3>4. /\ mailbox'[b] = mailbox[b] /\ cur'[b] = cur[b] /\ status'[b] = status[b]
          /\ closed'[b] = closed[b] /\ shutting'[b] = shutting[b] /\ target' = target
      BY Zenon, <1>1, <2>1, <2>3a
    <3> QED
      BY ONLY <3>1, <3>2, <3>3, <3>4, OtherKept
  <2>4. ASSUME NEW b \in Actors PROVE BoxSound(b)'
    <3>1. CASE b # a
      BY Zenon, <2>3a, <3>1
    <3>2. CASE b = a
      <4>0. /\ BoxSound(a) /\ target[m] = a /\ cur[a] # m
            /\ \A i \in Slots(a) : mailbox[a][i] \in Msgs \cup {Shut} /\ mailbox[a][i] # m
        BY Zenon, <1>1, <1>4, BoxFacts
      <4>1. \A i \in Slots(a) : mailbox[a][i] # Shut =>
              target[mailbox[a][i]] = a /\ fate'[mailbox[a][i]] = "accepted" /\ cur[a] # mailbox[a][i]
        BY ONLY <1>3, <4>0 DEF BoxSound
      <4>2. \A i \in Slots(a)' : mailbox'[a][i] # Shut =>
              target[mailbox'[a][i]] = a /\ fate'[mailbox'[a][i]] = "accepted" /\ cur[a] # mailbox'[a][i]
        BY ONLY <2>0, <2>2, <4>0, <4>1
      <4>3. \A i, j \in Slots(a)' : mailbox'[a][i] # Shut /\ mailbox'[a][i] = mailbox'[a][j] => i = j
        BY ONLY <2>2, <4>0 DEF BoxSound
      <4> QED
        BY <1>1, <3>2, <4>2, <4>3 DEF BoxSound
    <3> QED
      BY Zenon, <3>1, <3>2
  <2>5. ASSUME NEW b \in Actors PROVE ShutSound(b)'
    <3>1. CASE b # a
      BY Zenon, <2>3a, <3>1
    <3>2. CASE b = a
      <4>1. \A i \in Slots(a)' : mailbox'[a][i] = Shut => closed[a] /\ i \in Slots(a) /\ mailbox[a][i] = Shut
        BY Zenon, <1>1, <2>2 DEF ShutSound
      <4>2. closed[a] => early' = early
        BY Zenon, <1>7
      <4>3. ASSUME NEW i \in Slots(a)', NEW j \in Slots(a)', i < j, mailbox'[a][i] = Shut
            PROVE  mailbox'[a][j] \notin early'
        <5>1. CASE j = k
          BY Zenon, <1>1, <2>2, <4>1, <4>2, <4>3, <5>1
        <5>2. CASE j # k
          <6>1. i \in Slots(a) /\ j \in Slots(a) /\ mailbox[a][i] = Shut /\ mailbox'[a][j] = mailbox[a][j]
            BY Zenon, <2>2, <4>1, <4>3, <5>2
          <6>2. early' = early
            BY Zenon, <4>1, <4>2, <4>3
          <6>3. mailbox[a][j] \notin early
            BY Zenon, <1>1, <4>3, <6>1 DEF ShutSound
          <6> QED
            BY Zenon, <6>1, <6>2, <6>3
        <5> QED
          BY Zenon, <5>1, <5>2
      <4>4. ASSUME status[a] = "polling", NEW i \in Slots(a)' PROVE mailbox'[a][i] \in window' \cup {Shut}
        <5>1. m \in window' /\ window \subseteq window'
          BY Zenon, <1>7, <4>4
        <5>2. \A j \in Slots(a) : mailbox[a][j] \in window \cup {Shut}
          BY Zenon, <1>1, <4>4 DEF ShutSound
        <5>3. CASE i = k
          BY Zenon, <2>2, <5>1, <5>3
        <5>4. CASE i # k
          BY Zenon, <2>2, <5>1, <5>2, <5>4
        <5> QED
          BY Zenon, <5>3, <5>4
      <4>5. shutting[a] \/ status[a] = "stopped" => closed[a]
        BY Zenon, <1>1 DEF ShutSound
      <4> QED
        BY Zenon, <1>1, <3>2, <4>1, <4>3, <4>4, <4>5 DEF ShutSound
    <3> QED
      BY Zenon, <3>1, <3>2
  <2>6. ASSUME NEW n \in Msgs PROVE MsgSound(n)'
    <3>1. CASE n = m
      BY Zenon, <1>1, <2>0, <2>2, <3>1 DEF MsgSound
    <3>2. CASE n # m
      <4>1. n \in early' => n \in early
        BY Zenon, <1>7, <3>2
      <4>2. ASSUME NEW b \in Actors, NEW i \in Slots(b), mailbox[b][i] = n
            PROVE  \E j \in Slots(b)' : mailbox'[b][j] = n
        <5>1. i \in Slots(b)' /\ mailbox'[b][i] = n
          BY Zenon, <2>1, <2>2, <4>2
        <5> QED
          BY Zenon, <5>1
      <4> QED
        BY Zenon, <1>1, <1>3, <3>2, <4>1, <4>2 DEF MsgSound
    <3> QED
      BY Zenon, <3>1, <3>2
  <2>7. OnlyWindowIsLost'
    <3>1. status[a] = "stopped" => closed[a]
      BY Zenon, <1>1 DEF ShutSound
    <3> QED
      BY <1>1, <1>3, <1>7, <3>1 DEF OnlyWindowIsLost, TypeOK
  <2> QED
    BY Zenon, <1>5, <2>3, <2>4, <2>5, <2>6, <2>7
<1> QED
  BY Zenon, <1>0, <1>6, <1>7 DEF Deliver

\* ActorRef.Shutdown delivers its message, or finds the mailbox full.
LEMMA ShutdownDeliverKeeps ==
  ASSUME ActorInv, NEW a \in Actors, ShutdownDeliver(a)
  PROVE  ActorInv'
<1> USE DEF ActorInv
<1>1. /\ closed[a] /\ shutting' = [shutting EXCEPT ![a] = FALSE]
      /\ UNCHANGED <<status, closed, cur, fate, target, early, window>>
  BY Zenon DEF ShutdownDeliver, ShutSound, msgVars
<1>2. \A b \in Actors : shutting'[b] => shutting[b]
  BY Zenon, <1>1 DEF TypeOK
<1>3. CASE mailbox' = mailbox
  <2>1. TypeOK'
    BY Zenon, <1>1, <1>3 DEF TypeOK
  <2>2. \A b \in Actors : closed[b] \/ shutting'[b] => closed'[b]
    BY Zenon, <1>1, <1>2 DEF ShutSound
  <2> QED
    BY Zenon, <1>1, <1>3, <2>1, <2>2, Still
<1>4. CASE mailbox' = [mailbox EXCEPT ![a] = Append(@, Shut)]
  <2>1. /\ mailbox' \in [Actors -> Seq(Msgs \cup {Shut})]
        /\ \A b \in Actors \ {a} : mailbox'[b] = mailbox[b] /\ Slots(b)' = Slots(b)
        /\ \E k \in Nat : /\ k \notin Slots(a) /\ Slots(a)' = Slots(a) \cup {k}
                          /\ mailbox'[a][k] = Shut
                          /\ \A i \in Slots(a) : i < k /\ mailbox'[a][i] = mailbox[a][i]
    <3>1. /\ TypeOK /\ a \in Actors /\ Shut \in Msgs \cup {Shut}
          /\ mailbox' = [mailbox EXCEPT ![a] = Append(@, Shut)]
      BY Zenon, <1>4
    <3> QED
      BY ONLY <3>1, BoxAfterAppend
  <2>2. PICK k \in Nat : /\ k \notin Slots(a) /\ Slots(a)' = Slots(a) \cup {k}
                         /\ mailbox'[a][k] = Shut
                         /\ \A i \in Slots(a) : i < k /\ mailbox'[a][i] = mailbox[a][i]
    BY Zenon, <2>1
  <2>3. TypeOK'
    BY Zenon, <1>1, <2>1 DEF TypeOK
  <2>3a. ASSUME NEW b \in Actors, b # a PROVE BoxSound(b)' /\ HandSound(b)' /\ ShutSound(b)'
    <3>1. BoxSound(b) /\ HandSound(b) /\ ShutSound(b) /\ b \in Actors
      BY Zenon
    <3>2. /\ mailbox'[b] = mailbox[b]
          /\ shutting'[b] => shutting[b]
          /\ UNCHANGED <<status, closed, cur, fate, target, early, window>>
      BY Zenon, <1>1, <1>2, <2>1, <2>3a
    <3> QED
      BY ONLY <3>1, <3>2, OtherKept
  <2>4. ASSUME NEW b \in Actors PROVE BoxSound(b)' /\ HandSound(b)'
    <3>1. CASE b # a
      BY Zenon, <2>3a, <3>1
    <3>2. CASE b = a
      <4>1. \A i \in Slots(a)' : mailbox'[a][i] # Shut => i \in Slots(a) /\ mailbox'[a][i] = mailbox[a][i]
        BY Zenon, <2>2
      <4>0. BoxSound(a)
        BY Zenon
      <4>2. BoxSound(a)'
        BY ONLY <1>1, <4>0, <4>1 DEF BoxSound
      <4> QED
        BY Zenon, <1>1, <3>2, <4>2 DEF HandSound
    <3> QED
      BY Zenon, <3>1, <3>2
  <2>5. ASSUME NEW b \in Actors PROVE ShutSound(b)'
    <3>1. CASE b # a
      BY Zenon, <2>3a, <3>1
    <3>2. CASE b = a
      <4>1. ASSUME NEW i \in Slots(a)', NEW j \in Slots(a)', i < j, mailbox'[a][i] = Shut
            PROVE  mailbox'[a][j] \notin early
        <5>1. CASE j = k
          BY Zenon, <2>2, <5>1, ActorAssumption DEF TypeOK
        <5>2. CASE j # k
          <6>1. j \in Slots(a) /\ mailbox'[a][j] = mailbox[a][j] /\ j < k
            BY Zenon, <2>2, <5>2
          <6>2. i # k
            BY <4>1, <6>1 DEF Slots
          <6>3. i \in Slots(a) /\ mailbox[a][i] = Shut
            BY Zenon, <2>2, <4>1, <6>2
          <6> QED
            BY Zenon, <4>1, <6>1, <6>3 DEF ShutSound
        <5> QED
          BY Zenon, <5>1, <5>2
      <4>2. ASSUME status[a] = "polling", NEW i \in Slots(a)' PROVE mailbox'[a][i] \in window \cup {Shut}
        BY Zenon, <2>2, <4>2 DEF ShutSound
      <4> QED
        BY Zenon, <1>1, <3>2, <4>1, <4>2 DEF ShutSound
    <3> QED
      BY Zenon, <3>1, <3>2
  <2>6. ASSUME NEW n \in Msgs PROVE MsgSound(n)'
    <3>1. ASSUME NEW b \in Actors, NEW i \in Slots(b), mailbox[b][i] = n
          PROVE  \E j \in Slots(b)' : mailbox'[b][j] = n
      <4>1. i \in Slots(b)' /\ mailbox'[b][i] = n
        BY Zenon, <2>1, <2>2, <3>1
      <4> QED
        BY Zenon, <4>1
    <3> QED
      BY Zenon, <1>1, <3>1 DEF MsgSound
  <2>7. OnlyWindowIsLost'
    BY Zenon, <1>1 DEF OnlyWindowIsLost
  <2> QED
    BY Zenon, <2>3, <2>4, <2>5, <2>6, <2>7
<1> QED
  BY Zenon, <1>3, <1>4 DEF ShutdownDeliver

\* runActor takes the first message; on the shutdown message it stops, and
\* what is behind came after the shutdown.
LEMMA TakeKeeps ==
  ASSUME ActorInv, NEW a \in Actors, Take(a)
  PROVE  ActorInv'
<1> USE DEF ActorInv
<1>1. /\ status[a] = "running" /\ cur[a] = None /\ mailbox[a] # <<>>
      /\ mailbox' = [mailbox EXCEPT ![a] = Tail(mailbox[a])]
      /\ UNCHANGED <<closed, shutting, fate, target, early, window>>
  BY Zenon DEF Take, Idle, Rest, msgVars
<1>2. /\ mailbox' \in [Actors -> Seq(Msgs \cup {Shut})]
      /\ \A b \in Actors \ {a} : mailbox'[b] = mailbox[b] /\ Slots(b)' = Slots(b)
      /\ 1 \in Slots(a) /\ Head(mailbox[a]) = mailbox[a][1]
      /\ \A i \in Slots(a)' : i + 1 \in Slots(a) /\ mailbox'[a][i] = mailbox[a][i + 1]
      /\ \A i \in Slots(a) : i # 1 => i - 1 \in Slots(a)' /\ mailbox'[a][i - 1] = mailbox[a][i]
  <2>1. /\ TypeOK /\ a \in Actors /\ mailbox[a] # <<>>
        /\ mailbox' = [mailbox EXCEPT ![a] = Tail(mailbox[a])]
    BY Zenon, <1>1
  <2> QED
    BY ONLY <2>1, BoxAfterTail
<1>3. \A i \in Slots(a)' : i \in Int /\ i >= 1
  BY DEF Slots
<1>0. /\ BoxSound(a) /\ HandSound(a) /\ ShutSound(a)
      /\ \A i \in Slots(a) : mailbox[a][i] \in Msgs \cup {Shut}
  BY Zenon, BoxFacts
<1>4. PICK h \in Msgs \cup {Shut} : h = Head(mailbox[a]) /\ h = mailbox[a][1]
  BY Zenon, <1>2, BoxFacts
<1>5. \A b \in Actors \ {a} : cur'[b] = cur[b] /\ status'[b] = status[b]
  BY Zenon DEF Take, TypeOK
<1>6. ASSUME NEW i \in Slots(a)', NEW j \in Slots(a)', i < j, mailbox'[a][i] = Shut
      PROVE  mailbox'[a][j] \notin early
  <2>1. i + 1 \in Slots(a) /\ j + 1 \in Slots(a) /\ i + 1 < j + 1
    BY <1>2, <1>3, <1>6
  <2> QED
    <3>1. mailbox[a][i + 1] = Shut /\ mailbox'[a][j] = mailbox[a][j + 1]
      BY ONLY <1>2, <1>6
    <3> QED
      BY ONLY <1>0, <2>1, <3>1 DEF ShutSound
<1>7. \A i \in Slots(a)' : mailbox'[a][i] = Shut => closed[a]
  BY ONLY <1>0, <1>2 DEF ShutSound
<1>8. ASSUME NEW b \in Actors, b # a PROVE BoxSound(b)' /\ HandSound(b)' /\ ShutSound(b)'
  <2>1. BoxSound(b) /\ HandSound(b) /\ ShutSound(b) /\ b \in Actors
    BY Zenon
  <2>2. /\ mailbox'[b] = mailbox[b] /\ cur'[b] = cur[b] /\ status'[b] = status[b]
        /\ UNCHANGED <<closed, shutting, fate, target, early, window>>
    BY Zenon, <1>1, <1>2, <1>5, <1>8
  <2> QED
    BY ONLY <2>1, <2>2, OtherKept
<1>9. \A i, j \in Slots(a)' : mailbox'[a][i] # Shut /\ mailbox'[a][i] = mailbox'[a][j] => i = j
  <2> SUFFICES ASSUME NEW i \in Slots(a)', NEW j \in Slots(a)',
                      mailbox'[a][i] # Shut, mailbox'[a][i] = mailbox'[a][j]
               PROVE  i = j
    BY Zenon
  <2>1. /\ i + 1 \in Slots(a) /\ mailbox'[a][i] = mailbox[a][i + 1]
        /\ j + 1 \in Slots(a) /\ mailbox'[a][j] = mailbox[a][j + 1]
    BY Zenon, <1>2
  <2>2. i + 1 = j + 1
    BY ONLY <1>0, <2>1, mailbox'[a][i] # Shut, mailbox'[a][i] = mailbox'[a][j] DEF BoxSound
  <2> QED
    BY <1>3, <2>2
<1>10. ASSUME NEW i \in Slots(a)', mailbox'[a][i] # Shut
       PROVE  /\ target[mailbox'[a][i]] = a /\ fate[mailbox'[a][i]] = "accepted"
              /\ mailbox'[a][i] \in Msgs /\ mailbox'[a][i] # h
  <2>1. i + 1 \in Slots(a) /\ i + 1 # 1 /\ mailbox'[a][i] = mailbox[a][i + 1]
    BY ONLY <1>2, <1>3, <1>10
  <2>2. mailbox[a][i + 1] # h
    BY ONLY <1>0, <1>2, <1>4, <1>10, <2>1 DEF BoxSound
  <2> QED
    BY ONLY <1>0, <1>10, <2>1, <2>2 DEF BoxSound
<1>11. ASSUME NEW m \in Msgs, m # h, NEW b \in Actors, NEW i \in Slots(b), mailbox[b][i] = m
       PROVE  \E j \in Slots(b)' : mailbox'[b][j] = m
  <2>1. CASE b # a
    BY Zenon, <1>2, <1>11, <2>1
  <2>2. CASE b = a
    <3>1. i # 1
      BY Zenon, <1>4, <1>11, <2>2
    <3>2. i - 1 \in Slots(a)' /\ mailbox'[a][i - 1] = m
      BY Zenon, <1>2, <1>11, <2>2, <3>1
    <3> QED
      BY Zenon, <2>2, <3>2
  <2> QED
    BY Zenon, <2>1, <2>2
<1>12. ASSUME NEW m \in Msgs, m # h, \A b \in Actors : cur[b] = m => cur'[b] = m
       PROVE  MsgSound(m)'
  <2>1. CASE fate[m] = "accepted"
    <3>1. PICK b \in Actors : b = target[m] /\ b = target'[m]
      BY Zenon, <1>1, <2>1 DEF MsgSound
    <3>2. cur'[b] = m \/ \E j \in Slots(b)' : mailbox'[b][j] = m
      <4>1. cur[b] = m \/ \E i \in Slots(b) : mailbox[b][i] = m
        BY Zenon, <2>1, <3>1 DEF MsgSound
      <4>2. CASE cur[b] = m
        BY Zenon, <1>12, <4>2
      <4>3. ASSUME NEW i \in Slots(b), mailbox[b][i] = m PROVE \E j \in Slots(b)' : mailbox'[b][j] = m
        BY Zenon, <1>11, <1>12, <4>3
      <4> QED
        BY Zenon, <4>1, <4>2, <4>3
    <3> QED
      <4>1. /\ fate'[m] = "accepted" /\ target'[m] \in Actors
            /\ cur'[target'[m]] = m \/ \E j \in Slots(target[m])' : mailbox'[target'[m]][j] = m
        BY Zenon, <1>1, <2>1, <3>1, <3>2 DEF Slots
      <4> QED
        BY Zenon, <4>1 DEF MsgSound
  <2>2. CASE fate[m] # "accepted"
    BY Zenon, <1>1, <2>2 DEF MsgSound
  <2> QED
    BY Zenon, <2>1, <2>2
<1>13. CASE h = Shut /\ status' = [status EXCEPT ![a] = "stopped"] /\ cur' = cur
  <2>1. TypeOK' /\ status'[a] = "stopped"
    BY Zenon, <1>1, <1>2, <1>13 DEF TypeOK
  <2>2. closed[a] /\ \A i \in Slots(a) : i # 1 => mailbox[a][i] \notin early
    <3>1. \A i \in Slots(a) : i # 1 => 1 < i
      BY DEF Slots
    <3> QED
      BY ONLY <1>0, <1>2, <1>4, <1>13, <3>1 DEF ShutSound
  <2>3. BoxSound(a)' /\ HandSound(a)'
    <3>1. cur'[a] = None /\ UNCHANGED <<target, fate>>
      BY Zenon, <1>1, <1>13
    <3>2. \A i \in Slots(a)' : mailbox'[a][i] # Shut =>
            /\ target'[mailbox'[a][i]] = a /\ fate'[mailbox'[a][i]] = "accepted"
            /\ cur'[a] # mailbox'[a][i]
      BY Zenon, <1>10, <3>1, ActorAssumption
    <3>3. BoxSound(a)'
      BY ONLY <1>9, <3>2 DEF BoxSound
    <3>4. HandSound(a)'
      BY ONLY <3>1 DEF HandSound
    <3> QED
      BY Zenon, <3>3, <3>4
  <2>4. ShutSound(a)'
    BY Zenon, <1>1, <1>6, <2>1, <2>2 DEF ShutSound
  <2>5. ASSUME NEW m \in Msgs PROVE MsgSound(m)'
    <3>1. m # h
      BY Zenon, <1>13, ActorAssumption
    <3> QED
      BY Zenon, <1>13, <1>12, <3>1
  <2>6. OnlyWindowIsLost'
    <3> SUFFICES ASSUME NEW m \in early \ window, status'[target[m]] = "stopped", fate[m] = "accepted"
                 PROVE  FALSE
      BY Zenon, <1>1 DEF OnlyWindowIsLost
    <3>1. m \in Msgs /\ target[m] \in Actors
      BY Zenon DEF TypeOK, MsgSound
    <3>2. CASE target[m] # a
      BY Zenon, <1>5, <3>1, <3>2 DEF OnlyWindowIsLost
    <3>3. CASE target[m] = a
      <4>1. PICK i \in Slots(a) : mailbox[a][i] = m
        BY Zenon, <1>1, <3>1, <3>3, ActorAssumption DEF MsgSound
      <4>2. i # 1
        BY Zenon, <1>4, <1>13, <3>1, <4>1, ActorAssumption
      <4> QED
        BY Zenon, <2>2, <4>1, <4>2
    <3> QED
      BY Zenon, <3>2, <3>3
  <2> QED
    BY Zenon, <1>8, <2>1, <2>3, <2>4, <2>5, <2>6
<1>14. CASE h # Shut /\ cur' = [cur EXCEPT ![a] = h] /\ status' = status
  <2>1. TypeOK' /\ cur'[a] = h
    BY Zenon, <1>1, <1>2, <1>14 DEF TypeOK
  <2>2. target[h] = a /\ fate[h] = "accepted"
    BY ONLY <1>0, <1>2, <1>4, <1>14 DEF BoxSound
  <2>3. BoxSound(a)' /\ HandSound(a)'
    <3>1. BoxSound(a)'
      BY Zenon, <1>1, <1>9, <1>10, <2>1 DEF BoxSound
    <3>2. HandSound(a)'
      BY Zenon, <1>1, <1>14, <2>1, <2>2 DEF HandSound
    <3> QED
      BY Zenon, <3>1, <3>2
  <2>4. ShutSound(a)'
    <3>1. shutting[a] => closed[a]
      BY Zenon DEF ShutSound
    <3> QED
      BY Zenon, <1>1, <1>6, <1>7, <1>14, <3>1 DEF ShutSound
  <2>5. ASSUME NEW m \in Msgs PROVE MsgSound(m)'
    <3>1. CASE m = h
      BY Zenon, <1>1, <2>1, <2>2, <3>1 DEF MsgSound
    <3>2. CASE m # h
      <4>1. \A b \in Actors : cur[b] = m => cur'[b] = m
        BY Zenon, <1>1, <1>5, ActorAssumption
      <4> QED
        BY Zenon, <1>12, <3>2, <4>1
    <3> QED
      BY Zenon, <3>1, <3>2
  <2>6. OnlyWindowIsLost'
    BY Zenon, <1>1, <1>14 DEF OnlyWindowIsLost
  <2> QED
    BY Zenon, <1>8, <2>1, <2>3, <2>4, <2>5, <2>6
<1> QED
  BY Zenon, <1>4, <1>13, <1>14 DEF Take

-----------------------------------------------------------------------------
\* Nothing is sent at first, and every step keeps the invariant.
LEMMA ActorInvHolds == Spec => []ActorInv
<1>1. Init => ActorInv
  <2> SUFFICES ASSUME Init PROVE ActorInv
    BY Zenon
  <2>1. TypeOK
    BY Zenon, EmptySeq DEF Init, TypeOK
  <2>2. \A a \in Actors : mailbox[a] = <<>> /\ Slots(a) = {}
    BY Zenon, <2>1, BoxFacts DEF Init
  <2>3. ASSUME NEW a \in Actors PROVE BoxSound(a) /\ HandSound(a) /\ ShutSound(a)
    BY Zenon, <2>2 DEF Init, BoxSound, HandSound, ShutSound
  <2>4. ASSUME NEW m \in Msgs PROVE MsgSound(m)
    BY Zenon DEF Init, MsgSound
  <2> QED
    BY Zenon, <2>1, <2>3, <2>4 DEF Init, ActorInv, OnlyWindowIsLost
<1>2. ActorInv /\ [Next]_vars => ActorInv'
  <2> SUFFICES ASSUME ActorInv, [Next]_vars PROVE ActorInv'
    BY Zenon
  <2>1. ASSUME NEW a \in Actors, Spawn(a) \/ ActorStep(a) \/ Shutdown(a) \/ ShutdownDeliver(a)
        PROVE  ActorInv'
    BY Zenon, <2>1, StillActions, TakeKeeps, HandleKeeps, PollFlagKeeps, ShutdownDeliverKeeps DEF ActorStep
  <2>2. ASSUME NEW a \in Actors, NEW m \in Msgs, SendCheck(m, a) PROVE ActorInv'
    BY Zenon, <2>2, SendCheckKeeps
  <2>3. ASSUME NEW m \in Msgs, Deliver(m) PROVE ActorInv'
    BY Zenon, <2>3, DeliverKeeps
  <2>4. CASE (\E m \in Requests : RequestTimeout(m) \/ RequestReturn(m)) \/ SystemStep
    BY Zenon, <2>4, StillActions
  <2>5. CASE UNCHANGED vars
    <3>1. UNCHANGED <<status, closed, shutting, mailbox, cur, fate, target, early, window>>
      BY Zenon, <2>5 DEF vars, actorVars, msgVars
    <3>2. TypeOK' /\ \A b \in Actors : closed[b] \/ shutting'[b] => closed'[b]
      BY Zenon, <3>1 DEF ActorInv, TypeOK, ShutSound
    <3> QED
      BY Zenon, <3>1, <3>2, Still
  <2> QED
    BY Zenon, <2>1, <2>2, <2>3, <2>4, <2>5 DEF Next
<1> QED
  BY <1>1, <1>2, PTL DEF Spec

\* runActor and ActorRef.Shutdown, for any actors, messages and mailbox size:
\* of the messages accepted before a shutdown, only those of the window are
\* left behind when the actor stops.
THEOREM ShutdownIsGraceful == Spec => []OnlyWindowIsLost
<1>1. ActorInv => OnlyWindowIsLost
  BY Zenon DEF ActorInv
<1> QED
  BY <1>1, ActorInvHolds, PTL

\* deliver and runActor, for the same: an accepted message is in its target's
\* mailbox, once, or at its hand, until it is settled.
THEOREM AcceptedInOnePlace == Spec => []AcceptedIsSomewhere
<1>1. ActorInv => AcceptedIsSomewhere
  <2> SUFFICES ASSUME ActorInv, NEW m \in Msgs, fate[m] = "accepted"
               PROVE  /\ \A i, j \in {i \in DOMAIN mailbox[target[m]] : mailbox[target[m]][i] = m} : i = j
                      /\ {i \in DOMAIN mailbox[target[m]] : mailbox[target[m]][i] = m} = {} <=> cur[target[m]] = m
    BY Zenon DEF AcceptedIsSomewhere
  <2>1. PICK a \in Actors : a = target[m]
    BY Zenon DEF ActorInv, MsgSound
  <2>2. DOMAIN mailbox[a] = Slots(a)
    BY Zenon, BoxFacts, LenProperties DEF ActorInv, Slots
  <2>3. m # Shut
    BY Zenon, ActorAssumption
  <2>4. \A i, j \in Slots(a) : mailbox[a][i] = m /\ mailbox[a][j] = m => i = j
    BY <2>3 DEF ActorInv, BoxSound
  <2>5. (\A i \in Slots(a) : mailbox[a][i] # m) <=> cur[a] = m
    BY <2>1, <2>3 DEF ActorInv, BoxSound, MsgSound
  <2> QED
    BY Zenon, <2>1, <2>2, <2>4, <2>5
<1> QED
  BY <1>1, ActorInvHolds, PTL
=============================================================================
