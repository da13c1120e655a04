------------------------ MODULE GreenSchedulerProofs ------------------------
(***************************************************************************)
(* For any set of threads, priorities and workloads, with one goroutine    *)
(* that unblocks: the green-thread scheduler keeps every live thread in    *)
(* one place, counts them exactly, and Run returns only when all are done. *)
(***************************************************************************)
EXTENDS GreenScheduler, SequenceTheorems, FiniteSetTheorems, WellFoundedInduction, TLAPS
-----------------------------------------------------------------------------
(* The green-thread scheduler.                                             *)

\* UnblockThread is called by one goroutine at most: two that saw the same
\* thread on the blocked list would both queue it.
OneWaker == \A v, w \in Wakers : v = w

On(q, t) == \E i \in DOMAIN q : q[i] = t
Distinct(q) == \A i, j \in DOMAIN q : q[i] = q[j] => i = j
Woken(t) == \E w \in Wakers : waking[w] = [pc |-> "append", t |-> t]

GreenType ==
  /\ runQueue \in Seq(Threads) /\ blocked \in Seq(Threads)
  /\ state \in [Threads -> {"none", "created", "suspended", "completed", "failed"}]
  /\ rpc \in {"off", "loop", "pick", "idle", "exec", "suspended", "block", "requeue"}
  /\ cur \in Threads \cup {None} /\ spawning \in Threads \cup {None}
  /\ waking \in [Wakers -> [pc : {"off", "remove", "append"}, t : Threads \cup {None}]]
  /\ activeThreads \in Int /\ totalCompleted \in Int /\ totalFailed \in Int

\* A thread is in at most one place, and in one exactly while it is alive.
Single(t) ==
  /\ On(runQueue, t) => ~On(blocked, t) /\ cur # t /\ spawning # t /\ ~Woken(t)
  /\ On(blocked, t) => cur # t /\ spawning # t /\ ~Woken(t)
  /\ cur = t => spawning # t /\ ~Woken(t)
  /\ spawning = t => ~Woken(t)
  /\ t \in Live <=> On(runQueue, t) \/ On(blocked, t) \/ cur = t \/ spawning = t \/ Woken(t)

\* Run has a thread in hand while it executes it; what a waker is about to
\* take off the blocked list is still on it, and what it has taken off is a
\* thread.
HandsInv ==
  /\ cur # None <=> rpc \in {"exec", "suspended", "block", "requeue"}
  /\ \A w \in Wakers : /\ waking[w].pc = "remove" => On(blocked, waking[w].t)
                       /\ waking[w].pc = "append" => waking[w].t \in Threads

GreenInv ==
  /\ GreenType /\ HandsInv /\ Distinct(runQueue) /\ Distinct(blocked)
  /\ \A t \in Threads : Single(t)
  /\ ActiveExact

-----------------------------------------------------------------------------
\* append: the new thread is on the list, the others as before.
LEMMA AppendOn ==
  ASSUME NEW q \in Seq(Threads), NEW e \in Threads, ~On(q, e), Distinct(q)
  PROVE  /\ Append(q, e) \in Seq(Threads) /\ Distinct(Append(q, e))
         /\ \A t \in Threads : On(Append(q, e), t) <=> On(q, t) \/ t = e
<1>1. /\ Append(q, e) \in Seq(Threads) /\ Len(Append(q, e)) = Len(q) + 1
      /\ \A i \in 1..Len(q) : Append(q, e)[i] = q[i]
      /\ Append(q, e)[Len(q) + 1] = e
  BY AppendProperties
<1>2. Len(q) \in Nat /\ DOMAIN q = 1..Len(q) /\ DOMAIN Append(q, e) = 1..(Len(q) + 1)
  BY Zenon, <1>1, LenProperties
<1>3. \A i \in 1..(Len(q) + 1) : i \in 1..Len(q) \/ i = Len(q) + 1
  BY <1>2
<1>4. \A i \in 1..Len(q) : q[i] # e
  BY Zenon, <1>2 DEF On
<1>5. Distinct(Append(q, e))
  BY Zenon, <1>1, <1>2, <1>3, <1>4 DEF Distinct
<1>6. ASSUME NEW t \in Threads PROVE On(Append(q, e), t) <=> On(q, t) \/ t = e
  <2>1. ASSUME On(q, t) PROVE On(Append(q, e), t)
    <3>1. PICK i \in 1..Len(q) : q[i] = t
      BY Zenon, <2>1, <1>2 DEF On
    <3>2. i \in 1..(Len(q) + 1) /\ Append(q, e)[i] = t
      BY <1>1, <1>2, <3>1
    <3> QED
      BY Zenon, <1>2, <3>2 DEF On
  <2>2. Len(q) + 1 \in 1..(Len(q) + 1)
    BY <1>2
  <2>3. On(Append(q, e), e)
    BY Zenon, <1>1, <1>2, <2>2 DEF On
  <2>4. ASSUME On(Append(q, e), t) PROVE On(q, t) \/ t = e
    BY Zenon, <1>1, <1>2, <1>3, <2>4 DEF On
  <2> QED
    BY Zenon, <2>1, <2>3, <2>4
<1> QED
  BY Zenon, <1>1, <1>5, <1>6

\* Taking one slot off a list: its thread is gone, the others are there.
LEMMA CutOn ==
  ASSUME NEW q \in Seq(Threads), NEW k \in DOMAIN q, Distinct(q)
  PROVE  /\ cut(q, k) \in Seq(Threads) /\ Distinct(cut(q, k))
         /\ \A t \in Threads : On(cut(q, k), t) <=> On(q, t) /\ t # q[k]
<1> DEFINE r == cut(q, k)
           n == Len(q)
<1>1. n \in Nat /\ DOMAIN q = 1..n /\ k \in 1..n /\ \A i \in 1..n : q[i] \in Threads
  BY Zenon, LenProperties, ElementOfSeq
<1>2. r \in Seq(Threads) /\ Len(r) = n - 1
      /\ \A i \in 1..(n - 1) : r[i] = IF i < k THEN q[i] ELSE q[i + 1]
  <2>1. PICK u : u = SubSeq(q, 1, k - 1)
    BY Zenon
  <2>2. PICK v : v = SubSeq(q, k + 1, n)
    BY Zenon
  <2>3. r = u \o v
    BY Zenon, <2>1, <2>2 DEF cut
  <2> HIDE DEF r, n
  <2>a. u \in Seq(Threads) /\ Len(u) = k - 1 /\ \A i \in 1..(k - 1) : u[i] = q[i]
    <3>1. k - 1 \in Int /\ \A i \in 1..(k - 1) : q[i] \in Threads
      BY <1>1
    <3>2. /\ u \in Seq(Threads) /\ Len(u) = IF 1 <= k - 1 THEN k - 1 - 1 + 1 ELSE 0
          /\ \A i \in 1..(k - 1 - 1 + 1) : u[i] = q[1 + i - 1]
      BY ONLY <2>1, <3>1, SubSeqProperties
    <3> QED
      BY <1>1, <3>2
  <2>b. v \in Seq(Threads) /\ Len(v) = n - k /\ \A i \in 1..(n - k) : v[i] = q[i + k]
    <3>1. k + 1 \in Int /\ n \in Int /\ \A i \in (k + 1)..n : q[i] \in Threads
      BY <1>1
    <3>2. /\ v \in Seq(Threads) /\ Len(v) = IF k + 1 <= n THEN n - (k + 1) + 1 ELSE 0
          /\ \A i \in 1..(n - (k + 1) + 1) : v[i] = q[(k + 1) + i - 1]
      BY ONLY <2>2, <3>1, SubSeqProperties
    <3>3. n - (k + 1) + 1 = n - k /\ \A i \in 1..(n - k) : (k + 1) + i - 1 = i + k
      BY <1>1
    <3> QED
      BY <1>1, <3>2, <3>3
  <2>c. /\ r \in Seq(Threads) /\ Len(r) = Len(u) + Len(v)
        /\ \A i \in 1..(Len(u) + Len(v)) : r[i] = IF i <= Len(u) THEN u[i] ELSE v[i - Len(u)]
    BY ONLY <2>3, <2>a, <2>b, ConcatProperties
  <2>4. r \in Seq(Threads) /\ Len(r) = n - 1
    BY <1>1, <2>a, <2>b, <2>c
  <2>5. ASSUME NEW i \in 1..(n - 1) PROVE r[i] = IF i < k THEN q[i] ELSE q[i + 1]
    <3>1. r[i] = IF i <= k - 1 THEN u[i] ELSE v[i - (k - 1)]
      BY <1>1, <2>a, <2>b, <2>c
    <3>2. CASE i < k
      <4>1. i \in 1..(k - 1) /\ i <= k - 1
        BY <1>1, <3>2
      <4> QED
        BY Zenon, <2>a, <3>1, <3>2, <4>1
    <3>3. CASE ~(i < k)
      <4>1. i - (k - 1) \in 1..(n - k) /\ ~(i <= k - 1) /\ (i - (k - 1)) + k = i + 1
        BY <1>1, <3>3
      <4> QED
        BY Zenon, <2>b, <3>1, <3>3, <4>1
    <3> QED
      BY Zenon, <3>2, <3>3
  <2> QED
    BY Zenon, <2>4, <2>5
<1>3. DOMAIN r = 1..(n - 1)
  BY Zenon, <1>1, <1>2, LenProperties
<1> HIDE DEF r, n
<1>4. Distinct(r)
  <2> SUFFICES ASSUME NEW i \in 1..(n - 1), NEW j \in 1..(n - 1), r[i] = r[j] PROVE i = j
    BY Zenon, <1>3 DEF Distinct
  <2> DEFINE up(x) == IF x < k THEN x ELSE x + 1
  <2>1. up(i) \in 1..n /\ up(j) \in 1..n /\ q[up(i)] = q[up(j)]
    BY <1>1, <1>2
  <2>2. up(i) = up(j)
    BY Zenon, <1>1, <2>1 DEF Distinct
  <2> QED
    BY <1>1, <2>2
<1>5. ASSUME NEW t \in Threads PROVE On(r, t) <=> On(q, t) /\ t # q[k]
  <2>1. ASSUME On(r, t) PROVE On(q, t) /\ t # q[k]
    <3>1. PICK i \in 1..(n - 1) : r[i] = t
      BY Zenon, <1>3, <2>1 DEF On
    <3>2. PICK j \in 1..n : j # k /\ q[j] = t
      <4>1. CASE i < k
        <5>1. i \in 1..n /\ i # k
          BY <1>1, <4>1
        <5> QED
          BY Zenon, <1>2, <3>1, <4>1, <5>1
      <4>2. CASE ~(i < k)
        <5>1. i + 1 \in 1..n /\ i + 1 # k
          BY <1>1, <4>2
        <5> QED
          BY Zenon, <1>2, <3>1, <4>2, <5>1
      <4> QED
        BY Zenon, <4>1, <4>2
    <3> QED
      BY Zenon, <1>1, <3>2 DEF On, Distinct
  <2>2. ASSUME On(q, t), t # q[k] PROVE On(r, t)
    <3>1. PICK j \in 1..n : q[j] = t /\ j # k
      BY Zenon, <1>1, <2>2 DEF On
    <3>2. CASE j < k
      <4>1. j \in 1..(n - 1)
        BY <1>1, <3>2
      <4> QED
        BY Zenon, <1>2, <1>3, <3>1, <3>2, <4>1 DEF On
    <3>3. CASE ~(j < k)
      <4>1. j - 1 \in 1..(n - 1) /\ ~(j - 1 < k) /\ (j - 1) + 1 = j
        BY <1>1, <3>1, <3>3
      <4> QED
        BY Zenon, <1>2, <1>3, <3>1, <4>1 DEF On
    <3> QED
      BY Zenon, <3>2, <3>3
  <2> QED
    BY Zenon, <2>1, <2>2
<1> QED
  BY Zenon, <1>2, <1>4, <1>5 DEF r

\* A thread that is on a list is in one slot of it.
LEMMA SlotOn ==
  ASSUME NEW q \in Seq(Threads), NEW e, On(q, e), Distinct(q)
  PROVE  \E k \in DOMAIN q : /\ q[k] = e /\ {i \in DOMAIN q : q[i] = e} = {k}
                            /\ Min({i \in DOMAIN q : q[i] = e}) = k
<1>1. DOMAIN q = 1..Len(q) /\ Len(q) \in Nat
  BY Zenon, LenProperties
<1>2. PICK k \in DOMAIN q : q[k] = e
  BY Zenon DEF On
<1>3. {i \in DOMAIN q : q[i] = e} = {k}
  BY Zenon, <1>2 DEF Distinct
<1>4. Min({k}) = k
  BY <1>1, <1>2 DEF Min
<1> QED
  BY Zenon, <1>2, <1>3, <1>4

\* A set of naturals has a least element.
LEMMA LeastElement ==
  ASSUME NEW S \in SUBSET Nat, S # {}
  PROVE  \E i \in S : \A j \in S : i <= j
<1> DEFINE R == OpToRel(<, Nat)
<1>1. \A i, j \in Nat : <<i, j>> \in R <=> i < j
  BY Zenon DEF OpToRel
<1>2. IsWellFoundedOn(R, Nat)
  BY Zenon, NatLessThanWellFounded
<1> HIDE DEF R
<1>3. PICK i \in S : \A j \in S : <<j, i>> \notin R
  BY Zenon, <1>2, WFMin
<1>4. \A j \in S : j \in Nat /\ i \in Nat /\ ~(j < i)
  BY Zenon, <1>1, <1>3
<1> QED
  BY <1>3, <1>4

\* The loop of pickNext finds a slot of the run queue.
LEMMA BestSlot ==
  ASSUME NEW q \in Seq(Threads), q # <<>>
  PROVE  best(q) \in DOMAIN q
<1> DEFINE n == Len(q)
           p == [j \in 1..Len(q) |-> Priority[q[j]]]
           First(i, k) == \A j \in 1..k : p[j] < p[i] \/ (p[j] = p[i] /\ i <= j)
           S == {k \in 1..n : ~\E i \in 1..k : First(i, k)}
<1>1. n \in Nat \ {0} /\ DOMAIN q = 1..n /\ \A j \in 1..n : p[j] \in Int
  BY Zenon, LenProperties, ElementOfSeq, EmptySeq, GreenAssumption
<1> HIDE DEF n, p
<1>2. S = {}
  <2> SUFFICES ASSUME S # {} PROVE FALSE
    BY Zenon
  <2>1. S \in SUBSET Nat
    BY <1>1
  <2>2. PICK k \in S : \A j \in S : k <= j
    BY Zenon, <2>1, LeastElement
  <2>3. k \in 1..n /\ ~\E i \in 1..k : First(i, k)
    BY Zenon, <2>2
  <2>4. k # 1
    <3>1. First(1, 1)
      BY <1>1
    <3> QED
      BY <2>3, <3>1
  <2>5. k - 1 \in 1..n /\ k - 1 \notin S
    <3>1. k - 1 \in 1..n /\ ~(k <= k - 1)
      BY <1>1, <2>3, <2>4
    <3> QED
      BY ONLY Zenon, <2>2, <3>1
  <2>6. PICK i \in 1..(k - 1) : First(i, k - 1)
    BY Zenon, <2>5
  <2>k. k \in Int /\ n \in Int /\ k <= n /\ 1 <= k
    BY <1>1, <2>3
  <2>7. i \in 1..n /\ i \in 1..k /\ k \in 1..k /\ i < k /\ i \in Int
    <3>a. i \in 1..(k - 1)
      BY Zenon, <2>6
    <3>1. i \in Int /\ 1 <= i /\ i <= k - 1
      BY ONLY <2>k, <3>a
    <3> QED
      BY ONLY <2>k, <3>1
  <2>8. \A j \in 1..k : j \in 1..n /\ (j \in 1..(k - 1) \/ j = k)
    BY ONLY <2>k
  <2>9. \A j \in 1..k : p[j] \in Int
    BY Zenon, <1>1, <2>8
  <2>12. p[i] \in Int /\ p[k] \in Int
    BY Zenon, <2>7, <2>9
  <2>13. \A j \in 1..(k - 1) : p[j] < p[i] \/ (p[j] = p[i] /\ i <= j)
    BY Zenon, <2>6
  <2>14. k \in S /\ (First(i, k) => FALSE) /\ (First(k, k) => FALSE)
    BY Zenon, <2>3, <2>7
  <2> HIDE DEF S
  <2>10. CASE p[k] > p[i]
    <3>1. ASSUME NEW j \in 1..k PROVE p[j] < p[k] \/ (p[j] = p[k] /\ k <= j)
      <4>1. CASE j = k
        BY <2>7, <4>1
      <4>2. CASE j \in 1..(k - 1)
        <5>1. p[j] < p[i] \/ p[j] = p[i]
          BY Zenon, <2>13, <4>2
        <5>2. p[j] \in Int
          BY Zenon, <2>9
        <5> QED
          BY ONLY <2>10, <2>12, <5>1, <5>2
      <4> QED
        BY Zenon, <2>8, <4>1, <4>2
    <3> QED
      BY Zenon, <2>14, <3>1
  <2>11. CASE ~(p[k] > p[i])
    <3>1. ASSUME NEW j \in 1..k PROVE p[j] < p[i] \/ (p[j] = p[i] /\ i <= j)
      <4>1. CASE j = k
        BY <2>7, <2>k, <2>11, <2>12, <4>1
      <4>2. CASE j \in 1..(k - 1)
        BY Zenon, <2>13, <4>2
      <4> QED
        BY Zenon, <2>8, <4>1, <4>2
    <3> QED
      BY Zenon, <2>14, <3>1
  <2> QED
    BY Zenon, <2>10, <2>11
<1>3. n \in 1..n
  BY <1>1
<1>4. \E i \in 1..n : First(i, n)
  BY Zenon, <1>2, <1>3
<1>5. \E i \in DOMAIN q : \A j \in DOMAIN q : \/ Priority[q[j]] < Priority[q[i]]
                                              \/ Priority[q[j]] = Priority[q[i]] /\ i <= j
  BY Zenon, <1>1, <1>4 DEF p, n
<1> QED
  BY Zenon, <1>5 DEF best

-----------------------------------------------------------------------------
\* The sets that the counters count are finite.
LEMMA LiveFinite ==
  ASSUME GreenType
  PROVE  /\ IsFiniteSet(Live) /\ IsFiniteSet(Done) /\ Live \subseteq Threads /\ Done \subseteq Threads
         /\ Cardinality(Live) \in Nat /\ Cardinality(Done) \in Nat
<1>1. Live \subseteq Threads /\ Done \subseteq Threads
  BY Zenon DEF Live, Done, Spawned
<1>2. IsFiniteSet(Live) /\ IsFiniteSet(Done)
  BY Zenon, <1>1, GreenAssumption, FS_Subset
<1> QED
  BY Zenon, <1>1, <1>2, FS_CardinalityType

\* Spawn: a thread that was in no place is counted and in Spawn's hand.
LEMMA SpawnCountKeeps ==
  ASSUME GreenInv, NEW t \in Threads, SpawnCount(t)
  PROVE  GreenInv'
<1>1. /\ UNCHANGED <<lists, totalCompleted, totalFailed, rpc, cur, waking>>
      /\ spawning = None /\ spawning' = t /\ state[t] = "none"
      /\ state' = [state EXCEPT ![t] = "created"] /\ activeThreads' = activeThreads + 1
  BY Zenon DEF SpawnCount, runner
<1>2. GreenType'
  BY <1>1 DEF GreenInv, GreenType, lists
<1>3. Live' = Live \cup {t} /\ Done' = Done /\ t \notin Live
  BY Zenon, <1>1 DEF GreenInv, GreenType, Live, Done, Spawned
<1>4. ActiveExact'
  <2>1. Cardinality(Live') = Cardinality(Live) + 1
    BY Zenon, <1>3, LiveFinite, FS_AddElement DEF GreenInv
  <2> QED
    BY Zenon, <1>1, <1>3, <2>1 DEF GreenInv, ActiveExact
<1>p. /\ Distinct(runQueue)' = Distinct(runQueue) /\ Distinct(blocked)' = Distinct(blocked)
      /\ \A s \in Threads : /\ On(runQueue, s)' = On(runQueue, s)
                            /\ On(blocked, s)' = On(blocked, s) /\ Woken(s)' = Woken(s)
      /\ \A w \in Wakers : On(blocked, waking[w].t)' = On(blocked, waking[w].t)
  BY Zenon, <1>1 DEF lists, On, Distinct, Woken
<1>5. ASSUME NEW s \in Threads PROVE Single(s)'
  <2>1. Single(s) /\ Single(t) /\ t # None /\ s # None
    BY Zenon, GreenAssumption DEF GreenInv
  <2> QED
    BY Zenon, <1>1, <1>3, <1>p, <2>1 DEF Single
<1>6. HandsInv'
  BY Zenon, <1>1, <1>p DEF GreenInv, HandsInv
<1> QED
  BY Zenon, <1>2, <1>4, <1>5, <1>6, <1>p DEF GreenInv

\* A thread goes from the hand of Spawn, Run or a waker to the end of the run
\* queue.
LEMMA QueuedKeeps ==
  ASSUME GreenInv, NEW t \in Threads, UNCHANGED <<blocked, counters, state>>,
         runQueue' = Append(runQueue, t), ~On(runQueue, t), ~On(blocked, t),
         GreenType', HandsInv', t \in Live,
         cur' # t /\ spawning' # t /\ ~Woken(t)',
         \A s \in Threads : s # t =>
           (cur' = s <=> cur = s) /\ (spawning' = s <=> spawning = s) /\ (Woken(s)' <=> Woken(s))
  PROVE  GreenInv'
<1>1. Live' = Live /\ Done' = Done
  BY Zenon DEF Live, Done, Spawned
<1>2. ActiveExact'
  BY Zenon, <1>1 DEF GreenInv, ActiveExact, counters
<1>3. Distinct(runQueue)' /\ \A s \in Threads : On(runQueue', s) <=> On(runQueue, s) \/ s = t
  <2>1. Distinct(runQueue) /\ runQueue \in Seq(Threads)
    BY Zenon DEF GreenInv, GreenType
  <2> QED
    BY Zenon, <2>1, AppendOn DEF Distinct
<1>4. \A s \in Threads : On(runQueue, s)' <=> On(runQueue, s) \/ s = t
  BY Zenon, <1>3 DEF On
<1>5. Distinct(blocked)' /\ \A s \in Threads : On(blocked, s)' <=> On(blocked, s)
  BY Zenon DEF On, Distinct, GreenInv
<1>6. ASSUME NEW s \in Threads PROVE Single(s)'
  <2>1. Single(s)
    BY Zenon DEF GreenInv
  <2> QED
    BY Zenon, <1>1, <1>4, <1>5, <2>1 DEF Single
<1> QED
  BY Zenon, <1>2, <1>3, <1>5, <1>6 DEF GreenInv

\* append in Spawn.
LEMMA SpawnQueueKeeps ==
  ASSUME GreenInv, SpawnQueue
  PROVE  GreenInv'
<1>1. PICK t \in Threads : t = spawning
  BY Zenon DEF SpawnQueue, GreenInv, GreenType
<1>2. /\ UNCHANGED <<blocked, counters, state, rpc, cur, waking>>
      /\ runQueue' = Append(runQueue, t) /\ spawning' = None
  BY Zenon, <1>1 DEF SpawnQueue, bodies, runner
<1>3. Single(t) /\ t # None
  BY Zenon, GreenAssumption DEF GreenInv
<1>4. /\ ~On(runQueue, t) /\ ~On(blocked, t) /\ t \in Live /\ cur # t /\ ~Woken(t)
  BY Zenon, <1>1, <1>3 DEF Single
<1>5. GreenType'
  <2>1. runQueue' \in Seq(Threads)
    BY Zenon, <1>2, AppendProperties DEF GreenInv, GreenType
  <2> QED
    BY Zenon, <1>2, <2>1 DEF GreenInv, GreenType, counters
<1>6. HandsInv'
  BY Zenon, <1>2 DEF GreenInv, HandsInv, On
<1>7. \A s \in Threads : Woken(s)' <=> Woken(s)
  BY Zenon, <1>2 DEF Woken
<1>8. \A s \in Threads : s # t => (spawning' = s <=> spawning = s)
  BY Zenon, <1>1, <1>2, GreenAssumption
<1> QED
  BY Zenon, <1>2, <1>3, <1>4, <1>5, <1>6, <1>7, <1>8, QueuedKeeps

\* append in executeThread.
LEMMA RequeueKeeps ==
  ASSUME GreenInv, rpc = "requeue", Requeue
  PROVE  GreenInv'
<1>1. PICK t \in Threads : t = cur
  BY Zenon DEF GreenInv, GreenType, HandsInv
<1>2. /\ UNCHANGED <<blocked, counters, state, spawning, waking>>
      /\ runQueue' = Append(runQueue, t) /\ cur' = None /\ rpc' = "loop"
  BY Zenon, <1>1 DEF Requeue, bodies, others
<1>3. Single(t) /\ t # None
  BY Zenon, GreenAssumption DEF GreenInv
<1>4. /\ ~On(runQueue, t) /\ ~On(blocked, t) /\ t \in Live /\ spawning # t /\ ~Woken(t)
  BY Zenon, <1>1, <1>3 DEF Single
<1>5. GreenType'
  <2>1. runQueue' \in Seq(Threads)
    BY Zenon, <1>2, AppendProperties DEF GreenInv, GreenType
  <2> QED
    BY Zenon, <1>2, <2>1 DEF GreenInv, GreenType, counters
<1>6. HandsInv'
  BY Zenon, <1>2 DEF GreenInv, HandsInv, On
<1>7. \A s \in Threads : Woken(s)' <=> Woken(s)
  BY Zenon, <1>2 DEF Woken
<1>8. \A s \in Threads : s # t => (cur' = s <=> cur = s)
  BY Zenon, <1>1, <1>2, GreenAssumption
<1> QED
  BY Zenon, <1>2, <1>3, <1>4, <1>5, <1>6, <1>7, <1>8, QueuedKeeps

\* The end of UnblockThread.
LEMMA UnblockAppendKeeps ==
  ASSUME OneWaker, GreenInv, NEW w \in Wakers, UnblockAppend(w)
  PROVE  GreenInv'
<1>1. PICK t \in Threads : t = waking[w].t
  BY Zenon DEF UnblockAppend, GreenInv, HandsInv
<1>2. /\ UNCHANGED <<blocked, counters, state, rpc, cur, spawning>>
      /\ runQueue' = Append(runQueue, t) /\ waking' = [waking EXCEPT ![w] = NotWaking]
      /\ waking[w].pc = "append"
  BY Zenon, <1>1 DEF UnblockAppend, bodies, runner
<1>3. Single(t) /\ t # None
  BY Zenon, GreenAssumption DEF GreenInv
<1>w. waking[w] = [pc |-> "append", t |-> t]
  BY Zenon, <1>1, <1>2 DEF GreenInv, GreenType
<1>v. waking'[w] = NotWaking /\ \A v \in Wakers : v = w
  BY Zenon, <1>2 DEF OneWaker, GreenInv, GreenType
<1>4. Woken(t) /\ ~On(runQueue, t) /\ ~On(blocked, t) /\ t \in Live /\ spawning # t /\ cur # t
  BY Zenon, <1>3, <1>w DEF Single, Woken
<1>5. GreenType'
  <2>1. runQueue' \in Seq(Threads)
    BY Zenon, <1>2, AppendProperties DEF GreenInv, GreenType
  <2>2. NotWaking \in [pc : {"off", "remove", "append"}, t : Threads \cup {None}]
    BY Zenon DEF NotWaking
  <2>3. waking' \in [Wakers -> [pc : {"off", "remove", "append"}, t : Threads \cup {None}]]
    BY Zenon, <1>2, <2>2 DEF GreenInv, GreenType
  <2> QED
    BY Zenon, <1>2, <2>1, <2>3 DEF GreenInv, GreenType, counters
<1>6. HandsInv'
  BY <1>2, <1>v DEF GreenInv, HandsInv, NotWaking
<1>7. \A s \in Threads : ~Woken(s)' /\ (s # t => ~Woken(s))
  BY <1>w, <1>v DEF Woken, NotWaking
<1> QED
  BY Zenon, <1>2, <1>3, <1>4, <1>5, <1>6, <1>7, QueuedKeeps

\* executeThread puts a thread whose channel is empty onto the blocked list.
LEMMA BlockKeeps ==
  ASSUME GreenInv, rpc = "block", Requeue
  PROVE  GreenInv'
<1>1. PICK t \in Threads : t = cur
  BY Zenon DEF GreenInv, GreenType, HandsInv
<1>2. /\ UNCHANGED <<runQueue, counters, state, spawning, waking>>
      /\ blocked' = Append(blocked, t) /\ cur' = None /\ rpc' = "loop"
  BY Zenon, <1>1 DEF Requeue, bodies, others
<1>3. Single(t) /\ t # None
  BY Zenon, GreenAssumption DEF GreenInv
<1>4. /\ ~On(runQueue, t) /\ ~On(blocked, t) /\ t \in Live /\ spawning # t /\ ~Woken(t)
  BY Zenon, <1>1, <1>3 DEF Single
<1>a. Distinct(blocked') /\ blocked' \in Seq(Threads)
      /\ \A s \in Threads : On(blocked', s) <=> On(blocked, s) \/ s = t
  BY Zenon, <1>2, <1>4, AppendOn DEF GreenInv, GreenType
<1>b. /\ Distinct(blocked)' /\ Distinct(runQueue)'
      /\ \A s \in Threads : /\ On(blocked, s)' <=> On(blocked, s) \/ s = t
                            /\ On(runQueue, s)' <=> On(runQueue, s)
                            /\ Woken(s)' <=> Woken(s)
  BY Zenon, <1>2, <1>a DEF Distinct, On, Woken, GreenInv
<1>5. GreenType'
  BY Zenon, <1>2, <1>a DEF GreenInv, GreenType, counters
<1>6. HandsInv'
  <2>1. ASSUME NEW w \in Wakers, waking[w].pc = "remove" PROVE On(blocked', waking[w].t)
    <3>1. On(blocked, waking[w].t) /\ waking[w].t \in Threads
      <4>1. On(blocked, waking[w].t)
        BY Zenon, <2>1 DEF GreenInv, HandsInv
      <4>2. \A i \in DOMAIN blocked : blocked[i] \in Threads
        BY ElementOfSeq, LenProperties DEF GreenInv, GreenType
      <4> QED
        BY Zenon, <4>1, <4>2 DEF On
    <3> QED
      BY Zenon, <1>a, <3>1
  <2>2. \A w \in Wakers : waking[w].pc = "remove" => On(blocked, waking[w].t)'
    BY Zenon, <1>2, <2>1 DEF On
  <2> QED
    BY Zenon, <1>2, <2>2 DEF GreenInv, HandsInv
<1>7. Live' = Live /\ Done' = Done
  BY Zenon, <1>2 DEF Live, Done, Spawned
<1>8. ActiveExact'
  BY Zenon, <1>2, <1>7 DEF GreenInv, ActiveExact, counters
<1>9. ASSUME NEW s \in Threads PROVE Single(s)'
  <2>1. Single(s) /\ s # None
    BY Zenon, GreenAssumption DEF GreenInv
  <2>2. spawning' = spawning /\ (s # t => (cur' = s <=> cur = s)) /\ cur' # s
    BY Zenon, <1>1, <1>2, <2>1
  <2> QED
    BY Zenon, <1>1, <1>4, <1>7, <1>b, <2>1, <2>2 DEF Single
<1> QED
  BY Zenon, <1>5, <1>6, <1>8, <1>9, <1>b DEF GreenInv

\* UnblockThread takes the thread off the blocked list: with one waker it is
\* still there.
LEMMA UnblockRemoveKeeps ==
  ASSUME OneWaker, GreenInv, NEW w \in Wakers, UnblockRemove(w)
  PROVE  GreenInv'
<1>0. On(blocked, waking[w].t) /\ blocked \in Seq(Threads) /\ Distinct(blocked)
  BY Zenon DEF UnblockRemove, GreenInv, GreenType, HandsInv
<1>1. PICK t \in Threads : t = waking[w].t
  <2>1. \A i \in DOMAIN blocked : blocked[i] \in Threads
    BY Zenon, <1>0, ElementOfSeq, LenProperties
  <2> QED
    BY Zenon, <1>0, <2>1 DEF On
<1>2. /\ UNCHANGED <<runQueue, counters, state, rpc, cur, spawning>>
      /\ waking' = [waking EXCEPT ![w].pc = "append"]
      /\ waking[w].pc = "remove"
  BY Zenon, <1>1 DEF UnblockRemove, bodies, runner
<1>3. Single(t) /\ t # None
  BY Zenon, GreenAssumption DEF GreenInv
<1>4. On(blocked, t) /\ ~On(runQueue, t) /\ cur # t /\ spawning # t /\ t \in Live
  BY Zenon, <1>0, <1>1, <1>3 DEF Single
<1>5. /\ blocked' \in Seq(Threads) /\ Distinct(blocked')
      /\ \A s \in Threads : On(blocked', s) <=> On(blocked, s) /\ s # t
  <2>1. PICK k \in DOMAIN blocked : /\ blocked[k] = t /\ {i \in DOMAIN blocked : blocked[i] = t} = {k}
                                     /\ Min({i \in DOMAIN blocked : blocked[i] = t}) = k
    BY Zenon, <1>0, <1>4, SlotOn
  <2>2. blocked' = cut(blocked, k)
    BY Zenon, <1>1, <2>1 DEF UnblockRemove
  <2> QED
    BY Zenon, <1>0, <2>1, <2>2, CutOn
<1>6. waking'[w] = [pc |-> "append", t |-> t] /\ \A v \in Wakers : v = w
  BY <1>1, <1>2 DEF OneWaker, GreenInv, GreenType
<1>7. \A s \in Threads : (Woken(s)' <=> s = t) /\ ~Woken(s)
  BY <1>2, <1>6 DEF Woken
<1>8. /\ Distinct(blocked)' /\ Distinct(runQueue)'
      /\ \A s \in Threads : /\ On(blocked, s)' <=> On(blocked, s) /\ s # t
                            /\ On(runQueue, s)' <=> On(runQueue, s)
  BY Zenon, <1>2, <1>5 DEF Distinct, On, GreenInv
<1>9. GreenType'
  BY Zenon, <1>2, <1>5 DEF GreenInv, GreenType, counters
<1>10. HandsInv'
  BY <1>2, <1>6 DEF GreenInv, HandsInv
<1>11. Live' = Live /\ Done' = Done
  BY Zenon, <1>2 DEF Live, Done, Spawned
<1>12. ActiveExact'
  BY Zenon, <1>2, <1>11 DEF GreenInv, ActiveExact, counters
<1>13. ASSUME NEW s \in Threads PROVE Single(s)'
  <2>1. Single(s)
    BY Zenon DEF GreenInv
  <2>2. cur' = cur /\ spawning' = spawning
    BY Zenon, <1>2
  <2> QED
    BY Zenon, <1>4, <1>7, <1>8, <1>11, <2>1, <2>2 DEF Single
<1> QED
  BY Zenon, <1>8, <1>9, <1>10, <1>12, <1>13 DEF GreenInv

\* pickNext takes a thread off the run queue into Run's hand.
LEMMA RunPickKeeps ==
  ASSUME GreenInv, RunPick, runQueue # <<>>
  PROVE  GreenInv'
<1>0. runQueue \in Seq(Threads) /\ Distinct(runQueue) /\ cur = None
  BY Zenon DEF RunPick, GreenInv, GreenType, HandsInv
<1>1. PICK k \in DOMAIN runQueue : k = best(runQueue)
  BY Zenon, <1>0, BestSlot
<1>2. PICK t \in Threads : t = runQueue[k]
  BY Zenon, <1>0, ElementOfSeq, LenProperties
<1>3. /\ UNCHANGED <<blocked, counters, state, spawning, waking>>
      /\ runQueue' = cut(runQueue, k) /\ cur' = t /\ rpc' = "exec"
  BY Zenon, <1>1, <1>2 DEF RunPick, bodies, others
<1>4. On(runQueue, t) /\ Single(t) /\ t # None
  BY Zenon, <1>2, GreenAssumption DEF GreenInv, On
<1>5. /\ runQueue' \in Seq(Threads) /\ Distinct(runQueue')
      /\ \A s \in Threads : On(runQueue', s) <=> On(runQueue, s) /\ s # t
  BY Zenon, <1>0, <1>2, <1>3, CutOn
<1>6. /\ Distinct(blocked)' /\ Distinct(runQueue)'
      /\ \A s \in Threads : /\ On(runQueue, s)' <=> On(runQueue, s) /\ s # t
                            /\ On(blocked, s)' <=> On(blocked, s)
                            /\ Woken(s)' <=> Woken(s)
  BY Zenon, <1>3, <1>5 DEF Distinct, On, GreenInv, Woken
<1>7. GreenType'
  BY Zenon, <1>3, <1>5 DEF GreenInv, GreenType, counters
<1>8. HandsInv'
  BY Zenon, <1>3, <1>4 DEF GreenInv, HandsInv, On
<1>9. Live' = Live /\ Done' = Done
  BY Zenon, <1>3 DEF Live, Done, Spawned
<1>10. ActiveExact'
  BY Zenon, <1>3, <1>9 DEF GreenInv, ActiveExact, counters
<1>11. ASSUME NEW s \in Threads PROVE Single(s)'
  <2>1. Single(s) /\ s # None
    BY Zenon, GreenAssumption DEF GreenInv
  <2>2. cur' = t /\ cur # s /\ spawning' = spawning
    BY Zenon, <1>0, <1>3, <2>1
  <2> QED
    BY Zenon, <1>4, <1>6, <1>9, <2>1, <2>2 DEF Single
<1> QED
  BY Zenon, <1>6, <1>7, <1>8, <1>10, <1>11 DEF GreenInv

\* executeThread: the thread in hand is alive, so a body that ends is counted
\* once, as completed or as failed.
LEMMA FinishKeeps ==
  ASSUME GreenInv, rpc = "exec", UNCHANGED <<lists, others>>,
         NEW o \in {"completed", "failed"}, Finish(o)
  PROVE  GreenInv'
<1>1. PICK t \in Threads : t = cur
  BY Zenon DEF GreenInv, GreenType, HandsInv
<1>2. /\ UNCHANGED <<runQueue, blocked, spawning, waking>> /\ cur' = None /\ rpc' = "loop"
      /\ state' = [state EXCEPT ![t] = o] /\ activeThreads' = activeThreads - 1
      /\ totalCompleted' + totalFailed' = totalCompleted + totalFailed + 1
      /\ totalCompleted' \in Int /\ totalFailed' \in Int
  BY <1>1 DEF Finish, lists, others, GreenInv, GreenType
<1>3. Single(t) /\ t # None
  BY Zenon, GreenAssumption DEF GreenInv
<1>4. /\ ~On(runQueue, t) /\ ~On(blocked, t) /\ t \in Live /\ spawning # t /\ ~Woken(t)
  BY Zenon, <1>1, <1>3 DEF Single
<1>5. GreenType'
  BY <1>2 DEF GreenInv, GreenType
<1>6. HandsInv'
  BY Zenon, <1>2 DEF GreenInv, HandsInv, On
<1>7. Live' = Live \ {t} /\ Done' = Done \cup {t} /\ t \notin Done
  BY Zenon, <1>2, <1>4 DEF GreenInv, GreenType, Live, Done, Spawned
<1>8. ActiveExact'
  <2>1. IsFiniteSet(Live) /\ IsFiniteSet(Done) /\ Cardinality(Live) \in Nat /\ Cardinality(Done) \in Nat
    BY Zenon, LiveFinite DEF GreenInv
  <2>2. Cardinality(Live \ {t}) = Cardinality(Live) - 1
    BY Zenon, <1>4, <2>1, FS_RemoveElement
  <2>3. Cardinality(Done \cup {t}) = Cardinality(Done) + 1
    BY Zenon, <1>7, <2>1, FS_AddElement
  <2> QED
    BY Zenon, <1>2, <1>7, <2>1, <2>2, <2>3 DEF GreenInv, ActiveExact
<1>9. /\ Distinct(blocked)' /\ Distinct(runQueue)'
      /\ \A s \in Threads : /\ On(runQueue, s)' <=> On(runQueue, s)
                            /\ On(blocked, s)' <=> On(blocked, s)
                            /\ Woken(s)' <=> Woken(s)
  BY Zenon, <1>2 DEF Distinct, On, GreenInv, Woken
<1>10. ASSUME NEW s \in Threads PROVE Single(s)'
  <2>1. Single(s) /\ s # None
    BY Zenon, GreenAssumption DEF GreenInv
  <2>2. spawning' = spawning /\ (s # t => (cur' = s <=> cur = s)) /\ cur' # s
    BY Zenon, <1>1, <1>2, <2>1
  <2> QED
    BY Zenon, <1>1, <1>4, <1>7, <1>9, <2>1, <2>2 DEF Single
<1> QED
  BY Zenon, <1>5, <1>6, <1>8, <1>9, <1>10 DEF GreenInv

\* A step that moves no thread and ends none.
LEMMA QuietKeeps ==
  ASSUME GreenInv, UNCHANGED <<lists, counters, cur, spawning>>,
         GreenType', HandsInv', Live' = Live, Done' = Done,
         \A s \in Threads : Woken(s)' <=> Woken(s)
  PROVE  GreenInv'
<1>1. /\ Distinct(blocked)' /\ Distinct(runQueue)'
      /\ \A s \in Threads : /\ On(runQueue, s)' <=> On(runQueue, s)
                            /\ On(blocked, s)' <=> On(blocked, s)
  BY Zenon DEF Distinct, On, GreenInv, lists
<1>2. ActiveExact'
  BY Zenon DEF GreenInv, ActiveExact, counters
<1>3. ASSUME NEW s \in Threads PROVE Single(s)'
  <2>1. Single(s)
    BY Zenon DEF GreenInv
  <2> QED
    BY Zenon, <1>1, <2>1 DEF Single
<1> QED
  BY Zenon, <1>1, <1>2, <1>3 DEF GreenInv

\* executeThread: the thread in hand completes, fails, blocks or yields, and
\* is then where its state says it is.
LEMMA ExecuteKeeps ==
  ASSUME GreenInv, Execute
  PROVE  GreenInv'
<1>1. CASE Yield
  <2>1. PICK t \in Threads : t = cur
    BY Zenon DEF Execute, GreenInv, GreenType, HandsInv
  <2>2. /\ UNCHANGED <<lists, counters, cur, spawning, waking>> /\ rpc' = "suspended" /\ rpc = "exec"
        /\ state' = [state EXCEPT ![t] = "suspended"] /\ t \notin Done
    BY Zenon, <1>1, <2>1 DEF Execute, Yield, others
  <2>3. t \in Live
    BY Zenon, <2>1 DEF GreenInv, Single
  <2>4. Live' = Live /\ Done' = Done
    BY Zenon, <2>2, <2>3 DEF GreenInv, GreenType, Live, Done, Spawned
  <2>5. GreenType'
    BY Zenon, <2>2 DEF GreenInv, GreenType, lists, counters
  <2>6. HandsInv'
    BY Zenon, <2>2 DEF GreenInv, HandsInv, On, lists
  <2>7. \A s \in Threads : Woken(s)' <=> Woken(s)
    BY Zenon, <2>2 DEF Woken
  <2> QED
    BY Zenon, <2>2, <2>4, <2>5, <2>6, <2>7, QuietKeeps
<1>2. ASSUME NEW o \in {"completed", "failed"}, Finish(o) PROVE GreenInv'
  BY Zenon, <1>2, FinishKeeps DEF Execute
<1> QED
  BY Zenon, <1>1, <1>2 DEF Execute

\* The steps of Run, Stop and Wait that only look, and those of others that
\* touch no thread.
LEMMA LookKeeps ==
  ASSUME GreenInv, UNCHANGED <<lists, counters, state, cur, spawning, waking>>,
         rpc' \in {"off", "loop", "pick", "idle", "exec", "suspended", "block", "requeue"},
         rpc \in {"exec", "suspended", "block", "requeue"} <=>
           rpc' \in {"exec", "suspended", "block", "requeue"}
  PROVE  GreenInv'
<1>1. Live' = Live /\ Done' = Done
  BY Zenon DEF Live, Done, Spawned
<1>2. GreenType'
  BY Zenon DEF GreenInv, GreenType, lists, counters
<1>3. HandsInv'
  BY Zenon DEF GreenInv, HandsInv, On, lists
<1>4. \A s \in Threads : Woken(s)' <=> Woken(s)
  BY Zenon DEF Woken
<1> QED
  BY Zenon, <1>1, <1>2, <1>3, <1>4, QuietKeeps

\* UnblockThread is called for a thread on the blocked list.
LEMMA CallUnblockKeeps ==
  ASSUME OneWaker, GreenInv, NEW w \in Wakers, NEW t \in Threads, CallUnblock(w, t)
  PROVE  GreenInv'
<1>1. /\ UNCHANGED <<lists, counters, state, rpc, cur, spawning>> /\ waking[w] = NotWaking
      /\ waking' = [waking EXCEPT ![w] = [pc |-> "remove", t |-> t]] /\ t \in Range(blocked)
  BY Zenon DEF CallUnblock, bodies, runner
<1>2. waking'[w] = [pc |-> "remove", t |-> t] /\ \A v \in Wakers : v = w
  BY Zenon, <1>1 DEF OneWaker, GreenInv, GreenType
<1>3. On(blocked, t)
  BY Zenon, <1>1 DEF On, Range
<1>4. Live' = Live /\ Done' = Done
  BY Zenon, <1>1 DEF Live, Done, Spawned
<1>5. GreenType'
  BY Zenon, <1>1 DEF GreenInv, GreenType, lists, counters
<1>6. HandsInv'
  BY <1>1, <1>2, <1>3 DEF GreenInv, HandsInv, On, lists
<1>7. \A s \in Threads : Woken(s)' <=> Woken(s)
  BY <1>1, <1>2 DEF Woken, NotWaking
<1> QED
  BY Zenon, <1>1, <1>4, <1>5, <1>6, <1>7, QuietKeeps

-----------------------------------------------------------------------------
\* NewGreenThreadScheduler: no thread is anywhere and none is counted.
LEMMA GreenInitial == Init => GreenInv
<1> SUFFICES ASSUME Init PROVE GreenInv
  BY Zenon
<1>0. /\ runQueue = <<>> /\ blocked = <<>> /\ cur = None /\ spawning = None /\ rpc = "off"
      /\ state = [t \in Threads |-> "none"] /\ waking = [w \in Wakers |-> NotWaking]
      /\ activeThreads = 0 /\ totalCompleted = 0 /\ totalFailed = 0
  BY Zenon DEF Init
<1>1. runQueue \in Seq(Threads) /\ blocked \in Seq(Threads) /\ DOMAIN runQueue = {} /\ DOMAIN blocked = {}
  BY <1>0, EmptySeq
<1>2. GreenType
  BY <1>0, <1>1 DEF GreenType, NotWaking
<1>3. Live = {} /\ Done = {}
  BY Zenon, <1>0 DEF Live, Done, Spawned
<1>4. HandsInv /\ \A s \in Threads : ~Woken(s)
  BY Zenon, <1>0 DEF HandsInv, NotWaking, Woken
<1>5. \A s \in Threads : Single(s)
  BY Zenon, <1>0, <1>1, <1>3, <1>4, GreenAssumption DEF Single, On
<1>6. ActiveExact
  BY <1>0, <1>3, FS_EmptySet DEF ActiveExact
<1> QED
  BY Zenon, <1>1, <1>2, <1>4, <1>5, <1>6 DEF GreenInv, Distinct

\* Spawn, the loop of Run, executeThread and UnblockThread keep the invariant.
LEMMA GreenStep ==
  ASSUME OneWaker, GreenInv, [Next]_vars
  PROVE  GreenInv'
<1>1. ASSUME NEW t \in Threads, SpawnCount(t) PROVE GreenInv'
  BY Zenon, <1>1, SpawnCountKeeps
<1>2. ASSUME NEW t \in Threads, Deliver(t) PROVE GreenInv'
  <2>1. UNCHANGED <<lists, counters, state, rpc, cur, spawning, waking>>
    BY Zenon, <1>2 DEF Deliver, runner, others
  <2> QED
    BY Zenon, <2>1, LookKeeps DEF GreenInv, GreenType
<1>3. CASE SpawnQueue
  BY Zenon, <1>3, SpawnQueueKeeps
<1>4. CASE Stop \/ WaitRunQueue \/ WaitBlocked \/ WaitDone
  <2>1. UNCHANGED <<lists, counters, state, rpc, cur, spawning, waking>>
    BY Zenon, <1>4 DEF Stop, WaitRunQueue, WaitBlocked, WaitDone, runner, bodies
  <2> QED
    BY Zenon, <2>1, LookKeeps DEF GreenInv, GreenType
<1>5. CASE RunStart \/ RunLoop \/ RunIdle \/ Suspended \/ (RunPick /\ runQueue = <<>>)
  <2>1. UNCHANGED <<lists, counters, state, cur, spawning, waking>>
    BY Zenon, <1>5 DEF RunStart, RunLoop, RunIdle, Suspended, RunPick, lists, bodies, others
  <2>2. /\ rpc' \in {"off", "loop", "pick", "idle", "exec", "suspended", "block", "requeue"}
        /\ rpc \in {"exec", "suspended", "block", "requeue"} <=>
             rpc' \in {"exec", "suspended", "block", "requeue"}
    BY Zenon, <1>5 DEF RunStart, RunLoop, RunIdle, Suspended, RunPick
  <2> QED
    BY Zenon, <2>1, <2>2, LookKeeps
<1>6. CASE RunPick /\ runQueue # <<>>
  BY Zenon, <1>6, RunPickKeeps
<1>7. CASE Execute
  BY Zenon, <1>7, ExecuteKeeps
<1>8. CASE Requeue
  BY Zenon, <1>8, RequeueKeeps, BlockKeeps DEF Requeue
<1>9. ASSUME NEW w \in Wakers, WakerStep(w) PROVE GreenInv'
  BY Zenon, <1>9, CallUnblockKeeps, UnblockRemoveKeeps, UnblockAppendKeeps DEF WakerStep
<1>10. CASE UNCHANGED vars
  <2>1. UNCHANGED <<lists, counters, state, rpc, cur, spawning, waking>>
    BY Zenon, <1>10 DEF vars, bodies, runner, others
  <2> QED
    BY Zenon, <2>1, LookKeeps DEF GreenInv, GreenType
<1> QED
  BY Zenon, <1>1, <1>2, <1>3, <1>4, <1>5, <1>6, <1>7, <1>8, <1>9, <1>10 DEF Next, RunStep

\* The invariant holds in every state of the scheduler.
LEMMA GreenInvariant ==
  ASSUME OneWaker
  PROVE  Spec => []GreenInv
<1>1. GreenInv /\ [Next]_vars => GreenInv'
  BY Zenon, GreenStep
<1> QED
  BY <1>1, GreenInitial, PTL DEF Spec

\* Slots of a list that hold a thread.
LEMMA OccurrencesOn ==
  ASSUME NEW q \in Seq(Threads), Distinct(q), NEW t
  PROVE  Occurrences(q, t) = IF On(q, t) THEN 1 ELSE 0
<1>1. CASE On(q, t)
  <2>1. PICK i \in DOMAIN q : q[i] = t
    BY Zenon, <1>1 DEF On
  <2>2. {j \in DOMAIN q : q[j] = t} = {i}
    BY Zenon, <2>1 DEF Distinct
  <2> QED
    BY Zenon, <1>1, <2>2, FS_Singleton DEF Occurrences
<1>2. CASE ~On(q, t)
  <2>1. {j \in DOMAIN q : q[j] = t} = {}
    BY Zenon, <1>2 DEF On
  <2> QED
    BY Zenon, <1>2, <2>1, FS_EmptySet DEF Occurrences
<1> QED
  BY Zenon, <1>1, <1>2

\* With one goroutine that unblocks, no thread is lost or runs twice, for any
\* number of threads, priorities, bound channels and yields: each that is not
\* done is in exactly one place (Spawn, Run, executeThread, UnblockThread).
THEOREM ThreadsInOnePlace ==
  ASSUME OneWaker
  PROVE  Spec => []InOnePlace
<1>1. GreenInv => InOnePlace
  <2> SUFFICES ASSUME GreenInv, NEW t \in Threads PROVE Places(t) = IF t \in Live THEN 1 ELSE 0
    BY Zenon DEF InOnePlace
  <2>1. /\ Occurrences(runQueue, t) = IF On(runQueue, t) THEN 1 ELSE 0
        /\ Occurrences(blocked, t) = IF On(blocked, t) THEN 1 ELSE 0
    BY Zenon, OccurrencesOn DEF GreenInv, GreenType
  <2>2. Cardinality({w \in Wakers : waking[w] = [pc |-> "append", t |-> t]}) = IF Woken(t) THEN 1 ELSE 0
    <3>1. CASE Woken(t)
      <4>1. PICK w \in Wakers : waking[w] = [pc |-> "append", t |-> t]
        BY Zenon, <3>1 DEF Woken
      <4>2. {v \in Wakers : waking[v] = [pc |-> "append", t |-> t]} = {w}
        BY Zenon, <4>1 DEF OneWaker
      <4> QED
        BY Zenon, <3>1, <4>2, FS_Singleton
    <3>2. CASE ~Woken(t)
      <4>1. {v \in Wakers : waking[v] = [pc |-> "append", t |-> t]} = {}
        BY Zenon, <3>2 DEF Woken
      <4> QED
        BY Zenon, <3>2, <4>1, FS_EmptySet
    <3> QED
      BY Zenon, <3>1, <3>2
  <2>3. Single(t)
    BY Zenon DEF GreenInv
  <2> QED
    BY <2>1, <2>2, <2>3 DEF Places, Single
<1> QED
  BY <1>1, GreenInvariant, PTL

\* activeThreads is the number of threads alive, and the totals count every
\* thread that ended once (Spawn, executeThread).
THEOREM ActiveThreadsExact ==
  ASSUME OneWaker
  PROVE  Spec => []ActiveExact
<1>1. GreenInv => ActiveExact
  BY Zenon DEF GreenInv
<1> QED
  BY <1>1, GreenInvariant, PTL

\* Run returns only when no thread is left or Stop was called.
THEOREM RunReturnsInTime ==
  ASSUME OneWaker
  PROVE  Spec => RunReturnsWhenDone
<1>1. GreenInv /\ [Next]_vars => [rpc # "off" /\ rpc' = "off" => Live = {} \/ stopCh]_vars
  <2> SUFFICES ASSUME GreenInv, Next, rpc # "off", rpc' = "off" PROVE Live = {} \/ stopCh
    BY Zenon
  <2>1. CASE RunIdle
    <3>1. activeThreads = 0
      BY Zenon, <2>1 DEF RunIdle
    <3> QED
      BY Zenon, <3>1, LiveFinite, FS_EmptySet DEF GreenInv, ActiveExact
  <2>2. CASE RunLoop
    BY Zenon, <2>2 DEF RunLoop
  <2>3. RunIdle \/ RunLoop
    BY Zenon DEF Next, RunStep, WakerStep, SpawnCount, SpawnQueue, Deliver, Stop, WaitRunQueue, WaitBlocked, WaitDone,
       RunStart, RunPick, Execute, Finish, Yield, Suspended, Requeue, CallUnblock, UnblockRemove,
       UnblockAppend, runner
  <2> QED
    BY Zenon, <2>1, <2>2, <2>3
<1> QED
  BY <1>1, GreenInvariant, PTL DEF Spec, RunReturnsWhenDone
=====
