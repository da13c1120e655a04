----------------------------- MODULE ToolProofs -----------------------------
(***************************************************************************)
(* The tools: the verdicts of the test runner are exact, a resolution      *)
(* follows every import of a module's first file and orders the modules,   *)
(* and the members of a workspace are built in the order of their          *)
(* dependencies.                                                           *)
(***************************************************************************)
EXTENDS TestRunner, ModuleGraph, Workspace, FiniteSetTheorems, WellFoundedInduction, TLAPS

-----------------------------------------------------------------------------
(* The test runner (TestRunner).                                           *)

Phases == {"waiting", "write", "compile", "start", "run", "remove", "send", "done"}
Errors == {"none", "compile", "missing", "failed"}

\* Every variable keeps its type.
TypeOK ==
  /\ works \in [Tests -> {"passes", "fails", "hangs"}]
  /\ cur \in 1..(N + 1)
  /\ cfile \in 0..N /\ exe \in 0..N
  /\ phase \in [Tests -> Phases]
  /\ proc \in [Tests -> 0..N]
  /\ err \in [Tests -> Errors]
  /\ ch \in [Tests -> BOOLEAN]
  /\ verdict \in [Tests -> Errors \cup {"pass", "timeout"}]

\* Some test before t has timed out.
TimedOutBefore(t) == \E u \in 1..(t - 1) : verdict[u] = "timeout"

\* The runner is at one test: later ones have not begun, earlier ones have a
\* result and are past the start of their program, and those not yet at their
\* end have timed out.
Progress ==
  /\ \A t \in Tests : t > cur => phase[t] = "waiting"
  /\ \A t \in Tests : t >= cur => verdict[t] = "none"
  /\ \A t \in Tests : t < cur => /\ phase[t] \in {"run", "remove", "send", "done"}
                                 /\ phase[t] # "done" => verdict[t] = "timeout"

\* The two shared files belong to the test the runner is at, until its program
\* is started; only a test that has timed out can have removed the executable.
FilesOwned ==
  cur \in Tests =>
    /\ phase[cur] = "compile" => cfile = cur
    /\ phase[cur] = "start" => exe = cur \/ (exe = None /\ TimedOutBefore(cur))

\* What the goroutine of test t reports is what its own program did.
Honest(t) ==
  /\ phase[t] \in {"waiting", "write", "compile", "start", "run"} => err[t] = "none"
  /\ phase[t] = "run" => proc[t] = t
  /\ phase[t] \in {"remove", "send", "done"} =>
       /\ err[t] = "none" => proc[t] = t /\ works[t] = "passes"
       /\ err[t] = "failed" => proc[t] = t /\ works[t] = "fails"
       /\ err[t] = "missing" => TimedOutBefore(t)
  /\ ch[t] => phase[t] = "done"

RunnerInv == TypeOK /\ Progress /\ FilesOwned /\ (\A t \in Tests : Honest(t)) /\ VerdictExact

-----------------------------------------------------------------------------
\* The runner starts at the first test, with no file and no result.
LEMMA RunnerInitial == Init => RunnerInv
BY NAssumption DEF Init, RunnerInv, TypeOK, Progress, FilesOwned, Honest, VerdictExact,
   TimedOutBefore, Tests, None, Phases, Errors

\* Only the goroutine of the test the runner is at is before the start of its
\* program.
LEMMA EarlyIsCurrent ==
  ASSUME RunnerInv, NEW t \in Tests, phase[t] \in {"write", "compile", "start"}
  PROVE  t = cur
<1>1. t \in Nat /\ cur \in Nat
  BY NAssumption DEF RunnerInv, TypeOK, Tests
<1>2. ~(t > cur)
  BY Zenon DEF RunnerInv, Progress
<1>3. ~(t < cur)
  BY Zenon DEF RunnerInv, Progress
<1> QED
  BY <1>1, <1>2, <1>3

\* The steps of a goroutine: WriteC, CompileC, StartProgram, ProgramEnds,
\* RemoveExe and SendResult keep the files and the reports in order.
LEMMA GoroutineKeeps ==
  ASSUME RunnerInv, NEW t \in Tests, Goroutine(t)
  PROVE  RunnerInv'
<1> USE NAssumption
<1>1. CASE WriteC(t)
  <2>1. t = cur
    BY Zenon, <1>1, EarlyIsCurrent DEF WriteC
  <2> QED
    BY <1>1, <2>1 DEF WriteC, Enter, RunnerInv, TypeOK, Progress, FilesOwned, Honest, VerdictExact,
       TimedOutBefore, Tests, None, Phases, Errors
<1>2. CASE CompileC(t)
  <2>1. t = cur
    BY Zenon, <1>2, EarlyIsCurrent DEF CompileC
  <2>2. cfile = t
    BY Zenon, <1>2, <2>1 DEF CompileC, RunnerInv, FilesOwned
  <2>3. CASE exe' = t /\ Enter(t, "start") /\ UNCHANGED err
    BY <1>2, <2>1, <2>3 DEF CompileC, Enter, RunnerInv, TypeOK, Progress, FilesOwned, Honest, VerdictExact,
       TimedOutBefore, Tests, None, Phases, Errors
  <2>4. CASE err' = [err EXCEPT ![t] = "compile"] /\ Enter(t, "send") /\ UNCHANGED exe
    <3>1. TypeOK'
      BY Zenon, <1>2, <2>1, <2>4
         DEF CompileC, Enter, RunnerInv, TypeOK, Tests, None, Phases, Errors
    <3>2. Progress'
      BY Zenon, <1>2, <2>1, <2>4
         DEF CompileC, Enter, RunnerInv, TypeOK, Progress, Tests, None, Phases, Errors
    <3>3. FilesOwned'
      BY Zenon, <1>2, <2>1, <2>4
         DEF CompileC, Enter, RunnerInv, TypeOK, FilesOwned, TimedOutBefore, Tests, None, Phases, Errors
    <3>4. ASSUME NEW u \in Tests PROVE Honest(u)'
      BY <1>2, <2>1, <2>4
         DEF CompileC, Enter, RunnerInv, TypeOK, Honest, TimedOutBefore, Tests, None, Phases, Errors
    <3>5. VerdictExact'
      BY <1>2, <2>1, <2>4
         DEF CompileC, Enter, RunnerInv, TypeOK, Progress, VerdictExact, Tests, None, Phases, Errors
    <3> QED
      BY Zenon, <3>1, <3>2, <3>3, <3>4, <3>5 DEF RunnerInv
  <2> QED
    BY Zenon, <1>2, <2>2, <2>3, <2>4 DEF CompileC
<1>3. CASE StartProgram(t)
  <2>1. t = cur
    BY Zenon, <1>3, EarlyIsCurrent DEF StartProgram
  <2>2. exe = t \/ (exe = None /\ TimedOutBefore(t))
    BY Zenon, <1>3, <2>1 DEF StartProgram, RunnerInv, FilesOwned
  <2>3. CASE exe = None
    <3>1. TypeOK'
      BY <1>3, <2>1, <2>2, <2>3
         DEF StartProgram, Enter, RunnerInv, TypeOK, Tests, None, Phases, Errors
    <3>2. Progress'
      BY <1>3, <2>1, <2>2, <2>3
         DEF StartProgram, Enter, RunnerInv, TypeOK, Progress, Tests, None, Phases, Errors
    <3>3. FilesOwned'
      BY Zenon, <1>3, <2>1, <2>2, <2>3
         DEF StartProgram, Enter, RunnerInv, TypeOK, FilesOwned, TimedOutBefore, Tests, None, Phases, Errors
    <3>4. ASSUME NEW u \in Tests PROVE Honest(u)'
      BY <1>3, <2>1, <2>2, <2>3
         DEF StartProgram, Enter, RunnerInv, TypeOK, Honest, TimedOutBefore, Tests, None, Phases, Errors
    <3>5. VerdictExact'
      BY <1>3, <2>1, <2>2, <2>3
         DEF StartProgram, Enter, RunnerInv, TypeOK, Progress, VerdictExact, Tests, None, Phases, Errors
    <3> QED
      BY Zenon, <3>1, <3>2, <3>3, <3>4, <3>5 DEF RunnerInv
  <2>4. CASE exe # None
    <3>0. exe = t /\ exe \in 0..N
      BY Zenon, <2>2, <2>4 DEF RunnerInv, TypeOK
    <3>1. TypeOK'
      <4>1. proc' = [proc EXCEPT ![t] = t] /\ phase' = [phase EXCEPT ![t] = "run"]
        BY Zenon, <1>3, <2>4, <3>0 DEF StartProgram, Enter
      <4>2. proc' \in [Tests -> 0..N] /\ phase' \in [Tests -> Phases]
        BY Zenon, <3>0, <4>1 DEF RunnerInv, TypeOK, Phases
      <4> QED
        BY Zenon, <1>3, <2>4, <4>2 DEF StartProgram, RunnerInv, TypeOK
    <3>2. Progress'
      BY <1>3, <2>1, <2>4, <3>0
         DEF StartProgram, Enter, RunnerInv, TypeOK, Progress, Tests, None, Phases, Errors
    <3>3. FilesOwned'
      BY Zenon, <1>3, <2>1, <2>4, <3>0
         DEF StartProgram, Enter, RunnerInv, TypeOK, FilesOwned, TimedOutBefore, Tests, None, Phases, Errors
    <3>4. ASSUME NEW u \in Tests PROVE Honest(u)'
      BY <1>3, <2>1, <2>4, <3>0
         DEF StartProgram, Enter, RunnerInv, TypeOK, Honest, TimedOutBefore, Tests, None, Phases, Errors
    <3>5. VerdictExact'
      BY <1>3, <2>1, <2>4, <3>0
         DEF StartProgram, Enter, RunnerInv, TypeOK, Progress, VerdictExact, Tests, None, Phases, Errors
    <3> QED
      BY Zenon, <3>1, <3>2, <3>3, <3>4, <3>5 DEF RunnerInv
  <2> QED
    BY Zenon, <2>3, <2>4
<1>4. CASE ProgramEnds(t)
  BY <1>4 DEF ProgramEnds, Enter, RunnerInv, TypeOK, Progress, FilesOwned, Honest, VerdictExact,
     TimedOutBefore, Tests, None, Phases, Errors
<1>5. CASE RemoveExe(t)
  BY <1>5 DEF RemoveExe, Enter, RunnerInv, TypeOK, Progress, FilesOwned, Honest, VerdictExact,
     TimedOutBefore, Tests, None, Phases, Errors
<1>6. CASE SendResult(t)
  BY <1>6 DEF SendResult, room, Enter, RunnerInv, TypeOK, Progress, FilesOwned, Honest, VerdictExact,
     TimedOutBefore, Tests, None, Phases, Errors
<1> QED
  BY Zenon, <1>1, <1>2, <1>3, <1>4, <1>5, <1>6 DEF Goroutine

\* runSingleTest returns: the runner goes on to the next test, and a timeout
\* leaves a goroutine behind that can only disturb the executable.
LEMMA ReturnKeeps ==
  ASSUME RunnerInv, TakeResult \/ TimeOut
  PROVE  RunnerInv'
<1> USE NAssumption
<1> DEFINE v == verdict'[cur]
<1>1. /\ cur \in Tests /\ phase[cur] \in {"run", "remove", "send", "done"}
      /\ Return(v)
      /\ v \in Errors \cup {"pass", "timeout"}
      /\ v = "timeout" \/ (phase[cur] = "done" /\ v # "none" /\ v = IF err[cur] = "none" THEN "pass" ELSE err[cur])
  <2>1. CASE TakeResult
    BY <2>1 DEF TakeResult, Return, RunnerInv, TypeOK, Honest, Tests, Errors
  <2>2. CASE TimeOut
    BY Zenon, <2>2 DEF TimeOut, late, Return, RunnerInv, TypeOK, Tests, Errors
  <2> QED
    BY Zenon, <2>1, <2>2
<1>2. ch' \in [Tests -> BOOLEAN] /\ \A u \in Tests : ch'[u] => ch[u]
  BY Zenon, <1>1 DEF TakeResult, TimeOut, RunnerInv, TypeOK, Tests
<1>3. \A u \in Tests : TimedOutBefore(u) => TimedOutBefore(u)'
  BY <1>1 DEF TimedOutBefore, Return, RunnerInv, TypeOK, Progress, Tests
<1> HIDE DEF v
<1>4. TypeOK'
  BY <1>1, <1>2 DEF Return, RunnerInv, TypeOK, Tests, None, Phases, Errors
<1>5. Progress'
  BY <1>1 DEF Return, RunnerInv, TypeOK, Progress, Tests
<1>6. FilesOwned'
  BY Zenon, <1>1 DEF Return, RunnerInv, TypeOK, FilesOwned, Tests
<1>7. ASSUME NEW u \in Tests PROVE Honest(u)'
  <2>1. err'[u] = err[u] /\ proc'[u] = proc[u] /\ works'[u] = works[u]
    BY Zenon, <1>1 DEF Return
  <2>2. CASE u = cur + 1
    BY <1>1, <1>2, <2>1, <2>2 DEF Return, RunnerInv, TypeOK, Progress, Honest, Tests
  <2>3. CASE u # cur + 1
    <3>1. phase'[u] = phase[u]
      BY Zenon, <1>1, <2>3 DEF Return
    <3>2. (ch'[u] => ch[u]) /\ (TimedOutBefore(u) => TimedOutBefore(u)')
      BY Zenon, <1>2, <1>3
    <3>3. Honest(u)
      BY Zenon DEF RunnerInv
    <3> QED
      BY ONLY <2>1, <3>1, <3>2, <3>3 DEF Honest
  <2> QED
    BY Zenon, <2>2, <2>3
<1>8. VerdictExact'
  <2> SUFFICES ASSUME NEW u \in Tests
               PROVE  /\ verdict'[u] = "pass" => works'[u] = "passes" /\ proc'[u] = u
                      /\ verdict'[u] = "failed" => works'[u] = "fails" /\ proc'[u] = u
                      /\ verdict'[u] = "missing" => TimedOutBefore(u)'
    BY Zenon DEF VerdictExact, TimedOutBefore
  <2>1. works' = works /\ proc' = proc
    BY Zenon, <1>1 DEF Return
  <2>2. CASE u = cur
    <3>1. verdict'[u] = v
      BY Zenon, <2>2 DEF v
    <3>2. CASE v = "timeout"
      BY Zenon, <3>1, <3>2
    <3>3. CASE phase[u] = "done" /\ v = IF err[u] = "none" THEN "pass" ELSE err[u]
      BY <1>3, <2>1, <3>1, <3>3 DEF RunnerInv, TypeOK, Honest, Errors
    <3> QED
      BY Zenon, <1>1, <2>2, <3>2, <3>3
  <2>3. CASE u # cur
    <3>1. verdict'[u] = verdict[u]
      BY Zenon, <1>1, <2>3 DEF Return, RunnerInv, TypeOK
    <3>2. verdict[u] = "missing" => TimedOutBefore(u)
      BY Zenon DEF RunnerInv, VerdictExact, TimedOutBefore
    <3> QED
      BY Zenon, <1>3, <2>1, <3>1, <3>2 DEF RunnerInv, VerdictExact
  <2> QED
    BY Zenon, <2>2, <2>3
<1> QED
  BY Zenon, <1>4, <1>5, <1>6, <1>7, <1>8 DEF RunnerInv

-----------------------------------------------------------------------------
\* runTestsInFile, for a file of any number of tests: a test passes or fails
\* only by what its own program did, and an executable is missing only after
\* a timeout.
THEOREM VerdictsAreExact == Spec => []VerdictExact
<1>1. RunnerInv /\ [Next]_vars => RunnerInv'
  <2> SUFFICES ASSUME RunnerInv, [Next]_vars
               PROVE  RunnerInv'
    BY Zenon
  <2>1. ASSUME NEW t \in Tests, Goroutine(t) PROVE RunnerInv'
    BY Zenon, <2>1, GoroutineKeeps
  <2>2. CASE TakeResult \/ TimeOut
    BY Zenon, <2>2, ReturnKeeps
  <2>3. CASE UNCHANGED vars
    BY <2>3 DEF vars, RunnerInv, TypeOK, Progress, FilesOwned, Honest, TimedOutBefore,
       VerdictExact
  <2> QED
    BY Zenon, <2>1, <2>2, <2>3 DEF Next
<1>2. RunnerInv => VerdictExact
  BY Zenon DEF RunnerInv
<1> QED
  BY RunnerInitial, <1>1, <1>2, PTL DEF Spec
-----------------------------------------------------------------------------
(* The walk over the imports of a compilation (ModuleGraph).               *)

Targets == UNION {Imported[f] : f \in SourceFiles}

FrameType == [mod : OnDisk, imps : SUBSET Targets, into : OnDisk, files : Seq(SourceFiles)]

\* An import is still to be followed, or has its edge and its module is
\* walked or being entered.
Followed(m, t) ==
  \/ \E fr \in Range(stack) : fr.mod = m /\ t \in fr.imps
  \/ <<m, t>> \in edges /\ (t \in walkedMod \/ \E fr \in Range(stack) : fr.into = t /\ fr.files # <<>>)

\* A frame enters a module with the first of its files.
Entering(fr) ==
  /\ \A k \in DOMAIN fr.files : fr.files[k][1] = fr.into
  /\ fr.files = <<>> \/ fr.into \in walkedMod \/ fr.files[1] = <<fr.into, 1>>
  /\ fr.mod \in modules /\ fr.into \in modules

\* What walk keeps: the modules walked are those with a file seen, their first
\* one, and none of its imports is forgotten.
WalkInv ==
  /\ importsOf \in [SourceFiles -> SUBSET Targets]
  /\ stack \in Seq(FrameType)
  /\ walkedMod \subseteq OnDisk /\ \A m \in walkedMod : <<m, 1>> \in seen
  /\ \A f \in seen : f \in SourceFiles /\ f[1] \in walkedMod
  /\ \A fr \in Range(stack) : Entering(fr)
  /\ \A m \in walkedMod : \A t \in importsOf[<<m, 1>>] : Followed(m, t)
  /\ edges \subseteq OnDisk \X OnDisk
  /\ modules = Nodes \cup {Root} /\ modules \subseteq OnDisk
  /\ outcome \in {"walk", "notfound", "sort", "ok", "cycle"}
  /\ outcome \in {"sort", "ok", "cycle"} => stack = <<>>

\* A module on disk has files, which are source files.
LEMMA FirstFile ==
  \A m \in OnDisk : /\ FilesOf[m] \in Nat \ {0} /\ <<m, 1>> \in SourceFiles
                    /\ \A i \in 1..FilesOf[m] : <<m, i>> \in SourceFiles
<1>1. \A m \in OnDisk : FilesOf[m] \in Nat \ {0}
  BY Zenon, ModuleAssumption
<1>2. \A m \in OnDisk : 1 \in 1..FilesOf[m]
  BY <1>1
<1>3. \A m \in OnDisk : \A i \in 1..FilesOf[m] : <<m, i>> \in SourceFiles
  <2> SUFFICES ASSUME NEW m \in OnDisk, NEW i \in 1..FilesOf[m] PROVE <<m, i>> \in SourceFiles
    BY Zenon
  <2>1. <<m, i>> \in {<<m, k>> : k \in 1..FilesOf[m]}
    BY Zenon
  <2>2. {<<m, k>> : k \in 1..FilesOf[m]} \in {{<<o, k>> : k \in 1..FilesOf[o]} : o \in OnDisk}
    BY Zenon
  <2> QED
    BY Zenon, <2>1, <2>2 DEF SourceFiles
<1> QED
  BY Zenon, <1>1, <1>2, <1>3

\* The elements of a sequence that grows.
LEMMA Appended ==
  ASSUME NEW S, NEW s \in Seq(S), NEW g \in S
  PROVE  Append(s, g) \in Seq(S) /\ \A x : x \in Range(Append(s, g)) <=> x \in Range(s) \/ x = g
<1> DEFINE n == Len(s)
           r == Append(s, g)
<1>1. /\ n \in Nat /\ r \in Seq(S) /\ DOMAIN s = 1..n /\ DOMAIN r = 1..(n + 1) /\ r[n + 1] = g
      /\ \A i \in 1..n : r[i] = s[i]
  OBVIOUS
<1> HIDE DEF n, r
<1>2. /\ n + 1 \in 1..(n + 1) /\ \A i \in 1..n : i \in 1..(n + 1)
      /\ \A i \in 1..(n + 1) : i \in 1..n \/ i = n + 1
  BY ONLY <1>1
<1>3. \A x : x \in Range(r) <=> x \in Range(s) \/ x = g
  BY Zenon, <1>1, <1>2 DEF Range
<1> QED
  BY Zenon, <1>1, <1>3 DEF r

\* The elements of a sequence that loses its last one.
LEMMA LastDropped ==
  ASSUME NEW S, NEW s \in Seq(S), s # <<>>
  PROVE  /\ SubSeq(s, 1, Len(s) - 1) \in Seq(S) /\ s[Len(s)] \in Range(s) /\ s[Len(s)] \in S
         /\ \A x : x \in Range(s) <=> x \in Range(SubSeq(s, 1, Len(s) - 1)) \/ x = s[Len(s)]
<1> DEFINE n == Len(s)
           r == SubSeq(s, 1, n - 1)
<1>1. n \in Nat /\ n > 0 /\ DOMAIN s = 1..n /\ s[n] \in S
  OBVIOUS
<1>2. r \in Seq(S) /\ DOMAIN r = 1..(n - 1) /\ \A i \in 1..(n - 1) : r[i] = s[i]
  BY <1>1
<1> HIDE DEF n, r
<1>3. /\ n \in 1..n /\ \A i \in 1..(n - 1) : i \in 1..n
      /\ \A i \in 1..n : i \in 1..(n - 1) \/ i = n
  BY ONLY <1>1
<1>4. s[n] \in Range(s) /\ \A x : x \in Range(s) <=> x \in Range(r) \/ x = s[n]
  BY Zenon, <1>1, <1>2, <1>3 DEF Range
<1> QED
  BY Zenon, <1>1, <1>2, <1>4 DEF n, r

\* The elements of a sequence after its last one is replaced.
LEMMA LastReplaced ==
  ASSUME NEW S, NEW s \in Seq(S), s # <<>>, NEW g \in S
  PROVE  /\ [s EXCEPT ![Len(s)] = g] \in Seq(S) /\ g \in Range([s EXCEPT ![Len(s)] = g])
         /\ \A x \in Range(s) : x \in Range([s EXCEPT ![Len(s)] = g]) \/ x = s[Len(s)]
         /\ \A x \in Range([s EXCEPT ![Len(s)] = g]) : x \in Range(s) \/ x = g
<1> DEFINE n == Len(s)
           r == [s EXCEPT ![n] = g]
<1>1. n \in Nat /\ n > 0 /\ s \in [1..n -> S]
  OBVIOUS
<1> HIDE DEF n
<1>2. n \in 1..n /\ DOMAIN s = 1..n
  BY ONLY <1>1
<1>3. r \in [1..n -> S] /\ r[n] = g /\ \A i \in 1..n : i # n => r[i] = s[i]
  BY Zenon, <1>1, <1>2
<1> HIDE DEF r
<1>4. r \in Seq(S) /\ DOMAIN r = 1..n
  BY ONLY <1>1, <1>3
<1>5. g \in Range(r)
  BY Zenon, <1>2, <1>3, <1>4 DEF Range
<1>6. (\A x \in Range(s) : x \in Range(r) \/ x = s[n]) /\ \A x \in Range(r) : x \in Range(s) \/ x = g
  BY Zenon, <1>2, <1>3, <1>4 DEF Range
<1> QED
  BY Zenon, <1>5, <1>6, <1>4 DEF n, r

\* Walking a file of the module being entered.
LEMMA WalkFileKeeps == ASSUME WalkInv, WalkFile PROVE WalkInv'
<1> DEFINE f == Head(top.files)
           g == [top EXCEPT !.files = Tail(@)]
           rest == ReplaceTop(g)
           new == Frame(top.into, importsOf[f])
<1>1. stack \in Seq(FrameType) /\ stack # <<>> /\ top = stack[Len(stack)] /\ \A fr \in Range(stack) : Entering(fr)
  BY Zenon DEF WalkInv, WalkFile, top
<1>2. top \in FrameType /\ top \in Range(stack) /\ Entering(top) /\ top.files # <<>>
  <2>1. top \in FrameType /\ top \in Range(stack)
    BY Zenon, <1>1, LastDropped
  <2> QED
    BY Zenon, <1>1, <2>1 DEF WalkFile
<1>3. /\ seen' = seen \cup {f} /\ UNCHANGED <<importsOf, modules, edges, outcome>> /\ outcome = "walk"
      /\ IF skipped(f, top.into) THEN stack' = rest /\ walkedMod' = walkedMod
         ELSE stack' = Append(rest, new) /\ walkedMod' = walkedMod \cup {top.into}
  BY Zenon DEF WalkFile
<1>4. /\ f = top.files[1] /\ 1 \in DOMAIN top.files /\ f \in SourceFiles
      /\ Tail(top.files) \in Seq(SourceFiles)
      /\ \A k \in DOMAIN Tail(top.files) : k + 1 \in DOMAIN top.files /\ Tail(top.files)[k] = top.files[k + 1]
  BY <1>2 DEF FrameType
<1>5. /\ g \in FrameType /\ g.mod = top.mod /\ g.imps = top.imps /\ g.into = top.into /\ g.files = Tail(top.files)
  BY Zenon, <1>2, <1>4 DEF FrameType
<1>6. /\ new \in FrameType /\ new.mod = top.into /\ new.imps = importsOf[f] /\ new.into = top.into /\ new.files = <<>>
  BY <1>2, <1>4 DEF FrameType, Frame, WalkInv
<1>7. f[1] = top.into
  BY Zenon, <1>2, <1>4 DEF Entering
<1> HIDE DEF f, g, new
<1>8. /\ rest \in Seq(FrameType) /\ g \in Range(rest)
      /\ \A x \in Range(stack) : x \in Range(rest) \/ x = top
      /\ \A x \in Range(rest) : x \in Range(stack) \/ x = g
  BY Zenon, <1>1, <1>5, LastReplaced DEF ReplaceTop
<1> HIDE DEF rest
<1>9. top.into \in walkedMod' /\ walkedMod' = walkedMod \cup {top.into}
  BY Zenon, <1>3, <1>7 DEF skipped, WalkInv
<1>10. (\A k \in DOMAIN g.files : g.files[k][1] = g.into) /\ g.mod \in modules' /\ g.into \in modules' /\ g.into \in walkedMod'
  <2>1. \A k \in DOMAIN Tail(top.files) : Tail(top.files)[k][1] = top.into
    BY Zenon, <1>2, <1>4 DEF Entering
  <2> QED
    BY Zenon, <1>2, <1>3, <1>5, <1>9, <2>1 DEF Entering
<1>11. ASSUME NEW fr, fr = g \/ fr \in Range(stack) PROVE (Entering(fr))'
  <2>1. CASE fr = g
    BY Zenon, <1>10, <2>1 DEF Entering
  <2>2. CASE fr \in Range(stack)
    <3>1. Entering(fr)
      BY Zenon, <1>1, <2>2
    <3> QED
      BY Zenon, <1>3, <1>9, <3>1 DEF Entering
  <2> QED
    BY Zenon, <1>11, <2>1, <2>2
<1>12. CASE skipped(f, top.into)
  <2>1. stack' = rest /\ walkedMod' = walkedMod
    BY Zenon, <1>3, <1>12
  <2>2. \A fr \in Range(stack') : (Entering(fr))'
    BY Zenon, <1>8, <1>11, <2>1
  <2>3. ASSUME NEW m \in walkedMod, NEW t \in importsOf[<<m, 1>>] PROVE (Followed(m, t))'
    <3>1. Followed(m, t)
      BY Zenon DEF WalkInv
    <3>2. ASSUME NEW fr \in Range(stack), fr.mod = m, t \in fr.imps PROVE (Followed(m, t))'
      BY Zenon, <1>5, <1>8, <2>1, <3>2 DEF Followed
    <3>3. ASSUME <<m, t>> \in edges, NEW fr \in Range(stack), fr.into = t, fr.files # <<>> PROVE (Followed(m, t))'
      <4>1. CASE fr = top
        BY Zenon, <1>3, <1>9, <3>3, <4>1 DEF Followed
      <4>2. CASE fr # top
        BY Zenon, <1>3, <1>8, <2>1, <3>3, <4>2 DEF Followed
      <4> QED
        BY Zenon, <4>1, <4>2
    <3>4. ASSUME <<m, t>> \in edges, t \in walkedMod PROVE (Followed(m, t))'
      BY Zenon, <1>3, <1>9, <3>4 DEF Followed
    <3> QED
      BY Zenon, <3>1, <3>2, <3>3, <3>4 DEF Followed
  <2>4. \A h \in seen' : h \in SourceFiles /\ h[1] \in walkedMod'
    BY Zenon, <1>3, <1>4, <1>7, <1>9 DEF WalkInv
  <2>5. Nodes' = Nodes
    BY Zenon, <1>3 DEF Nodes
  <2> QED
    BY Zenon, <1>3, <1>8, <2>1, <2>2, <2>3, <2>4, <2>5 DEF WalkInv
<1>13. CASE ~skipped(f, top.into)
  <2>1. stack' = Append(rest, new) /\ f = <<top.into, 1>> /\ top.into \in OnDisk
    <3>1. top.into \notin walkedMod /\ top.into \in OnDisk
      BY Zenon, <1>2, <1>13 DEF skipped, Entering, WalkInv
    <3> QED
      BY Zenon, <1>2, <1>3, <1>4, <1>13, <3>1 DEF Entering
  <2>2. stack' \in Seq(FrameType) /\ \A x : x \in Range(stack') <=> x \in Range(rest) \/ x = new
    BY Zenon, <1>6, <1>8, <2>1, Appended
  <2>3. \A fr \in Range(stack') : (Entering(fr))'
    <3>1. ASSUME NEW fr, fr = new PROVE (Entering(fr))'
      <4>1. DOMAIN <<>> = {}
        OBVIOUS
      <4>2. fr.files = <<>> /\ fr.mod \in modules' /\ fr.into \in modules'
        BY Zenon, <1>2, <1>3, <1>6, <3>1 DEF Entering
      <4> QED
        BY Zenon, <4>1, <4>2 DEF Entering
    <3> QED
      BY Zenon, <1>8, <1>11, <2>2, <3>1
  <2>4. ASSUME NEW m \in walkedMod', NEW t \in importsOf[<<m, 1>>] PROVE (Followed(m, t))'
    <3>1. CASE m = top.into
      BY Zenon, <1>6, <2>1, <2>2, <3>1 DEF Followed
    <3>2. CASE m \in walkedMod
      <4>1. Followed(m, t)
        BY Zenon, <3>2 DEF WalkInv
      <4>2. ASSUME NEW fr \in Range(stack), fr.mod = m, t \in fr.imps PROVE (Followed(m, t))'
        BY Zenon, <1>5, <1>8, <2>2, <4>2 DEF Followed
      <4>3. ASSUME <<m, t>> \in edges, NEW fr \in Range(stack), fr.into = t, fr.files # <<>> PROVE (Followed(m, t))'
        <5>1. CASE fr = top
          BY Zenon, <1>3, <1>9, <4>3, <5>1 DEF Followed
        <5>2. CASE fr # top
          BY Zenon, <1>3, <1>8, <2>2, <4>3, <5>2 DEF Followed
        <5> QED
          BY Zenon, <5>1, <5>2
      <4>4. ASSUME <<m, t>> \in edges, t \in walkedMod PROVE (Followed(m, t))'
        BY Zenon, <1>3, <1>9, <4>4 DEF Followed
      <4> QED
        BY Zenon, <4>1, <4>2, <4>3, <4>4 DEF Followed
    <3> QED
      BY Zenon, <1>9, <3>1, <3>2
  <2>5. \A h \in seen' : h \in SourceFiles /\ h[1] \in walkedMod'
    BY Zenon, <1>3, <1>4, <1>7, <1>9 DEF WalkInv
  <2>6. Nodes' = Nodes
    BY Zenon, <1>3 DEF Nodes
  <2>7. walkedMod' \subseteq OnDisk /\ \A m \in walkedMod' : <<m, 1>> \in seen'
    BY Zenon, <1>3, <1>9, <2>1 DEF WalkInv
  <2> QED
    BY Zenon, <1>3, <2>2, <2>3, <2>4, <2>5, <2>6, <2>7 DEF WalkInv
<1> QED
  BY Zenon, <1>12, <1>13

\* Following an import: the edge is there before the module is entered.
LEMMA FollowImportKeeps == ASSUME WalkInv, FollowImport PROVE WalkInv'
<1>1. stack \in Seq(FrameType) /\ stack # <<>> /\ top = stack[Len(stack)] /\ \A fr \in Range(stack) : Entering(fr)
  BY Zenon DEF WalkInv, FollowImport, top
<1>2. top \in FrameType /\ top \in Range(stack) /\ Entering(top) /\ top.files = <<>> /\ outcome = "walk"
  <2>1. top \in FrameType /\ top \in Range(stack)
    BY Zenon, <1>1, LastDropped
  <2> QED
    BY Zenon, <1>1, <2>1 DEF FollowImport
<1>3. PICK t \in top.imps :
       IF t \notin OnDisk
       THEN outcome' = "notfound" /\ UNCHANGED <<stack, modules, edges>>
       ELSE /\ edges' = edges \cup {<<top.mod, t>>}
            /\ modules' = modules \cup {t}
            /\ stack' = ReplaceTop(
                 [top EXCEPT !.imps = @ \ {t}, !.into = t,
                             !.files = IF t \in walkedMod THEN <<>> ELSE [i \in 1..FilesOf[t] |-> <<t, i>>]])
            /\ UNCHANGED outcome
  BY Zenon DEF FollowImport
<1>4. UNCHANGED <<importsOf, seen, walkedMod>>
  BY Zenon DEF FollowImport
<1>5. CASE t \notin OnDisk
  <2>1. outcome' = "notfound" /\ UNCHANGED <<stack, modules, edges>>
    BY Zenon, <1>3, <1>5
  <2>2. Nodes' = Nodes
    BY Zenon, <2>1 DEF Nodes
  <2>3. \A fr : Entering(fr) => (Entering(fr))'
    BY Zenon, <1>4, <2>1 DEF Entering
  <2>4. \A m, u : Followed(m, u) => (Followed(m, u))'
    BY Zenon, <1>4, <2>1 DEF Followed
  <2> QED
    BY Zenon, <1>4, <2>1, <2>2, <2>3, <2>4 DEF WalkInv
<1>6. CASE t \in OnDisk
  <2> DEFINE fs == IF t \in walkedMod THEN <<>> ELSE [i \in 1..FilesOf[t] |-> <<t, i>>]
             g == [top EXCEPT !.imps = @ \ {t}, !.into = t, !.files = fs]
  <2>1. edges' = edges \cup {<<top.mod, t>>} /\ modules' = modules \cup {t} /\ stack' = ReplaceTop(g) /\ outcome' = outcome
    BY Zenon, <1>3, <1>6
  <2>2. /\ fs \in Seq(SourceFiles) /\ (fs # <<>> \/ t \in walkedMod) /\ (fs = <<>> \/ fs[1] = <<t, 1>>)
        /\ \A k \in DOMAIN fs : fs[k][1] = t
    <3>1. CASE t \in walkedMod
      BY <3>1
    <3>2. CASE t \notin walkedMod
      <4>1. FilesOf[t] \in Nat \ {0}
        BY Zenon, <1>6, ModuleAssumption
      <4>2. \A i \in 1..FilesOf[t] : <<t, i>> \in SourceFiles
        BY Zenon, <1>6, FirstFile
      <4>3. fs = [i \in 1..FilesOf[t] |-> <<t, i>>]
        BY Zenon, <3>2
      <4>4. DOMAIN fs = 1..FilesOf[t] /\ \A k \in DOMAIN fs : fs[k] = <<t, k>>
        BY Zenon, <4>3
      <4>5. fs \in Seq(SourceFiles)
        BY <4>1, <4>2, <4>3
      <4>6. 1 \in 1..FilesOf[t] /\ DOMAIN <<>> = {}
        BY <4>1
      <4>7. fs # <<>> /\ fs[1] = <<t, 1>>
        BY Zenon, <4>4, <4>6
      <4>8. \A k : <<t, k>>[1] = t
        BY Zenon
      <4> QED
        BY Zenon, <4>4, <4>5, <4>7, <4>8
    <3> QED
      BY Zenon, <3>1, <3>2
  <2> HIDE DEF fs
  <2>3. g \in FrameType /\ g.mod = top.mod /\ g.imps = top.imps \ {t} /\ g.into = t /\ g.files = fs /\ top.mod \in OnDisk
    BY Zenon, <1>2, <1>6, <2>2 DEF FrameType
  <2> HIDE DEF g
  <2>4. /\ stack' \in Seq(FrameType) /\ g \in Range(stack')
        /\ \A x \in Range(stack) : x \in Range(stack') \/ x = top
        /\ \A x \in Range(stack') : x \in Range(stack) \/ x = g
    <3>1. stack' = [stack EXCEPT ![Len(stack)] = g]
      BY Zenon, <2>1 DEF ReplaceTop
    <3> QED
      BY Zenon, <1>1, <2>3, <3>1, LastReplaced
  <2>5. \A fr \in Range(stack') : (Entering(fr))'
    <3>1. ASSUME NEW fr \in Range(stack) PROVE (Entering(fr))'
      <4>1. Entering(fr)
        BY Zenon, <1>1
      <4> QED
        BY Zenon, <1>4, <2>1, <4>1 DEF Entering
    <3>2. top.mod \in modules' /\ t \in modules'
      BY Zenon, <1>2, <2>1 DEF Entering
    <3>3. ASSUME NEW fr, fr = g PROVE (Entering(fr))'
      <4>1. fr.files = fs /\ fr.into = t /\ fr.mod = top.mod
        BY Zenon, <2>3, <3>3
      <4> QED
        BY Zenon, <2>2, <3>2, <4>1 DEF Entering
    <3> QED
      BY Zenon, <2>4, <3>1, <3>3
  <2>6. ASSUME NEW m \in walkedMod, NEW u \in importsOf[<<m, 1>>] PROVE (Followed(m, u))'
    <3>1. Followed(m, u)
      BY Zenon DEF WalkInv
    <3>2. ASSUME NEW fr \in Range(stack), fr.mod = m, u \in fr.imps PROVE (Followed(m, u))'
      <4>1. CASE fr = top /\ u = t
        <5>1. <<m, t>> \in edges'
          BY Zenon, <2>1, <3>2, <4>1
        <5>2. t \in walkedMod' \/ (g \in Range(stack') /\ g.into = t /\ g.files # <<>>)
          BY Zenon, <1>4, <2>2, <2>3, <2>4
        <5> QED
          BY Zenon, <4>1, <5>1, <5>2 DEF Followed
      <4>2. CASE fr = top /\ u # t
        BY Zenon, <2>3, <2>4, <3>2, <4>2 DEF Followed
      <4>3. CASE fr # top
        BY Zenon, <2>4, <3>2, <4>3 DEF Followed
      <4> QED
        BY Zenon, <4>1, <4>2, <4>3
    <3>3. ASSUME <<m, u>> \in edges, NEW fr \in Range(stack), fr.into = u, fr.files # <<>> PROVE (Followed(m, u))'
      BY Zenon, <1>2, <2>1, <2>4, <3>3 DEF Followed
    <3>4. ASSUME <<m, u>> \in edges, u \in walkedMod PROVE (Followed(m, u))'
      BY Zenon, <1>4, <2>1, <3>4 DEF Followed
    <3> QED
      BY Zenon, <3>1, <3>2, <3>3, <3>4 DEF Followed
  <2>7. edges' \subseteq OnDisk \X OnDisk
    <3>1. <<top.mod, t>> \in OnDisk \X OnDisk
      BY Zenon, <1>6, <2>3
    <3>2. edges \subseteq OnDisk \X OnDisk
      BY Zenon DEF WalkInv
    <3> QED
      BY Zenon, <2>1, <3>1, <3>2
  <2>8. modules' = Nodes' \cup {Root} /\ modules' \subseteq OnDisk
    <3>1. Nodes' = Nodes \cup {top.mod, t}
      <4>1. <<top.mod, t>>[1] = top.mod /\ <<top.mod, t>>[2] = t
        BY Zenon
      <4> QED
        BY Zenon, <2>1, <4>1 DEF Nodes
    <3>2. top.mod \in modules
      BY Zenon, <1>2 DEF Entering
    <3> QED
      BY Zenon, <1>6, <2>1, <3>1, <3>2 DEF WalkInv
  <2> QED
    BY Zenon, <1>2, <1>4, <2>1, <2>4, <2>5, <2>6, <2>7, <2>8 DEF WalkInv
<1> QED
  BY Zenon, <1>5, <1>6

\* Returning from a file with no import left.
LEMMA WalkReturnsKeeps == ASSUME WalkInv, WalkReturns PROVE WalkInv'
<1>1. /\ stack # <<>> /\ top.files = <<>> /\ top.imps = {} /\ stack' = SubSeq(stack, 1, Len(stack) - 1) /\ outcome = "walk"
      /\ UNCHANGED <<importsOf, seen, walkedMod, modules, edges, outcome>>
  BY Zenon DEF WalkReturns
<1>2. /\ stack' \in Seq(FrameType)
      /\ \A x \in Range(stack) : x \in Range(stack') \/ x = top
      /\ \A x \in Range(stack') : x \in Range(stack)
  <2>1. stack \in Seq(FrameType) /\ top = stack[Len(stack)]
    BY Zenon DEF WalkInv, top
  <2>2. stack' \in Seq(FrameType) /\ \A x : x \in Range(stack) <=> x \in Range(stack') \/ x = top
    BY Zenon, <1>1, <2>1, LastDropped
  <2> QED
    BY Zenon, <1>1, <2>2
<1>3. Nodes' = Nodes
  BY Zenon, <1>1 DEF Nodes
<1>4. \A fr \in Range(stack') : (Entering(fr))'
  BY Zenon, <1>1, <1>2 DEF Entering, WalkInv
<1>5. \A m, t : Followed(m, t) => (Followed(m, t))'
  BY Zenon, <1>1, <1>2 DEF Followed
<1> QED
  BY Zenon, <1>1, <1>2, <1>3, <1>4, <1>5 DEF WalkInv

\* The sort changes nothing of the walk.
LEMMA WalkStays ==
  ASSUME WalkInv, UNCHANGED <<importsOf, stack, seen, walkedMod, modules, edges>>,
         outcome' \in {"walk", "notfound", "sort", "ok", "cycle"},
         outcome' \in {"sort", "ok", "cycle"} => stack = <<>>
  PROVE  WalkInv'
<1>1. Nodes' = Nodes
  BY Zenon DEF Nodes
<1>2. \A fr : Entering(fr) => (Entering(fr))'
  BY Zenon DEF Entering
<1>3. \A m, t : Followed(m, t) => (Followed(m, t))'
  BY Zenon DEF Followed
<1> QED
  BY Zenon, <1>1, <1>2, <1>3 DEF WalkInv

\* Every step of a resolution keeps the invariant.
LEMMA WalkStep == WalkInv /\ [MGNext]_mgVars => WalkInv'
<1> SUFFICES ASSUME WalkInv, [MGNext]_mgVars PROVE WalkInv'
  BY Zenon
<1>1. CASE WalkFile
  BY Zenon, <1>1, WalkFileKeeps
<1>2. CASE FollowImport
  BY Zenon, <1>2, FollowImportKeeps
<1>3. CASE WalkReturns
  BY Zenon, <1>3, WalkReturnsKeeps
<1>4. CASE StartSort
  BY Zenon, <1>4, WalkStays DEF StartSort
<1>5. CASE PopSmallest
  BY Zenon, <1>5, WalkStays DEF PopSmallest, WalkInv
<1>6. CASE FinishOrder
  BY Zenon, <1>6, WalkStays DEF FinishOrder, WalkInv
<1>7. CASE UNCHANGED mgVars
  BY Zenon, <1>7, WalkStays DEF mgVars, WalkInv
<1> QED
  BY Zenon, <1>1, <1>2, <1>3, <1>4, <1>5, <1>6, <1>7 DEF MGNext

\* The invariant holds in every state.
LEMMA WalkInvariant == MGSpec => []WalkInv
<1>1. ASSUME MGInit PROVE WalkInv
  <2>1. /\ importsOf \in [SourceFiles -> SUBSET Targets] /\ stack = <<Frame(Root, importsOf[RootFile])>>
        /\ seen = {RootFile} /\ walkedMod = {Root} /\ modules = {Root} /\ edges = {} /\ outcome = "walk"
    BY Zenon, <1>1 DEF MGInit, Targets
  <2>2. Root \in OnDisk /\ RootFile \in SourceFiles /\ RootFile = <<Root, 1>>
    <3>1. FilesOf[Root] \in Nat \ {0} /\ Root \in OnDisk
      BY Zenon, ModuleAssumption
    <3>2. 1 \in 1..FilesOf[Root]
      BY <3>1
    <3> QED
      BY Zenon, <3>1, <3>2, FirstFile DEF RootFile
  <2> DEFINE fr == Frame(Root, importsOf[RootFile])
  <2>3. fr \in FrameType /\ fr.mod = Root /\ fr.imps = importsOf[RootFile] /\ fr.into = Root /\ fr.files = <<>>
    BY <2>1, <2>2 DEF Frame, FrameType
  <2>4. stack = <<fr>>
    BY Zenon, <2>1
  <2> HIDE DEF fr
  <2>5. stack \in Seq(FrameType) /\ Range(stack) = {fr} /\ DOMAIN <<>> = {}
    BY <2>3, <2>4 DEF Range
  <2>6. Nodes = {}
    BY Zenon, <2>1 DEF Nodes
  <2>7. Entering(fr)
    BY Zenon, <2>1, <2>3, <2>5 DEF Entering
  <2>8. \A t \in importsOf[<<Root, 1>>] : Followed(Root, t)
    BY Zenon, <2>2, <2>3, <2>5 DEF Followed
  <2>9. RootFile[1] = Root
    BY Zenon DEF RootFile
  <2> QED
    BY Zenon, <2>1, <2>2, <2>5, <2>6, <2>7, <2>8, <2>9 DEF WalkInv
<1> QED
  BY <1>1, WalkStep, PTL DEF MGSpec

\* walk, for any modules on disk and any imports in any order, cyclic ones
\* too: when the graph is ordered or refused, every import declared in the
\* first file of a module is an edge and its target has been walked.
THEOREM ImportsAreComplete == MGSpec => []ImportsComplete
<1>1. WalkInv => ImportsComplete
  <2> SUFFICES ASSUME WalkInv, outcome \in {"ok", "cycle"}, NEW f \in seen, f[2] = 1, NEW t \in importsOf[f]
               PROVE  <<f[1], t>> \in edges /\ <<t, 1>> \in seen
    BY Zenon DEF ImportsComplete
  <2>1. f \in SourceFiles /\ f[1] \in walkedMod
    BY Zenon DEF WalkInv
  <2>2. f = <<f[1], 1>>
    <3>1. PICK m \in OnDisk : \E i \in 1..FilesOf[m] : f = <<m, i>>
      BY Zenon, <2>1 DEF SourceFiles
    <3> QED
      BY <3>1
  <2>3. Range(stack) = {}
    <3>1. stack = <<>>
      BY Zenon DEF WalkInv
    <3>2. DOMAIN stack = {}
      BY <3>1
    <3> QED
      BY Zenon, <3>2 DEF Range
  <2>4. Followed(f[1], t)
    BY Zenon, <2>1, <2>2 DEF WalkInv
  <2> QED
    BY Zenon, <2>3, <2>4 DEF Followed, WalkInv
<1> QED
  BY <1>1, WalkInvariant, PTL
-----------------------------------------------------------------------------
(* The order of the modules (ModuleGraph).                                 *)

\* The modules popped, and the edges a module still waits for.
Popped == {result[i] : i \in DOMAIN result}
Waiting(n) == {e \in edges : e[2] = n /\ e[1] \notin Popped}

\* Modules are popped once, and after those that import them.
ImportersFirst ==
  /\ result \in Seq(Nodes)
  /\ \A i, j \in DOMAIN result : result[i] = result[j] => i = j
  /\ \A e \in edges : \A i \in DOMAIN result : e[2] = result[i] => \E j \in 1..(i - 1) : result[j] = e[1]

\* indeg counts the edges a module still waits for, the queue holds those that
\* wait for none.
TopoInv ==
  /\ outcome \in {"walk", "notfound"} => result = <<>>
  /\ outcome \in {"sort", "ok", "cycle"} =>
       /\ ImportersFirst
       /\ indeg = [n \in Nodes |-> Cardinality(Waiting(n))]
       /\ queue = {n \in Nodes \ Popped : Waiting(n) = {}}
  /\ outcome = "ok" => Popped = Nodes
  /\ outcome = "cycle" => queue = {} /\ Popped # Nodes

\* The modules of the edges.
LEMMA EdgeEnds == \A e \in edges : e[1] \in Nodes /\ e[2] \in Nodes
BY Zenon DEF Nodes

\* A module graph is finite, and its modules are numbered.
LEMMA GraphFinite ==
  ASSUME WalkInv
  PROVE  /\ edges \subseteq Nodes \X Nodes
         /\ \A n : IsFiniteSet(Waiting(n)) /\ IsFiniteSet({e \in edges : e[2] = n})
<1>1. edges \subseteq OnDisk \X OnDisk /\ OnDisk \subseteq Nat /\ IsFiniteSet(OnDisk)
  BY Zenon, ModuleAssumption DEF WalkInv
<1>2. \A e \in edges : e[1] \in OnDisk /\ e[2] \in OnDisk /\ e = <<e[1], e[2]>>
  BY <1>1
<1>3. Nodes \subseteq Nat
  BY Zenon, <1>1, <1>2 DEF Nodes
<1>4. \A e \in edges : e[1] \in Nodes /\ e[2] \in Nodes
  BY Zenon, EdgeEnds
<1>5. edges \subseteq Nodes \X Nodes
  BY <1>2, <1>4
<1>6. IsFiniteSet(OnDisk \X OnDisk)
  BY Zenon, <1>1, FS_Product
<1>7. IsFiniteSet(edges)
  BY Zenon, <1>1, <1>6, FS_Subset
<1>8. \A n : Waiting(n) \subseteq edges /\ {e \in edges : e[2] = n} \subseteq edges
  BY Zenon DEF Waiting
<1> QED
  BY Zenon, <1>3, <1>5, <1>7, <1>8, FS_Subset

\* topoOrder starts with nothing popped.
LEMMA StartSortKeeps == ASSUME WalkInv, TopoInv, StartSort PROVE TopoInv'
<1>1. /\ result = <<>> /\ UNCHANGED <<edges, result>> /\ outcome' = "sort"
      /\ indeg' = [n \in Nodes |-> Cardinality({e \in edges : e[2] = n})]
      /\ queue' = {n \in Nodes : \A e \in edges : e[2] # n}
  BY Zenon DEF StartSort, TopoInv
<1>2. result' \in Seq(Nodes) /\ DOMAIN result' = {}
  BY <1>1
<1>3. Nodes' = Nodes /\ Popped' = {}
  BY Zenon, <1>1, <1>2 DEF Nodes, Popped
<1>4. \A n : Waiting(n)' = {e \in edges : e[2] = n}
  BY Zenon, <1>1, <1>3 DEF Waiting
<1>5. queue' = {n \in Nodes' \ Popped' : Waiting(n)' = {}}
  BY Zenon, <1>1, <1>3, <1>4
<1>6. ImportersFirst'
  BY Zenon, <1>2, <1>3 DEF ImportersFirst
<1> QED
  BY Zenon, <1>1, <1>3, <1>4, <1>5, <1>6 DEF TopoInv

\* A module popped after its importers keeps the sequence in order.
LEMMA ImportersFirstGrows ==
  ASSUME ImportersFirst, NEW u \in Nodes \ Popped, Waiting(u) = {}, result' = Append(result, u), edges' = edges
  PROVE  ImportersFirst' /\ Popped' = Popped \cup {u}
<1>1. Nodes' = Nodes
  BY Zenon DEF Nodes
<1> DEFINE n == Len(result)
<1>2. /\ n \in Nat /\ DOMAIN result = 1..n /\ result' \in Seq(Nodes) /\ DOMAIN result' = 1..(n + 1)
      /\ (\A i \in 1..n : result'[i] = result[i]) /\ result'[n + 1] = u
  BY DEF ImportersFirst
<1> HIDE DEF n
<1>3. \A i \in 1..(n + 1) : i \in 1..n \/ i = n + 1
  BY <1>2
<1>4. n + 1 \in 1..(n + 1) /\ \A i \in 1..n : i \in 1..(n + 1)
  BY <1>2
<1>5. Popped' = Popped \cup {u}
  BY Zenon, <1>2, <1>3, <1>4 DEF Popped
<1>6. \A i, j \in DOMAIN result' : result'[i] = result'[j] => i = j
  <2>1. \A i \in 1..n : result[i] # u
    BY Zenon, <1>2 DEF Popped
  <2>2. \A i, j \in 1..n : result'[i] = result'[j] => i = j
    BY Zenon, <1>2 DEF ImportersFirst
  <2>3. \A i \in 1..n : result'[i] # result'[n + 1]
    BY Zenon, <1>2, <2>1
  <2> QED
    BY Zenon, <1>2, <1>3, <2>2, <2>3
<1>7. ASSUME NEW e \in edges, NEW i \in DOMAIN result', e[2] = result'[i]
      PROVE  \E j \in 1..(i - 1) : result'[j] = e[1]
  <2>1. CASE i \in 1..n
    <3>1. \A j \in 1..(i - 1) : j \in 1..n
      BY <1>2, <2>1
    <3>2. \E j \in 1..(i - 1) : result[j] = e[1]
      BY Zenon, <1>2, <1>7, <2>1 DEF ImportersFirst
    <3> QED
      BY Zenon, <1>2, <3>1, <3>2
  <2>2. CASE i = n + 1
    <3>1. i - 1 = n
      BY <1>2, <2>2
    <3>2. e[1] \in Popped
      BY Zenon, <1>2, <1>7, <2>2 DEF Waiting
    <3>3. PICK k \in 1..n : result[k] = e[1]
      BY Zenon, <1>2, <3>2 DEF Popped
    <3>4. k \in 1..(i - 1) /\ result'[k] = e[1]
      BY Zenon, <1>2, <3>1, <3>3
    <3> QED
      BY Zenon, <3>4
  <2> QED
    BY Zenon, <1>2, <1>3, <2>1, <2>2
<1> QED
  BY Zenon, <1>1, <1>2, <1>5, <1>6, <1>7 DEF ImportersFirst

\* topoOrder pops the smallest module that waits for none.
LEMMA PopKeeps == ASSUME WalkInv, TopoInv, PopSmallest PROVE TopoInv'
<1>1. /\ ImportersFirst /\ indeg = [n \in Nodes |-> Cardinality(Waiting(n))]
      /\ queue = {n \in Nodes \ Popped : Waiting(n) = {}}
  BY Zenon DEF TopoInv, PopSmallest
<1>2. PICK u \in queue :
        LET out == {e[2] : e \in {e \in edges : e[1] = u}}
            deg == [n \in DOMAIN indeg |-> IF n \in out THEN indeg[n] - 1 ELSE indeg[n]]
        IN /\ indeg' = deg /\ result' = Append(result, u)
           /\ queue' = (queue \ {u}) \cup {n \in out : ready(n, deg)}
  BY Zenon DEF PopSmallest
<1> DEFINE out == {e[2] : e \in {e \in edges : e[1] = u}}
<1>3. /\ result' = Append(result, u) /\ UNCHANGED <<edges, outcome>> /\ outcome = "sort"
      /\ indeg' = [n \in DOMAIN indeg |-> IF n \in out THEN indeg[n] - 1 ELSE indeg[n]]
      /\ queue' = (queue \ {u}) \cup {n \in out : indeg'[n] = 0}
  BY Zenon, <1>2 DEF PopSmallest, ready
<1>4. u \in Nodes \ Popped /\ Waiting(u) = {}
  BY Zenon, <1>1, <1>2
<1>5. ImportersFirst' /\ Popped' = Popped \cup {u} /\ Nodes' = Nodes
  BY Zenon, <1>1, <1>3, <1>4, ImportersFirstGrows DEF Nodes
<1>6. \A e \in edges : e = <<e[1], e[2]>> /\ e[1] \in Nodes /\ e[2] \in Nodes
  <2>1. edges \subseteq Nodes \X Nodes
    BY Zenon, GraphFinite
  <2> QED
    BY <2>1
<1>7. \A n : n \in out <=> <<u, n>> \in edges
  <2>1. \A n : <<u, n>>[1] = u /\ <<u, n>>[2] = n
    BY Zenon
  <2> QED
    BY Zenon, <1>6, <2>1
<1>8. \A n : Waiting(n)' = Waiting(n) \ {<<u, n>>}
  <2>1. \A n : <<u, n>>[1] = u /\ <<u, n>>[2] = n
    BY Zenon
  <2> QED
    BY Zenon, <1>3, <1>5, <1>6, <2>1 DEF Waiting
<1>9. \A n \in out : <<u, n>> \in Waiting(n)
  <2>1. \A n : <<u, n>>[1] = u /\ <<u, n>>[2] = n
    BY Zenon
  <2> QED
    BY Zenon, <1>4, <1>7, <2>1 DEF Waiting
<1>10. \A n : n \notin out => <<u, n>> \notin Waiting(n)
  BY Zenon, <1>7 DEF Waiting
<1>11. \A n : IsFiniteSet(Waiting(n)) /\ IsFiniteSet(Waiting(n)')
  BY Zenon, <1>8, GraphFinite, FS_Subset
<1> HIDE DEF out
<1>12. \A n \in Nodes : indeg'[n] = Cardinality(Waiting(n)')
  <2>1. ASSUME NEW n \in Nodes, n \in out PROVE indeg'[n] = Cardinality(Waiting(n)')
    <3>1. Cardinality(Waiting(n) \ {<<u, n>>}) = Cardinality(Waiting(n)) - 1
      BY Zenon, <1>9, <1>11, <2>1, FS_RemoveElement
    <3> QED
      BY Zenon, <1>1, <1>3, <1>8, <2>1, <3>1
  <2>2. ASSUME NEW n \in Nodes, n \notin out PROVE indeg'[n] = Cardinality(Waiting(n)')
    <3>1. Waiting(n)' = Waiting(n)
      BY Zenon, <1>8, <1>10, <2>2
    <3> QED
      BY Zenon, <1>1, <1>3, <2>2, <3>1
  <2> QED
    BY Zenon, <2>1, <2>2
<1>13. \A n \in Nodes : indeg'[n] = 0 <=> Waiting(n)' = {}
  BY Zenon, <1>11, <1>12, FS_EmptySet
<1>14. indeg' = [n \in Nodes' |-> Cardinality(Waiting(n)')]
  BY Zenon, <1>1, <1>3, <1>5, <1>12
<1>15. out \subseteq Nodes \ Popped /\ u \notin out
  <2>1. out \subseteq Nodes
    <3>1. \A n : <<u, n>>[2] = n
      BY Zenon
    <3> QED
      BY Zenon, <1>6, <1>7, <3>1
  <2>2. u \notin out
    BY Zenon, <1>4, <1>9
  <2>3. \A i \in DOMAIN result : \A e \in edges : e[2] = result[i] => e[1] \in Popped
    <3>1. \A i \in DOMAIN result : \A j \in 1..(i - 1) : j \in DOMAIN result
      BY <1>1 DEF ImportersFirst
    <3> QED
      BY Zenon, <1>1, <3>1 DEF ImportersFirst, Popped
  <2>4. \A n \in out : n \notin Popped
    <3>1. \A n : <<u, n>>[1] = u /\ <<u, n>>[2] = n
      BY Zenon
    <3>2. \A e \in edges : e[2] \in Popped => e[1] \in Popped
      BY Zenon, <2>3 DEF Popped
    <3> QED
      BY Zenon, <1>4, <1>7, <3>1, <3>2
  <2> QED
    BY Zenon, <2>1, <2>2, <2>4
<1>16. queue' = {n \in Nodes' \ Popped' : Waiting(n)' = {}}
  <2>1. ASSUME NEW n \in queue' PROVE n \in Nodes /\ n \notin Popped' /\ Waiting(n)' = {}
    <3>1. CASE n \in queue \ {u}
      BY Zenon, <1>1, <1>5, <1>8, <3>1
    <3>2. CASE n \in out /\ indeg'[n] = 0
      BY Zenon, <1>5, <1>13, <1>15, <3>2
    <3> QED
      BY Zenon, <1>3, <3>1, <3>2
  <2>2. ASSUME NEW n \in Nodes, n \notin Popped', Waiting(n)' = {} PROVE n \in queue'
    <3>1. CASE n \in out
      BY Zenon, <1>3, <1>13, <2>2, <3>1
    <3>2. CASE n \notin out
      <4>1. Waiting(n) = {}
        BY Zenon, <1>8, <1>10, <2>2, <3>2
      <4> QED
        BY Zenon, <1>1, <1>3, <1>5, <2>2, <4>1
    <3> QED
      BY Zenon, <3>1, <3>2
  <2> QED
    BY Zenon, <1>5, <2>1, <2>2
<1> QED
  BY Zenon, <1>3, <1>5, <1>14, <1>16 DEF TopoInv

\* As long as the graph and the sequence stay, so does what the order is made of.
LEMMA TopoStays ==
  ASSUME UNCHANGED <<edges, result>>
  PROVE  /\ Nodes' = Nodes /\ Popped' = Popped /\ (ImportersFirst => ImportersFirst')
         /\ \A n : Waiting(n)' = Waiting(n)
<1>1. Nodes' = Nodes /\ Popped' = Popped
  BY Zenon DEF Nodes, Popped
<1>2. \A n : Waiting(n)' = Waiting(n)
  BY Zenon, <1>1 DEF Waiting
<1>3. ImportersFirst => ImportersFirst'
  BY Zenon, <1>1 DEF ImportersFirst
<1> QED
  BY Zenon, <1>1, <1>2, <1>3

\* Every step of a resolution keeps the invariant of the order.
LEMMA TopoStep == WalkInv /\ TopoInv /\ [MGNext]_mgVars => TopoInv'
<1> SUFFICES ASSUME WalkInv, TopoInv, [MGNext]_mgVars PROVE TopoInv'
  BY Zenon
<1>1. CASE WalkFile \/ FollowImport \/ WalkReturns
  <2>1. outcome' \in {"walk", "notfound"} /\ result' = result /\ outcome = "walk"
    BY Zenon, <1>1 DEF WalkFile, FollowImport, WalkReturns, sortVars
  <2> QED
    BY Zenon, <2>1 DEF TopoInv
<1>2. CASE StartSort
  BY Zenon, <1>2, StartSortKeeps
<1>3. CASE PopSmallest
  BY Zenon, <1>3, PopKeeps
<1>4. CASE FinishOrder
  <2>1. /\ outcome = "sort" /\ queue = {} /\ UNCHANGED <<edges, indeg, queue, result>>
        /\ outcome' = IF Range(result) = Nodes THEN "ok" ELSE "cycle"
    BY Zenon, <1>4 DEF FinishOrder, sortVars
  <2>2. Range(result) = Popped
    BY Zenon DEF Range, Popped
  <2>3. /\ Nodes' = Nodes /\ Popped' = Popped /\ (ImportersFirst => ImportersFirst')
        /\ \A n : Waiting(n)' = Waiting(n)
    BY Zenon, <2>1, TopoStays
  <2> QED
    BY Zenon, <2>1, <2>2, <2>3 DEF TopoInv
<1>5. CASE UNCHANGED mgVars
  <2>1. UNCHANGED <<edges, indeg, queue, result, outcome>>
    BY Zenon, <1>5 DEF mgVars
  <2>2. /\ Nodes' = Nodes /\ Popped' = Popped /\ (ImportersFirst => ImportersFirst')
        /\ \A n : Waiting(n)' = Waiting(n)
    BY Zenon, <2>1, TopoStays
  <2> QED
    BY Zenon, <2>1, <2>2 DEF TopoInv
<1> QED
  BY Zenon, <1>1, <1>2, <1>3, <1>4, <1>5 DEF MGNext

\* Reversed, the sequence has what is imported before what imports it.
LEMMA ReversedOrder ==
  ASSUME WalkInv, ImportersFirst, Popped = Nodes
  PROVE  /\ Range(Order) = modules /\ IsInjective(Order)
         /\ \A e \in edges : Precedes(Order, e[2], e[1])
<1> DEFINE n == Len(result)
           r == reverseStrings(result)
<1>1. n \in Nat /\ DOMAIN result = 1..n /\ result \in Seq(Nodes)
  BY DEF ImportersFirst
<1>2. r = [i \in 1..n |-> result[(n - i) + 1]]
  BY Zenon DEF reverseStrings
<1> HIDE DEF n, r
<1>3. DOMAIN r = 1..n /\ \A i \in 1..n : r[i] = result[(n - i) + 1]
  BY Zenon, <1>2
<1>4. \A i \in 1..n : (n - i) + 1 \in 1..n /\ (n - ((n - i) + 1)) + 1 = i
  BY <1>1
<1>5. \A i \in 1..n : r[(n - i) + 1] = result[i]
  BY Zenon, <1>3, <1>4
<1>6. r \in Seq(Nodes) /\ Len(r) = n /\ \A i \in 1..n : r[i] \in Nodes
  <2>1. \A i \in 1..n : r[i] \in Nodes
    BY <1>1, <1>3, <1>4
  <2> QED
    BY <1>1, <1>2, <1>3, <2>1
<1>7. Range(r) = Nodes /\ Range(result) = Nodes
  <2>1. Range(result) = Nodes
    BY Zenon DEF Range, Popped
  <2>2. ASSUME NEW x \in Nodes PROVE x \in Range(r)
    <3>1. PICK k \in 1..n : result[k] = x
      BY Zenon, <1>1 DEF Popped
    <3>2. (n - k) + 1 \in DOMAIN r /\ r[(n - k) + 1] = x
      BY Zenon, <1>3, <1>4, <1>5, <3>1
    <3> QED
      BY Zenon, <3>2 DEF Range
  <2>3. \A x \in Range(r) : x \in Nodes
    BY Zenon, <1>3, <1>6 DEF Range
  <2> QED
    BY Zenon, <2>1, <2>2, <2>3
<1>8. ASSUME NEW i \in 1..n, NEW j \in 1..n, r[i] = r[j] PROVE i = j
  <2> DEFINE k == (n - i) + 1
             l == (n - j) + 1
  <2>1. k \in DOMAIN result /\ l \in DOMAIN result /\ result[k] = result[l]
    BY Zenon, <1>1, <1>3, <1>4, <1>8
  <2> HIDE DEF k, l
  <2>2. k = l
    BY Zenon, <2>1 DEF ImportersFirst
  <2> QED
    BY <1>1, <2>2 DEF k, l
<1>9. ASSUME NEW e \in edges PROVE \E i, j \in 1..n : i < j /\ r[i] = e[2] /\ r[j] = e[1]
  <2>1. e[2] \in Nodes
    BY Zenon, EdgeEnds
  <2>2. PICK k \in 1..n : result[k] = e[2]
    BY Zenon, <1>1, <2>1 DEF Popped
  <2>3. PICK l \in 1..(k - 1) : result[l] = e[1]
    BY Zenon, <1>1, <2>2 DEF ImportersFirst
  <2>4. l \in 1..n /\ (n - k) + 1 < (n - l) + 1
    BY <1>1, <2>2, <2>3
  <2>5. r[(n - k) + 1] = e[2] /\ r[(n - l) + 1] = e[1] /\ (n - k) + 1 \in 1..n /\ (n - l) + 1 \in 1..n
    BY Zenon, <1>4, <1>5, <2>2, <2>3, <2>4
  <2> QED
    BY Zenon, <2>4, <2>5
<1>10. CASE Root \in Nodes
  <2>1. Order = r
    BY Zenon, <1>7, <1>10 DEF Order, r
  <2>2. modules = Nodes
    BY Zenon, <1>10 DEF WalkInv
  <2> QED
    BY Zenon, <1>3, <1>7, <1>8, <1>9, <2>1, <2>2 DEF IsInjective, Precedes
<1>11. CASE Root \notin Nodes
  <2>1. Order = Append(r, Root)
    BY Zenon, <1>7, <1>11 DEF Order, r
  <2> DEFINE s == Append(r, Root)
  <2>2. /\ DOMAIN s = 1..(n + 1) /\ s[n + 1] = Root /\ \A i \in 1..n : s[i] = r[i]
    BY <1>1, <1>6
  <2> HIDE DEF s
  <2>3. /\ n + 1 \in 1..(n + 1) /\ \A i \in 1..n : i \in 1..(n + 1)
        /\ \A i \in 1..(n + 1) : i \in 1..n \/ i = n + 1
    BY <1>1
  <2>4. Range(s) = Nodes \cup {Root}
    <3>1. ASSUME NEW x \in Nodes PROVE x \in Range(s)
      <4>1. PICK i \in 1..n : r[i] = x
        BY Zenon, <1>3, <1>7 DEF Range
      <4>2. i \in DOMAIN s /\ s[i] = x
        BY Zenon, <2>2, <2>3, <4>1
      <4> QED
        BY Zenon, <4>2 DEF Range
    <3>2. Root \in Range(s)
      BY Zenon, <2>2, <2>3 DEF Range
    <3>3. \A x \in Range(s) : x \in Nodes \/ x = Root
      BY Zenon, <1>6, <2>2, <2>3 DEF Range
    <3> QED
      BY Zenon, <3>1, <3>2, <3>3
  <2>5. \A i \in 1..n : s[i] # s[n + 1]
    <3>1. \A i \in 1..n : r[i] \in Nodes
      BY Zenon, <1>3, <1>7 DEF Range
    <3> QED
      BY Zenon, <1>11, <2>2, <3>1
  <2>6. IsInjective(s)
    <3>1. \A i, j \in 1..n : s[i] = s[j] => i = j
      BY Zenon, <1>8, <2>2
    <3> QED
      BY Zenon, <2>2, <2>3, <2>5, <3>1 DEF IsInjective
  <2>7. ASSUME NEW e \in edges PROVE Precedes(s, e[2], e[1])
    <3>1. PICK i \in 1..n, j \in 1..n : i < j /\ r[i] = e[2] /\ r[j] = e[1]
      BY Zenon, <1>9
    <3>2. i \in DOMAIN s /\ j \in DOMAIN s /\ s[i] = e[2] /\ s[j] = e[1]
      BY Zenon, <2>2, <2>3, <3>1
    <3> QED
      BY Zenon, <3>1, <3>2 DEF Precedes
  <2> QED
    BY Zenon, <2>1, <2>4, <2>6, <2>7 DEF s, WalkInv
<1> QED
  BY Zenon, <1>10, <1>11

\* topoOrder and finish, for any modules on disk and any imports in any
\* order: an accepted graph is ordered with every module once and after all
\* it imports; a refused graph has modules that import one another in a
\* circle.
THEOREM OrderIsExact == MGSpec => []OrderExact
<1>1. MGInit => TopoInv
  BY Zenon DEF MGInit, TopoInv
<1>2. WalkInv /\ TopoInv => OrderExact
  <2> SUFFICES ASSUME WalkInv, TopoInv PROVE OrderExact
    BY Zenon
  <2>1. ASSUME outcome = "ok"
        PROVE  /\ Range(Order) = modules /\ IsInjective(Order)
               /\ \A e \in edges : Precedes(Order, e[2], e[1])
    <3>1. ImportersFirst /\ Popped = Nodes
      BY Zenon, <2>1 DEF TopoInv
    <3> QED
      BY Zenon, <3>1, ReversedOrder
  <2>2. ASSUME outcome = "cycle"
        PROVE  \E S \in SUBSET Nodes : S # {} /\ \A n \in S : \E e \in edges : e[1] \in S /\ e[2] = n
    <3>1. ImportersFirst /\ queue = {n \in Nodes \ Popped : Waiting(n) = {}} /\ queue = {} /\ Popped # Nodes
      BY Zenon, <2>2 DEF TopoInv
    <3>2. Popped \subseteq Nodes
      BY <3>1 DEF Popped, ImportersFirst
    <3> DEFINE S == Nodes \ Popped
    <3>3. S # {} /\ S \in SUBSET Nodes
      BY Zenon, <3>1, <3>2
    <3>4. ASSUME NEW n \in S PROVE \E e \in edges : e[1] \in S /\ e[2] = n
      <4>1. PICK e \in edges : e[2] = n /\ e[1] \notin Popped
        BY Zenon, <3>1 DEF Waiting
      <4>2. e[1] \in Nodes
        BY Zenon, EdgeEnds
      <4> QED
        BY Zenon, <4>1, <4>2
    <3> QED
      BY Zenon, <3>3, <3>4
  <2> QED
    BY Zenon, <2>1, <2>2 DEF OrderExact
<1> QED
  BY <1>1, <1>2, WalkInvariant, TopoStep, PTL DEF MGSpec
-----------------------------------------------------------------------------
(* The members of a workspace (Workspace).                                 *)

\* The members emitted, and those that can be emitted next.
Emitted == {order[i] : i \in DOMAIN order}
Ready == {d \in MemberDirs \ Emitted : MemberDeps(d) \subseteq Emitted}

\* Members are emitted once, and after those they depend on.
Sorted ==
  /\ order \in Seq(MemberDirs)
  /\ \A i, j \in DOMAIN order : order[i] = order[j] => i = j
  /\ \A i \in DOMAIN order : MemberDeps(order[i]) \subseteq {order[j] : j \in 1..(i - 1)}
  /\ Len(order) = Cardinality(Emitted)

\* doneDeps counts what a member still waits for, the queue holds those that
\* wait for nothing.
OrderInv ==
  /\ deps \in [Dirs -> SUBSET Dirs]
  /\ wsDone \in {"idle", "order", "ok", "cycle"}
  /\ wsDone # "idle" =>
       /\ Sorted
       /\ doneDeps = [d \in MemberDirs |-> Cardinality(MemberDeps(d) \ Emitted)]
       /\ wsQueue = Ready
  /\ wsDone \in {"ok", "cycle"} =>
       wsQueue = {} /\ (wsDone = "ok" <=> Len(order) = Cardinality(MemberDirs))

\* A set of naturals has a least element.
LEMMA LeastNat ==
  ASSUME NEW S \in SUBSET Nat, S # {}
  PROVE  \E i \in S : \A j \in S : i <= j
<1> DEFINE R == OpToRel(<, Nat)
<1>1. \A i, j \in Nat : <<i, j>> \in R <=> i < j
  BY Zenon DEF OpToRel
<1>2. IsWellFoundedOn(R, Nat)
  BY Zenon, NatLessThanWellFounded
<1> HIDE DEF R
<1>3. PICK i \in S : \A j \in S : <<j, i>> \notin R
  BY Zenon, <1>2, WFMin
<1>4. \A j \in S : j \in Nat /\ i \in Nat /\ ~(j < i)
  BY Zenon, <1>1, <1>3
<1> QED
  BY <1>3, <1>4

\* The members are finitely many directories, and depend on one another.
LEMMA MembersFinite ==
  /\ MemberDirs \subseteq Dirs /\ MemberDirs \subseteq Nat /\ IsFiniteSet(MemberDirs)
  /\ \A d : MemberDeps(d) \subseteq MemberDirs /\ IsFiniteSet(MemberDeps(d))
<1>1. MemberDirs \subseteq Dirs
  BY Zenon DEF MemberDirs
<1>2. IsFiniteSet(MemberDirs)
  BY <1>1, WorkspaceAssumption, FS_Subset, Zenon
<1>3. \A d : MemberDeps(d) \subseteq MemberDirs
  BY Zenon DEF MemberDeps
<1>4. \A d : IsFiniteSet(MemberDeps(d))
  BY <1>2, <1>3, FS_Subset, Zenon
<1> QED
  BY <1>1, <1>2, <1>3, <1>4, WorkspaceAssumption, Zenon

\* WorkspaceOrder appends a ready member.
LEMMA SortedGrows ==
  ASSUME Sorted, NEW u \in Ready, order' = Append(order, u), UNCHANGED <<members, deps>>
  PROVE  Sorted' /\ Emitted' = Emitted \cup {u}
<1>1. MemberDirs' = MemberDirs /\ \A d : MemberDeps(d)' = MemberDeps(d)
  BY Zenon DEF MemberDirs, MemberDeps
<1>2. u \in MemberDirs /\ u \notin Emitted /\ MemberDeps(u) \subseteq Emitted
  BY Zenon DEF Ready
<1> DEFINE n == Len(order)
<1>3. /\ n \in Nat /\ DOMAIN order = 1..n /\ order' \in Seq(MemberDirs) /\ Len(order') = n + 1 /\ DOMAIN order' = 1..(n + 1)
      /\ (\A i \in 1..n : order'[i] = order[i]) /\ order'[n + 1] = u
  BY <1>2 DEF Sorted
<1> HIDE DEF n
<1>4. \A i \in 1..(n + 1) : i \in 1..n \/ i = n + 1
  BY <1>3
<1>5. Emitted' = Emitted \cup {u}
  <2>1. n + 1 \in 1..(n + 1) /\ \A i \in 1..n : i \in 1..(n + 1)
    BY <1>3
  <2> QED
    BY Zenon, <1>3, <1>4, <2>1 DEF Emitted
<1>6. \A i, j \in DOMAIN order' : order'[i] = order'[j] => i = j
  <2>1. \A i \in 1..n : order[i] # u
    BY Zenon, <1>2, <1>3 DEF Emitted
  <2>2. \A i, j \in 1..n : order'[i] = order'[j] => i = j
    BY Zenon, <1>3 DEF Sorted
  <2>3. \A i \in 1..n : order'[i] # order'[n + 1]
    BY Zenon, <1>3, <2>1
  <2> QED
    BY Zenon, <1>3, <1>4, <2>2, <2>3
<1>7. ASSUME NEW i \in DOMAIN order' PROVE MemberDeps(order'[i]) \subseteq {order'[j] : j \in 1..(i - 1)}
  <2>1. CASE i \in 1..n
    <3>1. \A j \in 1..(i - 1) : j \in 1..n
      BY <1>3, <2>1
    <3>2. {order'[j] : j \in 1..(i - 1)} = {order[j] : j \in 1..(i - 1)}
      BY Zenon, <1>3, <3>1
    <3> QED
      BY Zenon, <1>3, <2>1, <3>2 DEF Sorted
  <2>2. CASE i = n + 1
    <3>1. i - 1 = n
      BY <1>3, <2>2
    <3>2. Emitted = {order'[j] : j \in 1..(i - 1)}
      BY Zenon, <1>3, <3>1 DEF Emitted
    <3> QED
      BY Zenon, <1>2, <1>3, <2>2, <3>2
  <2> QED
    BY Zenon, <1>3, <1>4, <2>1, <2>2
<1>8. Len(order') = Cardinality(Emitted')
  <2>1. IsFiniteSet(Emitted)
    <3>1. Emitted \subseteq MemberDirs
      BY DEF Emitted, Sorted
    <3> QED
      BY <3>1, MembersFinite, FS_Subset, Zenon
  <2>2. Cardinality(Emitted \cup {u}) = Cardinality(Emitted) + 1
    BY <1>2, <2>1, FS_AddElement, Zenon
  <2> QED
    BY Zenon, <1>3, <1>5, <2>2 DEF Sorted, n
<1> QED
  BY Zenon, <1>1, <1>3, <1>5, <1>6, <1>7, <1>8 DEF Sorted

\* The order of WorkspaceOrder keeps its invariant.
LEMMA EmitKeeps == ASSUME OrderInv, EmitMember PROVE OrderInv'
<1>1. Sorted /\ wsQueue = Ready /\ doneDeps = [d \in MemberDirs |-> Cardinality(MemberDeps(d) \ Emitted)]
  BY Zenon DEF OrderInv, EmitMember
<1>2. PICK u \in wsQueue :
        LET dependers == {d \in MemberDirs : u \in MemberDeps(d)}
            left == [d \in DOMAIN doneDeps |-> IF d \in dependers THEN doneDeps[d] - 1 ELSE doneDeps[d]]
        IN /\ order' = Append(order, u) /\ doneDeps' = left
           /\ wsQueue' = (wsQueue \ {u}) \cup {d \in dependers : released(d, left)}
  BY Zenon DEF EmitMember
<1> DEFINE dependers == {d \in MemberDirs : u \in MemberDeps(d)}
<1>3. /\ order' = Append(order, u) /\ u \in Ready
      /\ doneDeps' = [d \in DOMAIN doneDeps |-> IF d \in dependers THEN doneDeps[d] - 1 ELSE doneDeps[d]]
      /\ wsQueue' = (wsQueue \ {u}) \cup {d \in dependers : doneDeps'[d] = 0}
      /\ UNCHANGED <<members, deps, wsDone>> /\ wsDone = "order"
  BY Zenon, <1>1, <1>2 DEF EmitMember, released
<1>4. Sorted' /\ Emitted' = Emitted \cup {u}
  BY Zenon, <1>1, <1>3, SortedGrows
<1>5. MemberDirs' = MemberDirs /\ \A d : MemberDeps(d)' = MemberDeps(d)
  BY Zenon, <1>3 DEF MemberDirs, MemberDeps
<1>6. u \in MemberDirs /\ u \notin Emitted /\ MemberDeps(u) \subseteq Emitted
  BY Zenon, <1>3 DEF Ready
<1>7. \A d \in Emitted : MemberDeps(d) \subseteq Emitted
  <2>1. ASSUME NEW i \in DOMAIN order PROVE MemberDeps(order[i]) \subseteq Emitted
    <3>1. \A j \in 1..(i - 1) : j \in DOMAIN order
      BY <1>1 DEF Sorted
    <3> QED
      BY Zenon, <1>1, <3>1 DEF Sorted, Emitted
  <2> QED
    BY Zenon, <2>1 DEF Emitted
<1>8. ASSUME NEW d \in MemberDirs PROVE doneDeps'[d] = Cardinality(MemberDeps(d) \ Emitted')
  <2>1. IsFiniteSet(MemberDeps(d) \ Emitted)
    BY MembersFinite, FS_Subset, Zenon
  <2>2. MemberDeps(d) \ Emitted' = (MemberDeps(d) \ Emitted) \ {u}
    BY Zenon, <1>4
  <2>3. Cardinality(MemberDeps(d) \ Emitted') =
          IF u \in MemberDeps(d) THEN Cardinality(MemberDeps(d) \ Emitted) - 1 ELSE Cardinality(MemberDeps(d) \ Emitted)
    BY Zenon, <1>6, <2>1, <2>2, FS_RemoveElement
  <2>4. doneDeps'[d] = IF u \in MemberDeps(d) THEN doneDeps[d] - 1 ELSE doneDeps[d]
    BY Zenon, <1>1, <1>3
  <2> QED
    BY Zenon, <1>1, <2>3, <2>4
<1>9. doneDeps' = [d \in MemberDirs |-> Cardinality(MemberDeps(d) \ Emitted')]
  BY Zenon, <1>1, <1>3, <1>8
<1>10. \A d \in MemberDirs : doneDeps'[d] = 0 <=> MemberDeps(d) \subseteq Emitted'
  <2>1. ASSUME NEW d \in MemberDirs PROVE doneDeps'[d] = 0 <=> MemberDeps(d) \subseteq Emitted'
    <3>1. IsFiniteSet(MemberDeps(d) \ Emitted')
      BY MembersFinite, FS_Subset, Zenon
    <3>2. doneDeps'[d] = 0 <=> MemberDeps(d) \ Emitted' = {}
      BY Zenon, <1>8, <3>1, FS_EmptySet
    <3> QED
      BY Zenon, <3>2
  <2> QED
    BY Zenon, <2>1
<1>11. wsQueue' = Ready'
  <2>1. ASSUME NEW d \in wsQueue' PROVE d \in Ready'
    <3>1. CASE d \in wsQueue \ {u}
      BY Zenon, <1>1, <1>4, <1>5, <3>1 DEF Ready
    <3>2. CASE d \in dependers /\ doneDeps'[d] = 0
      <4>1. d # u /\ d \notin Emitted
        BY Zenon, <1>6, <1>7, <3>2
      <4> QED
        BY Zenon, <1>4, <1>5, <1>10, <3>2, <4>1 DEF Ready
    <3> QED
      BY Zenon, <1>3, <3>1, <3>2
  <2>2. ASSUME NEW d \in Ready' PROVE d \in wsQueue'
    <3>1. d \in MemberDirs /\ d \notin Emitted /\ d # u /\ MemberDeps(d) \subseteq Emitted'
      BY Zenon, <1>4, <1>5 DEF Ready
    <3>2. CASE u \in MemberDeps(d)
      BY Zenon, <1>3, <1>10, <3>1, <3>2
    <3>3. CASE u \notin MemberDeps(d)
      <4>1. d \in Ready
        BY Zenon, <1>4, <3>1, <3>3 DEF Ready
      <4> QED
        BY Zenon, <1>1, <1>3, <3>1, <4>1
    <3> QED
      BY Zenon, <3>2, <3>3
  <2> QED
    BY Zenon, <2>1, <2>2
<1> QED
  BY Zenon, <1>3, <1>4, <1>5, <1>9, <1>11 DEF OrderInv

\* WorkspaceOrder starts with nothing emitted.
LEMMA StartKeeps == ASSUME OrderInv, StartOrder PROVE OrderInv'
<1>1. /\ order' = <<>> /\ wsDone' = "order" /\ UNCHANGED <<members, deps>>
      /\ doneDeps' = [d \in MemberDirs |-> Cardinality(MemberDeps(d))]
      /\ wsQueue' = {d \in MemberDirs : MemberDeps(d) = {}}
  BY Zenon DEF StartOrder
<1>2. MemberDirs' = MemberDirs /\ \A d : MemberDeps(d)' = MemberDeps(d)
  BY Zenon, <1>1 DEF MemberDirs, MemberDeps
<1>3. order' \in Seq(MemberDirs) /\ DOMAIN order' = {} /\ Len(order') = 0
  BY <1>1
<1>4. Emitted' = {}
  BY Zenon, <1>3 DEF Emitted
<1>5. Sorted'
  BY Zenon, <1>2, <1>3, <1>4, FS_EmptySet DEF Sorted
<1>6. \A d : MemberDeps(d) \ Emitted' = MemberDeps(d)
  BY Zenon, <1>4
<1>7. wsQueue' = Ready'
  BY Zenon, <1>1, <1>2, <1>4 DEF Ready
<1> QED
  BY Zenon, <1>1, <1>2, <1>5, <1>6, <1>7 DEF OrderInv

\* As long as members and manifests stay, so does what the order is made of.
LEMMA OrderStays ==
  ASSUME UNCHANGED <<members, deps, order>>
  PROVE  /\ MemberDirs' = MemberDirs /\ Emitted' = Emitted /\ Ready' = Ready /\ (Sorted => Sorted')
         /\ \A d : MemberDeps(d)' = MemberDeps(d)
<1>1. MemberDirs' = MemberDirs /\ Emitted' = Emitted
  BY Zenon DEF MemberDirs, Emitted
<1>2. \A d : MemberDeps(d)' = MemberDeps(d)
  BY Zenon, <1>1 DEF MemberDeps
<1>3. Ready' = Ready
  BY Zenon, <1>1, <1>2 DEF Ready
<1>4. ASSUME Sorted PROVE Sorted'
  <2>1. \A i : (MemberDeps(order[i]))' = MemberDeps(order[i])
    BY Zenon, <1>1 DEF MemberDeps
  <2>2. \A i \in DOMAIN order : (MemberDeps(order[i]))' \subseteq {order[j] : j \in 1..(i - 1)}
    BY Zenon, <1>4, <2>1 DEF Sorted
  <2> QED
    BY <1>1, <1>4, <2>2 DEF Sorted
<1> QED
  BY Zenon, <1>1, <1>2, <1>3, <1>4

\* Every step of the workspace commands keeps the invariant.
LEMMA OrderStep == OrderInv /\ [WSNext]_wsVars => OrderInv'
<1> SUFFICES ASSUME OrderInv, [WSNext]_wsVars PROVE OrderInv'
  BY Zenon
<1>1. CASE \E e \in Dirs \X Spellings : AddWorkspaceMember(e) \/ RemoveWorkspaceMember(e)
  <2>1. wsDone' = "idle" /\ UNCHANGED deps
    BY Zenon, <1>1 DEF AddWorkspaceMember, RemoveWorkspaceMember, Forget
  <2> QED
    BY Zenon, <2>1 DEF OrderInv
<1>2. CASE StartOrder
  BY Zenon, <1>2, StartKeeps
<1>3. CASE EmitMember
  BY Zenon, <1>3, EmitKeeps
<1>4. CASE FinishMembers
  <2>1. /\ wsDone = "order" /\ wsQueue = {} /\ UNCHANGED <<members, deps, order, doneDeps, wsQueue>>
        /\ wsDone' = IF Len(order) = Cardinality(MemberDirs) THEN "ok" ELSE "cycle"
    BY Zenon, <1>4 DEF FinishMembers
  <2>2. /\ MemberDirs' = MemberDirs /\ Emitted' = Emitted /\ Ready' = Ready /\ (Sorted => Sorted')
        /\ \A d : MemberDeps(d)' = MemberDeps(d)
    BY Zenon, <2>1, OrderStays
  <2> QED
    BY Zenon, <2>1, <2>2 DEF OrderInv
<1>5. CASE UNCHANGED wsVars
  <2>1. UNCHANGED <<members, deps, order, doneDeps, wsQueue, wsDone>>
    BY Zenon, <1>5 DEF wsVars
  <2>2. /\ MemberDirs' = MemberDirs /\ Emitted' = Emitted /\ Ready' = Ready /\ (Sorted => Sorted')
        /\ \A d : MemberDeps(d)' = MemberDeps(d)
    BY Zenon, <2>1, OrderStays
  <2> QED
    BY Zenon, <2>1, <2>2 DEF OrderInv
<1> QED
  BY Zenon, <1>1, <1>2, <1>3, <1>4, <1>5 DEF WSNext

\* The invariant holds in every state.
LEMMA OrderInvariant == WSSpec => []OrderInv
<1>1. WSInit => OrderInv
  BY Zenon DEF WSInit, OrderInv
<1> QED
  BY <1>1, OrderStep, PTL DEF WSSpec

\* A set of emitted members has one that was emitted before the others: it
\* depends on none of them.
LEMMA FirstIndependent ==
  ASSUME Sorted, NEW S \in SUBSET Emitted, S # {}
  PROVE  \E d \in S : MemberDeps(d) \cap S = {}
<1> DEFINE at == {i \in DOMAIN order : order[i] \in S}
<1>1. at \in SUBSET Nat /\ at # {} /\ DOMAIN order \subseteq Nat
  <2>1. DOMAIN order \subseteq Nat
    BY DEF Sorted
  <2> QED
    BY Zenon, <2>1 DEF Emitted
<1>2. PICK i \in at : \A j \in at : i <= j
  BY Zenon, <1>1, LeastNat
<1>3. i \in Nat /\ i \in DOMAIN order /\ order[i] \in S
  BY Zenon, <1>1, <1>2
<1>4. \A j \in 1..(i - 1) : j \in DOMAIN order /\ ~(i <= j)
  BY <1>3 DEF Sorted
<1>5. \A j \in 1..(i - 1) : order[j] \notin S
  BY Zenon, <1>2, <1>4
<1>6. MemberDeps(order[i]) \subseteq {order[j] : j \in 1..(i - 1)}
  BY Zenon, <1>3 DEF Sorted
<1> QED
  BY Zenon, <1>3, <1>5, <1>6

\* WorkspaceOrder, for any directories, spellings, members and manifests: an
\* order has every member once and after those it depends on; an error is
\* reported exactly if members depend on one another in a circle, and every
\* member reported waits for another one reported.
THEOREM WorkspaceIsOrdered == WSSpec => []WorkspaceOrderSound
<1>1. OrderInv => WorkspaceOrderSound
  <2> SUFFICES ASSUME OrderInv, wsDone \in {"ok", "cycle"} PROVE WorkspaceOrderSound
    BY Zenon DEF WorkspaceOrderSound
  <2>1. /\ Sorted /\ Ready = {} /\ (wsDone = "ok" <=> Len(order) = Cardinality(MemberDirs))
        /\ doneDeps = [d \in MemberDirs |-> Cardinality(MemberDeps(d) \ Emitted)]
    BY Zenon DEF OrderInv
  <2>2. Emitted \in SUBSET MemberDirs /\ Range(order) = Emitted
    BY <2>1 DEF Sorted, Emitted, Range
  <2>3. wsDone = "ok" <=> Emitted = MemberDirs
    <3>1. Cardinality(MemberDirs) = Cardinality(Emitted) => MemberDirs = Emitted
      BY Zenon, <2>2, MembersFinite, FS_Subset
    <3> QED
      BY Zenon, <2>1, <3>1 DEF Sorted
  <2>4. Reported = MemberDirs \ Emitted
    <3>1. ASSUME NEW d \in MemberDirs PROVE doneDeps[d] > 0 <=> d \notin Emitted
      <4>1. IsFiniteSet(MemberDeps(d) \ Emitted)
        BY MembersFinite, FS_Subset, Zenon
      <4>2. doneDeps[d] \in Nat /\ (doneDeps[d] = 0 <=> MemberDeps(d) \ Emitted = {})
        BY Zenon, <2>1, <4>1, FS_EmptySet, FS_CardinalityType
      <4>3. MemberDeps(d) \ Emitted = {} => d \in Emitted
        BY Zenon, <2>1 DEF Ready
      <4>4. d \in Emitted => MemberDeps(d) \subseteq Emitted
        <5> SUFFICES ASSUME NEW i \in DOMAIN order, d = order[i] PROVE MemberDeps(d) \subseteq Emitted
          BY Zenon DEF Emitted
        <5>1. \A j \in 1..(i - 1) : j \in DOMAIN order
          BY <2>1 DEF Sorted
        <5> QED
          BY Zenon, <2>1, <5>1 DEF Sorted, Emitted
      <4>5. doneDeps[d] = 0 <=> d \in Emitted
        BY Zenon, <4>2, <4>3, <4>4
      <4> QED
        BY ONLY <4>2, <4>5
    <3> QED
      BY Zenon, <2>1, <3>1 DEF Reported
  <2>5. \A d \in Reported : MemberDeps(d) \cap Reported # {}
    BY Zenon, <2>1, <2>4, MembersFinite DEF Ready
  <2>6. Acyclic <=> Emitted = MemberDirs
    <3>1. ASSUME Emitted = MemberDirs PROVE Acyclic
      BY Zenon, <2>1, <3>1, FirstIndependent DEF Acyclic
    <3>2. ASSUME Acyclic PROVE Emitted = MemberDirs
      BY Zenon, <2>2, <2>4, <2>5, <3>2 DEF Acyclic
    <3> QED
      BY Zenon, <3>1, <3>2
  <2> QED
    BY Zenon, <2>1, <2>2, <2>3, <2>4, <2>5, <2>6 DEF WorkspaceOrderSound, Sorted
<1> QED
  BY <1>1, OrderInvariant, PTL
=============================================================================
