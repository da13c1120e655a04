----------------------------- MODULE TestRunner -----------------------------
(***************************************************************************)
(* The test command on one test file (pkg/cli/testing.go): the tests are   *)
(* compiled and run one after the other, each by a goroutine that the      *)
(* runner leaves behind when the test takes longer than the timeout.  All  *)
(* tests of a file share the C file and the executable, so a goroutine     *)
(* that was left behind and the test that runs now meet in those files.    *)
(*                                                                         *)
(* Generating the C and compiling it (the compiler is killed after 10 s)   *)
(* take less than the 30 s of the timeout, so the timer finds the program  *)
(* running.                                                                *)
(***************************************************************************)
EXTENDS Naturals

CONSTANT N   \* tests in the file, in the order they are run

ASSUME NAssumption == N \in Nat

Tests == 1..N
None == 0    \* no file, no program

VARIABLES
  works,     \* what the program of each test does: "passes", "fails" or "hangs"
  cur,       \* the test runSingleTest is at
  cfile,     \* the test whose program <file>.test.c holds
  exe,       \* the test whose program the executable holds
  phase,     \* where the goroutine of each test is
  proc,      \* the program the process of each test executes
  err,       \* the error GenerateAndCompile returns
  ch,        \* the result channel of each test, of capacity 1: sent or not
  verdict    \* the result the runner has recorded for each test

vars == <<works, cur, cfile, exe, phase, proc, err, ch, verdict>>

Init ==
  /\ works \in [Tests -> {"passes", "fails", "hangs"}]
  /\ cur = 1
  /\ cfile = None
  /\ exe = None
  /\ phase = [t \in Tests |-> IF t = 1 THEN "write" ELSE "waiting"]
  /\ proc = [t \in Tests |-> None]
  /\ err = [t \in Tests |-> "none"]
  /\ ch = [t \in Tests |-> FALSE]
  /\ verdict = [t \in Tests |-> "none"]

Enter(t, p) == phase' = [phase EXCEPT ![t] = p]

-----------------------------------------------------------------------------
\* GenerateAndCompile in the goroutine of test t.
WriteC(t) ==
  /\ phase[t] = "write"
  /\ cfile' = t
  /\ Enter(t, "compile")
  /\ UNCHANGED <<works, cur, exe, proc, err, ch, verdict>>

\* The compiler may fail: its time is limited.
CompileC(t) ==
  /\ phase[t] = "compile"
  /\ \/ /\ cfile # None
        /\ exe' = cfile
        /\ Enter(t, "start")
        /\ UNCHANGED err
     \/ /\ err' = [err EXCEPT ![t] = "compile"]
        /\ Enter(t, "send")
        /\ UNCHANGED exe
  /\ UNCHANGED <<works, cur, cfile, proc, ch, verdict>>

StartProgram(t) ==
  /\ phase[t] = "start"
  /\ IF exe = None
     THEN err' = [err EXCEPT ![t] = "missing"] /\ Enter(t, "remove") /\ UNCHANGED proc
     ELSE proc' = [proc EXCEPT ![t] = exe] /\ Enter(t, "run") /\ UNCHANGED err
  /\ UNCHANGED <<works, cur, cfile, exe, ch, verdict>>

\* A program that hangs does not end.
ProgramEnds(t) ==
  /\ phase[t] = "run" /\ works[proc[t]] # "hangs"
  /\ err' = [err EXCEPT ![t] = IF works[proc[t]] = "fails" THEN "failed" ELSE "none"]
  /\ Enter(t, "remove")
  /\ UNCHANGED <<works, cur, cfile, exe, proc, ch, verdict>>

RemoveExe(t) ==
  /\ phase[t] = "remove"
  /\ exe' = None
  /\ Enter(t, "send")
  /\ UNCHANGED <<works, cur, cfile, proc, err, ch, verdict>>

\* Mutant: the channel has no buffer; a send waits for the runner.
room_Unbuffered(t) == cur = t

room(t) == ~ch[t]

SendResult(t) ==
  /\ phase[t] = "send" /\ room(t)
  /\ ch' = [ch EXCEPT ![t] = TRUE]
  /\ Enter(t, "done")
  /\ UNCHANGED <<works, cur, cfile, exe, proc, err, verdict>>

Goroutine(t) ==
  WriteC(t) \/ CompileC(t) \/ StartProgram(t) \/ ProgramEnds(t) \/ RemoveExe(t) \/ SendResult(t)

-----------------------------------------------------------------------------
\* runSingleTest returns v for the current test: the C file is removed and
\* the loop of runTestsInFile goes on to the next test.
Return(v) ==
  /\ verdict' = [verdict EXCEPT ![cur] = v]
  /\ cfile' = None
  /\ cur' = cur + 1
  /\ phase' = [t \in Tests |-> IF t = cur + 1 THEN "write" ELSE phase[t]]
  /\ UNCHANGED <<works, exe, proc, err>>

TakeResult ==
  /\ cur \in Tests /\ ch[cur]
  /\ Return(IF err[cur] = "none" THEN "pass" ELSE err[cur])
  /\ ch' = [ch EXCEPT ![cur] = FALSE]

\* Mutant: the compiler has no time limit of its own.
late_Anywhere(p) == p \notin {"waiting", "done"}

\* Where the timer may find the goroutine.
late(p) == p \in {"run", "remove", "send", "done"}

TimeOut ==
  /\ cur \in Tests /\ late(phase[cur])
  /\ Return("timeout")
  /\ UNCHANGED ch

Next == (\E t \in Tests : Goroutine(t)) \/ TakeResult \/ TimeOut

Spec == Init /\ [][Next]_vars

\* The goroutines are scheduled, a program that does not hang ends, and the
\* select of runSingleTest takes one of the channels that are ready.
Fairness == WF_vars(TakeResult \/ TimeOut) /\ \A t \in Tests : WF_vars(Goroutine(t))

FairSpec == Spec /\ Fairness

-----------------------------------------------------------------------------
(***************************************************************************)
(* runSingleTest: a test passes only if its own program ran and passed; it *)
(* is reported as failing only if its own program failed or could not be   *)
(* compiled.  An executable is missing only after a test of the file has   *)
(* timed out: the goroutine left behind removes the file of the test that  *)
(* runs now.                                                               *)
(***************************************************************************)
VerdictExact ==
  \A t \in Tests :
    /\ verdict[t] = "pass" => works[t] = "passes" /\ proc[t] = t
    /\ verdict[t] = "failed" => works[t] = "fails" /\ proc[t] = t
    /\ verdict[t] = "missing" => \E u \in 1..(t - 1) : verdict[u] = "timeout"

(***************************************************************************)
(* The timeout of runSingleTest and its buffered result channel: whatever  *)
(* the programs do, every test of the file gets a result, and a goroutine  *)
(* whose test has timed out still ends when its program does.              *)
(***************************************************************************)
RunnerEnds ==
  /\ <>(\A t \in Tests : verdict[t] # "none")
  /\ \A t \in Tests : phase[t] = "remove" ~> phase[t] = "done"
=============================================================================
