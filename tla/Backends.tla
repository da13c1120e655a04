------------------------------ MODULE Backends ------------------------------
(***************************************************************************)
(* One program compiled by one of the three code generators and run.  The  *)
(* state is the program, the target, its code, what the program means and  *)
(* the machine; a step runs a stretch of instructions.                     *)
(***************************************************************************)
EXTENDS NativeBackend, WasmBackend, CBackend

CONSTANTS
  Programs,    \* the programs compiled
  Stretch,     \* instructions run in one step
  MaxSteps     \* steps after which a compiled program counts as endless

VARIABLES prog, target, code, want, m, ran

vars == <<prog, target, code, want, m, ran>>

-----------------------------------------------------------------------------
(***************************************************************************)
(* What the code generators are known to get wrong, by construct.          *)
(***************************************************************************)
RECURSIVE Inside(_)
\* The statements of a list, nested ones included.
Inside(ss) ==
  UNION {LET s == ss[i]
         IN {s} \cup (CASE s.k = "if" -> Inside(s.s) \cup Inside(s.t)
                        [] s.k \in {"while", "forin"} -> Inside(s.s)
                        [] s.k = "for" -> Inside(<<s.i>>) \cup Inside(<<s.p>>) \cup Inside(s.s)
                        [] OTHER -> {}) : i \in DOMAIN ss}

RECURSIVE Calls(_)
Calls(e) ==
  CASE e.k = "bin" -> Calls(e.l) \cup Calls(e.r)
    [] e.k = "call" -> {e} \cup UNION {Calls(e.args[i]) : i \in DOMAIN e.args}
    [] OTHER -> {}

ExprsOf(s) ==
  CASE s.k \in {"let", "set", "print", "return"} -> {s.e}
    [] s.k \in {"if", "while", "for"} -> {s.c}
    [] OTHER -> {}

\* A parameter is stored in its slot on entry and read from its register.
ParamInRegister(fd) == ToSet(fd.params) \cap DOMAIN planRegs(fd) # {}

\* The variable of a for-in is stored in its slot and read from its register,
\* and the ranges of the names its body uses are not widened to the loop.
ForInWithRegisters(fd) == planRegs(fd) # <<>> /\ \E s \in Inside(fd.body) : s.k = "forin"

\* The ranges of the names of a post clause are not widened to the loop.
PostUnseen(fd) ==
  \E s \in Inside(fd.body) :
    s.k = "for" /\ ~((exprNames(s.p.e) \cup {s.p.x}) \subseteq usedNames(<<s>>))
                /\ (exprNames(s.p.e) \cup {s.p.x}) \cap DOMAIN planRegs(fd) # {}

\* A call in a later argument parks its own arguments where the earlier ones
\* of the outer call wait.
CallInLaterArg(fd) ==
  \E s \in Inside(fd.body) : \E e \in ExprsOf(s) : \E c \in Calls(e) :
    \E i \in 2..Len(c.args) : Calls(c.args[i]) # {}

NativeKnown(p) ==
  \E f \in DOMAIN p : \/ ParamInRegister(p[f]) \/ ForInWithRegisters(p[f])
                      \/ PostUnseen(p[f]) \/ CallInLaterArg(p[f])

RECURSIVE ContinuesIn(_)
\* A continue whose innermost loop is the one this list is the body of.
ContinuesIn(ss) ==
  \E i \in DOMAIN ss : \/ ss[i].k = "continue"
                       \/ ss[i].k = "if" /\ (ContinuesIn(ss[i].s) \/ ContinuesIn(ss[i].t))

\* A continue in a for or a for-in goes to the top of the loop and misses the
\* post clause or the step of the index.
WasmKnown(p) ==
  \E f \in DOMAIN p : \E s \in Inside(p[f].body) : s.k \in {"for", "forin"} /\ ContinuesIn(s.s)

-----------------------------------------------------------------------------
Compile(t, p) ==
  CASE t = "native" -> NativeCode(p)
    [] t = "wasm" -> WasmCode(p)
    [] t = "c" -> CCode(p)

Load(t, c) ==
  CASE t = "native" -> NativeStart
    [] t = "wasm" -> WasmStart(c)
    [] t = "c" -> CStart

Init ==
  /\ prog \in {p \in Programs : Reference(p).ends}
  /\ target \in {"native", "wasm", "c"}
  /\ want = Reference(prog).out
  /\ code = Compile(target, prog)
  /\ m = Load(target, code)
  /\ ran = 0

RECURSIVE RunFor(_, _)
RunFor(st, k) ==
  IF k = 0 \/ st.halted THEN st
  ELSE RunFor(CASE target = "native" -> NativeStep(code, st)
                [] target = "wasm" -> WasmStep(code, st)
                [] target = "c" -> CStep(prog, code, st), k - 1)

Run(t) ==
  /\ target = t
  /\ ~m.halted
  /\ ran < MaxSteps
  /\ m' = RunFor(m, Stretch)
  /\ ran' = ran + 1
  /\ UNCHANGED <<prog, target, code, want>>

Next == Run("native") \/ Run("wasm") \/ Run("c")

Spec == Init /\ [][Next]_vars

-----------------------------------------------------------------------------
\* The compiled program has stopped, or is given up as endless.
Over == m.halted \/ ran = MaxSteps
Agrees == m.halted /\ m.out = want

(***************************************************************************)
(* The native code of a program prints what the program means and stops:   *)
(* the allocation never gives a register to two live variables, operands   *)
(* of nested expressions do not share a scratch slot, callee-saved         *)
(* registers survive calls, break and continue reach the right place.      *)
(* Programs with one of the constructs above are left to the run that      *)
(* shows what goes wrong.                                                  *)
(***************************************************************************)
NativeAgrees == target = "native" /\ Over /\ ~NativeKnown(prog) => Agrees

(***************************************************************************)
(* The WebAssembly code prints what the program means and stops: branch    *)
(* depths count every open frame, scopes pick the right local.             *)
(***************************************************************************)
WasmAgrees == target = "wasm" /\ Over /\ ~WasmKnown(prog) => Agrees

(***************************************************************************)
(* The C code prints what the program means and stops: lowering, constant  *)
(* folding, branch simplification and dead-code removal keep the meaning.  *)
(***************************************************************************)
CAgrees == target = "c" /\ Over => Agrees

(***************************************************************************)
(* "Ranges are therefore widened to span the loop that uses them [...] it  *)
(* can only cause an extra spill, never a wrong answer" (regalloc.go): the *)
(* native code of a program with loops prints what the program means.      *)
(***************************************************************************)
NeverAWrongAnswer ==
  target = "native" /\ Over /\ (\A f \in DOMAIN prog : ~ParamInRegister(prog[f]) /\ ~CallInLaterArg(prog[f])) => Agrees
=============================================================================
