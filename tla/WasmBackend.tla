---------------------------- MODULE WasmBackend ----------------------------
(***************************************************************************)
(* The WebAssembly code generator (pkg/wasm) and the stack machine its     *)
(* code runs on.  Every operator returns the code it appends; g is what    *)
(* the generator knows at that place: the local of each name, the number   *)
(* of open frames and the enclosing loops.  A frame is named by the path   *)
(* of its statement in the body and its kind.                              *)
(*                                                                         *)
(* An int value v is represented by 2 * v (bit 0 tags boxed values).       *)
(***************************************************************************)
EXTENDS MiniKarkain, FiniteSetsExt, SequencesExt

I(o) == [o |-> o]
Get(i) == [o |-> "get", i |-> i]
SetL(i) == [o |-> "set", i |-> i]
Const(n) == [o |-> "const", n |-> n]
Open(kind, at) == [o |-> kind, id |-> Append(at, kind)]
Else(at) == [o |-> "else", id |-> Append(at, "if")]
Close(kind, at) == [o |-> "end", id |-> Append(at, kind)]
Br(n) == [o |-> "br", n |-> n]
BrIf(n) == [o |-> "brif", n |-> n]

RECURSIVE allocLocals(_, _)
\* The keys that get a local, in the order they are allocated: <<x>> for a
\* variable, <<"idx">> \o path for the hidden index of a for-in.
allocLocals(ss, path) ==
  FlattenSeq([i \in DOMAIN ss |->
    LET s == ss[i]
        at == Append(path, i)
    IN CASE s.k = "let" -> <<<<s.x>>>>
         [] s.k = "if" -> allocLocals(s.s, Append(at, 1)) \o allocLocals(s.t, Append(at, 2))
         [] s.k = "while" -> allocLocals(s.s, Append(at, 1))
         [] s.k = "for" -> <<<<s.i.x>>>> \o allocLocals(s.s, Append(at, 1))
         [] s.k = "forin" -> <<<<"idx">> \o at, <<s.x>>>> \o allocLocals(s.s, Append(at, 1))
         [] OTHER -> <<>>])

lookup(g, x) == g.local[<<x>>]

RECURSIVE genExpr(_, _)
genExpr(g, e) ==
  CASE e.k = "int" -> <<Const(2 * e.n)>>
    [] e.k = "id" -> <<Get(lookup(g, e.x))>>
    [] e.k = "bin" -> genExpr(g, e.l) \o genExpr(g, e.r) \o <<I(IF e.o = "+" THEN "add" ELSE "lt")>>
    [] e.k = "call" -> FlattenSeq([i \in DOMAIN e.args |-> genExpr(g, e.args[i])]) \o <<[o |-> "call", f |-> e.f]>>

\* The value of an assignment stays on the stack; as a statement it is dropped.
genAssign(g, s) == genExpr(g, s.e) \o <<[o |-> "tee", i |-> lookup(g, s.x)], I("drop")>>

genVarDecl(g, s) == genExpr(g, s.e) \o <<SetL(lookup(g, s.x))>>

RECURSIVE genStmts(_, _, _)

Within(g, frames) == [g EXCEPT !.frameDepth = @ + frames]

genIf(g, s, at) ==
  genExpr(g, s.c) \o <<I("truthy"), Open("if", at)>> \o genStmts(Within(g, 1), s.s, Append(at, 1))
    \o (IF s.t = <<>> THEN <<>> ELSE <<Else(at)>> \o genStmts(Within(g, 1), s.t, Append(at, 2)))
    \o <<Close("if", at)>>

\* A loop in a block: the block is the target of break, the loop that of
\* continue.  The test leaves the block when it fails; the step follows the
\* body.
genLoop(g, test, body, step, at) ==
  LET in == [Within(g, 2) EXCEPT !.loops = Append(@, [brkBase |-> g.frameDepth + 1, contBase |-> g.frameDepth + 2])]
  IN <<Open("block", at), Open("loop", at)>> \o test \o genStmts(in, body, Append(at, 1))
       \o step \o <<Br(0), Close("loop", at), Close("block", at)>>

exitUnless(g, c) == genExpr(g, c) \o <<I("truthy"), I("eqz"), BrIf(1)>>

genWhile(g, s, at) == genLoop(g, exitUnless(g, s.c), s.s, <<>>, at)

genFor(g, s, at) ==
  genVarDecl(g, s.i) \o genLoop(g, exitUnless(g, s.c), s.s, genAssign(g, s.p), at)

\* The index counts in tagged values, so it advances by 2.
genForIn(g, s, at) ==
  LET idx == g.local[<<"idx">> \o at]
      test == <<Get(idx), Const(2 * Len(s.els)), I("lt"), I("eqz"), BrIf(1),
                Get(idx), [o |-> "elem", els |-> s.els], SetL(lookup(g, s.x))>>
  IN <<Const(0), SetL(idx)>> \o genLoop(g, test, s.s, <<Get(idx), Const(2), I("add"), SetL(idx)>>, at)

\* Mutant: a jump out of nested frames counts one frame too few.
distance_OneShort(g, base) == Max({0, g.frameDepth - base - 1})

distance(g, base) == g.frameDepth - base

genStmt(g, s, at) ==
  CASE s.k = "let" -> genVarDecl(g, s)
    [] s.k = "set" -> genAssign(g, s)
    [] s.k = "print" -> genExpr(g, s.e) \o <<I("print")>>
    [] s.k = "return" -> genExpr(g, s.e) \o <<I("return")>>
    [] s.k = "if" -> genIf(g, s, at)
    [] s.k = "while" -> genWhile(g, s, at)
    [] s.k = "for" -> genFor(g, s, at)
    [] s.k = "forin" -> genForIn(g, s, at)
    [] s.k = "break" -> <<Br(distance(g, Last(g.loops).brkBase))>>
    [] s.k = "continue" -> <<Br(distance(g, Last(g.loops).contBase))>>

genStmts(g, ss, path) == FlattenSeq([i \in DOMAIN ss |-> genStmt(g, ss[i], Append(path, i))])

\* Parameters are the first locals; a function that runs off its end
\* returns 0.
WasmFunc(fd) ==
  LET keys == [i \in DOMAIN fd.params |-> <<fd.params[i]>>] \o allocLocals(fd.body, <<>>)
      g == [local |-> [k \in ToSet(keys) |-> Min({i \in DOMAIN keys : keys[i] = k})], frameDepth |-> 0, loops |-> <<>>]
  IN [code |-> genStmts(g, fd.body, <<>>) \o <<Const(0), I("return")>>, locals |-> Len(keys), params |-> Len(fd.params)]

WasmCode(p) == [f \in DOMAIN p |-> WasmFunc(p[f])]

-----------------------------------------------------------------------------
(***************************************************************************)
(* The machine: locals, operand stack, open labels, suspended functions.   *)
(* Locals that are not parameters start at 0.                              *)
(***************************************************************************)
WasmEnter(code, f, args) == args \o [i \in 1..(code[f].locals - code[f].params) |-> 0]

WasmStart(code) ==
  [fn |-> "main", pc |-> 1, loc |-> WasmEnter(code, "main", <<>>), stk |-> <<>>, lab |-> <<>>,
   calls |-> <<>>, out |-> <<>>, halted |-> FALSE]

PosOf(c, i) == CHOOSE j \in DOMAIN c : c[j] = i

WasmStep(code, m) ==
  LET c == code[m.fn].code
      i == c[m.pc]
      n == [m EXCEPT !.pc = @ + 1]
      top == Last(m.stk)
      under == m.stk[Len(m.stk) - 1]
      pop == [n EXCEPT !.stk = Front(@)]
      pop2 == SubSeq(m.stk, 1, Len(m.stk) - 2)
      push(st, v) == [st EXCEPT !.stk = Append(@, v)]
      \* A branch to the frame n levels out: a loop is entered again, any
      \* other frame is left.
      branch(st, k) ==
        LET id == m.lab[Len(m.lab) - k]
        IN [st EXCEPT !.lab = SubSeq(@, 1, Len(m.lab) - k - 1),
                      !.pc = IF Last(id) = "loop" THEN PosOf(c, [o |-> "loop", id |-> id])
                             ELSE PosOf(c, [o |-> "end", id |-> id]) + 1]
      hasElse(id) == \E j \in DOMAIN c : c[j] = [o |-> "else", id |-> id]
      argc == code[i.f].params
  IN CASE i.o = "const" -> push(n, i.n)
       [] i.o = "get" -> push(n, m.loc[i.i])
       [] i.o = "set" -> [pop EXCEPT !.loc[i.i] = top]
       [] i.o = "tee" -> [n EXCEPT !.loc[i.i] = top]
       [] i.o = "drop" -> pop
       [] i.o = "add" -> [n EXCEPT !.stk = Append(pop2, under + top)]
       [] i.o = "lt" -> [n EXCEPT !.stk = Append(pop2, IF under < top THEN 2 ELSE 0)]
       [] i.o = "truthy" -> push(pop, IF top = 0 THEN 0 ELSE 1)
       [] i.o = "eqz" -> push(pop, IF top = 0 THEN 1 ELSE 0)
       [] i.o = "elem" -> push(pop, 2 * i.els[(top \div 2) + 1])
       [] i.o = "print" -> [pop EXCEPT !.out = Append(@, top \div 2)]
       [] i.o \in {"block", "loop"} -> [n EXCEPT !.lab = Append(@, i.id)]
       [] i.o = "if" ->
            IF top # 0 THEN [pop EXCEPT !.lab = Append(@, i.id)]
            ELSE IF hasElse(i.id)
            THEN [pop EXCEPT !.lab = Append(@, i.id), !.pc = PosOf(c, [o |-> "else", id |-> i.id]) + 1]
            ELSE [pop EXCEPT !.pc = PosOf(c, [o |-> "end", id |-> i.id]) + 1]
       [] i.o = "else" -> [m EXCEPT !.pc = PosOf(c, [o |-> "end", id |-> i.id])]
       [] i.o = "end" -> [n EXCEPT !.lab = Front(@)]
       [] i.o = "br" -> branch(n, i.n)
       [] i.o = "brif" -> IF top # 0 THEN branch(pop, i.n) ELSE pop
       [] i.o = "call" ->
            [m EXCEPT !.fn = i.f, !.pc = 1, !.lab = <<>>, !.stk = <<>>,
                      !.loc = WasmEnter(code, i.f, SubSeq(m.stk, Len(m.stk) - argc + 1, Len(m.stk))),
                      !.calls = Append(@, [fn |-> m.fn, pc |-> m.pc + 1, loc |-> m.loc, lab |-> m.lab,
                                           stk |-> SubSeq(m.stk, 1, Len(m.stk) - argc)])]
       [] i.o = "return" ->
            IF m.calls = <<>> THEN [m EXCEPT !.halted = TRUE]
            ELSE LET r == Last(m.calls)
                 IN [m EXCEPT !.fn = r.fn, !.pc = r.pc, !.loc = r.loc, !.lab = r.lab,
                              !.stk = Append(r.stk, top), !.calls = Front(@)]
=============================================================================
