------------------------------ MODULE CBackend ------------------------------
(***************************************************************************)
(* The C back end (pkg/codegen, pkg/ir/ssa): a function is lowered to      *)
(* blocks of SSA instructions, constants are folded, branches on constants *)
(* are turned into jumps and unreachable blocks removed, dead instructions *)
(* are removed, and the result is verified before it is printed as C.      *)
(*                                                                         *)
(* The lowering state l holds the blocks in order, the index of the        *)
(* current block, the registers used so far, the names with a cell         *)
(* (l.env) and the loops.  Blocks and registers are numbered.  What the    *)
(* lowering does not know becomes raw C: it is printed as the C statement  *)
(* of the same shape, which a C compiler gives the meaning of the source.  *)
(***************************************************************************)
EXTENDS MiniKarkain, FiniteSetsExt, SequencesExt

Reg(r) == [c |-> FALSE, v |-> r, kind |-> "Value"]
Cst(kind, v) == [c |-> TRUE, v |-> v, kind |-> kind]

Terminators == {"br", "jmp", "ret"}
Ins(o, d, args) == [o |-> o, d |-> d, args |-> args, x |-> "", s |-> <<>>, to |-> <<>>]
NoDest == 0

Emit(l, i) == [l EXCEPT !.blocks[l.cur] = Append(@, i)]
NewReg(l) == [l EXCEPT !.regs = @ + 1]
NewBlocks(l, n) == [l EXCEPT !.blocks = @ \o [i \in 1..n |-> <<>>]]
Enter(l, b) == [l EXCEPT !.cur = b]
Terminated(l) == l.blocks[l.cur] # <<>> /\ Last(l.blocks[l.cur]).o \in Terminators
JmpTo(l, b) == IF Terminated(l) THEN l ELSE Emit(l, [Ins("jmp", NoDest, <<>>) EXCEPT !.to = <<b>>])

\* An instruction with a fresh destination, which becomes the operand.
Define(l, i) == [l |-> Emit(NewReg(l), [i EXCEPT !.d = l.regs + 1]), op |-> Reg(l.regs + 1)]

\* A constant operand is put in a register of its own.
materialize(r) == IF r.op.c THEN Define(r.l, Ins("const", NoDest, <<r.op>>)) ELSE r

RECURSIVE lowerExpr(_, _), lowerArgs(_, _, _)
lowerExpr(l, e) ==
  CASE e.k = "int" -> [l |-> l, op |-> Cst("I", e.n)]
    [] e.k = "id" /\ e.x \in l.env -> Define(l, [Ins("load", NoDest, <<>>) EXCEPT !.x = e.x])
    [] e.k = "id" /\ e.x \notin l.env -> Define(l, [Ins("rawc", NoDest, <<>>) EXCEPT !.s = <<e>>])
    [] e.k = "bin" ->
         LET a == materialize(lowerExpr(l, e.l))
             b == materialize(lowerExpr(a.l, e.r))
         IN Define(b.l, [Ins("bin", NoDest, <<a.op, b.op>>) EXCEPT !.x = e.o])
    [] e.k = "call" ->
         LET a == lowerArgs(l, e.args, <<>>)
         IN Define(a.l, [Ins("call", NoDest, a.ops) EXCEPT !.x = e.f])

lowerArgs(l, args, ops) ==
  IF args = <<>> THEN [l |-> l, ops |-> ops]
  ELSE LET a == materialize(lowerExpr(l, Head(args)))
       IN lowerArgs(a.l, Tail(args), Append(ops, a.op))

storeCell(l, x, e) ==
  LET r == materialize(lowerExpr(l, e))
  IN [Emit(r.l, [Ins("store", NoDest, <<r.op>>) EXCEPT !.x = x]) EXCEPT !.env = @ \cup {x}]

RECURSIVE lowerStmts(_, _)

\* The blocks of an if: then, join and, when there is an alternative, else.
lowerIf(l, s) ==
  LET c == materialize(lowerExpr(l, s.c))
      n == Len(c.l.blocks)
      alt == IF s.t = <<>> THEN n + 2 ELSE n + 3
      br == Emit(NewBlocks(c.l, alt - n), [Ins("br", NoDest, <<c.op>>) EXCEPT !.to = <<n + 1, alt>>])
      then == JmpTo(lowerStmts(Enter(br, n + 1), s.s), n + 2)
      both == IF s.t = <<>> THEN then ELSE JmpTo(lowerStmts(Enter(then, n + 3), s.t), n + 2)
  IN Enter(both, n + 2)

\* The blocks of a loop: header, body, exit.
lowerWhile(l, s) ==
  LET n == Len(l.blocks)
      h == Enter(Emit(NewBlocks(l, 3), [Ins("jmp", NoDest, <<>>) EXCEPT !.to = <<n + 1>>]), n + 1)
      c == materialize(lowerExpr(h, s.c))
      br == Emit(c.l, [Ins("br", NoDest, <<c.op>>) EXCEPT !.to = <<n + 2, n + 3>>])
      in == [Enter(br, n + 2) EXCEPT !.loops = Append(@, [brk |-> n + 3, cont |-> n + 1])]
      body == JmpTo(lowerStmts(in, s.s), n + 1)
  IN Enter([body EXCEPT !.loops = Front(@)], n + 3)

lowerStmt(l, s) ==
  CASE s.k \in {"let", "set"} -> storeCell(l, s.x, s.e)
    [] s.k \in {"print", "return"} ->
         LET r == materialize(lowerExpr(l, s.e))
         IN Emit(r.l, Ins(IF s.k = "print" THEN "print" ELSE "ret", NoDest, <<r.op>>))
    [] s.k = "break" -> JmpTo(l, Last(l.loops).brk)
    [] s.k = "continue" -> JmpTo(l, Last(l.loops).cont)
    [] s.k = "if" -> lowerIf(l, s)
    [] s.k = "while" -> lowerWhile(l, s)
    [] s.k \in {"for", "forin"} -> Emit(l, [Ins("rawc", NoDest, <<>>) EXCEPT !.s = <<s>>])

\* The statements after a terminator are dropped.
lowerStmts(l, ss) == FoldLeft(LAMBDA m, s : IF Terminated(m) THEN m ELSE lowerStmt(m, s), l, ss)

lowerFunc(fd) ==
  LET l == lowerStmts([blocks |-> <<<<>>>>, cur |-> 1, regs |-> 0, env |-> {}, loops |-> <<>>], fd.body)
  IN (IF Terminated(l) THEN l ELSE Emit(l, Ins("ret", NoDest, <<>>))).blocks

-----------------------------------------------------------------------------
(***************************************************************************)
(* The passes, over the sequence of blocks.                                *)
(***************************************************************************)
\* Comparing two ints folds to a bool; operands of different kinds are left.
foldInstr(i) ==
  LET a == i.args[1]
      b == i.args[2]
  IN IF i.o = "bin" /\ a.c /\ b.c /\ a.kind = b.kind /\ a.kind = "I"
     THEN Ins("const", i.d, <<Cst(IF i.x = "+" THEN "I" ELSE "Bool", Arith(i.x, a.v, b.v))>>)
     ELSE i

\* Known constants replace registers, block after block in order.
FoldConstPass(blocks) ==
  LET one(st, i) ==
        LET r == [i EXCEPT !.args = [j \in DOMAIN @ |->
                    IF ~@[j].c /\ @[j].v \in DOMAIN st.known THEN st.known[@[j].v] ELSE @[j]]]
            f == foldInstr(r)
        IN [out |-> Append(st.out, f),
            known |-> IF f.o = "const" THEN (f.d :> f.args[1]) @@ st.known ELSE st.known]
      block(st, b) ==
        LET r == FoldLeft(one, [out |-> <<>>, known |-> st.known], b)
        IN [bs |-> Append(st.bs, r.out), known |-> r.known]
  IN FoldLeft(block, [bs |-> <<>>, known |-> <<>>], blocks).bs

\* Mutant: the branch on a constant goes to the side that is not taken.
taken_Wrong(op, to) == IF op.v # 0 THEN to[2] ELSE to[1]

taken(op, to) == IF op.v # 0 THEN to[1] ELSE to[2]

RECURSIVE reachable(_, _)
reachable(blocks, bs) ==
  LET more == bs \cup UNION {ToSet(Last(blocks[b]).to) : b \in {b \in bs : blocks[b] # <<>>}}
  IN IF more = bs THEN bs ELSE reachable(blocks, more)

\* Removed blocks keep their number and become empty.
SimplifyCFGPass(blocks) ==
  LET jump(b) ==
        IF b # <<>> /\ Last(b).o = "br" /\ Last(b).args[1].c
        THEN Append(Front(b), [Ins("jmp", NoDest, <<>>) EXCEPT !.to = <<taken(Last(b).args[1], Last(b).to)>>])
        ELSE b
      bs == [i \in DOMAIN blocks |-> jump(blocks[i])]
  IN [i \in DOMAIN bs |-> IF i \in reachable(bs, {1}) THEN bs[i] ELSE <<>>]

isAlive(i, used) == i.o \in Terminators \cup {"call", "rawc"} \/ i.d = NoDest \/ i.d \in used

RECURSIVE DCESimplePass(_)
DCESimplePass(blocks) ==
  LET used == UNION {UNION {{i.args[j].v : j \in {j \in DOMAIN i.args : ~i.args[j].c}} : i \in ToSet(b)} : b \in ToSet(blocks)}
      kept == [k \in DOMAIN blocks |-> SelectSeq(blocks[k], LAMBDA i : isAlive(i, used))]
  IN IF kept = blocks THEN blocks ELSE DCESimplePass(kept)

\* Every block ends in its only terminator, targets exist, every register is
\* assigned once.
Verify(blocks) ==
  LET live == {b \in DOMAIN blocks : blocks[b] # <<>>}
      dests == SelectSeq(FlattenSeq(blocks), LAMBDA i : i.d # NoDest)
  IN /\ \A b \in live : \A j \in DOMAIN blocks[b] : (blocks[b][j].o \in Terminators) <=> (j = Len(blocks[b]))
     /\ \A b \in live : ToSet(Last(blocks[b]).to) \subseteq live
     /\ \A i, j \in DOMAIN dests : dests[i].d = dests[j].d => i = j

\* A function that does not verify is left to the older generator, which
\* prints the body statement by statement.
emitFunctionViaIR(fd) ==
  LET blocks == DCESimplePass(SimplifyCFGPass(FoldConstPass(lowerFunc(fd))))
      legacy == <<[i \in DOMAIN fd.body |-> [Ins("rawc", NoDest, <<>>) EXCEPT !.s = <<fd.body[i]>>]]
                    \o <<Ins("ret", NoDest, <<>>)>>>>
  IN IF Verify(blocks) THEN blocks ELSE legacy

CCode(p) == [f \in DOMAIN p |-> emitFunctionViaIR(p[f])]

-----------------------------------------------------------------------------
(***************************************************************************)
(* The C program at work: registers and cells are the C variables of a     *)
(* function, blocks its labels.  A raw statement does what the source      *)
(* statement means (its loops are C loops, and a return in one returns     *)
(* from the C function); the C compiler is trusted.                        *)
(***************************************************************************)
CStart == [fn |-> "main", blk |-> 1, pc |-> 1, regs |-> <<>>, cells |-> NoVars,
           calls |-> <<>>, out |-> <<>>, halted |-> FALSE]

CStep(p, code, m) ==
  LET i == code[m.fn][m.blk][m.pc]
      n == [m EXCEPT !.pc = @ + 1]
      put(st, d, v) == [st EXCEPT !.regs = (d :> v) @@ @]
      val(j) == IF i.args[j].c THEN i.args[j].v ELSE m.regs[i.args[j].v]
      goto(b) == [m EXCEPT !.blk = b, !.pc = 1]
      return(st, v) ==
        IF st.calls = <<>> THEN [st EXCEPT !.halted = TRUE]
        ELSE LET r == Last(st.calls)
             IN [st EXCEPT !.fn = r.fn, !.blk = r.blk, !.pc = r.pc, !.cells = r.cells,
                           !.regs = (r.d :> v) @@ r.regs, !.calls = Front(@)]
      raw == Exec(p, i.s[1], [Start EXCEPT !.env = m.cells, !.out = m.out])
      after == [n EXCEPT !.cells = raw.env, !.out = raw.out]
      params == p[i.x].params
  IN CASE i.o = "const" -> put(n, i.d, val(1))
       [] i.o = "bin" -> put(n, i.d, Arith(i.x, val(1), val(2)))
       [] i.o = "load" -> put(n, i.d, m.cells[i.x])
       [] i.o = "store" -> [n EXCEPT !.cells[i.x] = val(1)]
       [] i.o = "print" -> [n EXCEPT !.out = Append(@, val(1))]
       [] i.o = "br" -> goto(IF val(1) # 0 THEN i.to[1] ELSE i.to[2])
       [] i.o = "jmp" -> goto(i.to[1])
       [] i.o = "ret" -> return(m, IF i.args = <<>> THEN 0 ELSE val(1))
       [] i.o = "rawc" /\ i.d # NoDest -> put(n, i.d, m.cells[i.s[1].x])
       [] i.o = "rawc" /\ i.d = NoDest -> IF raw.sig = "return" THEN return(after, raw.val) ELSE after
       [] i.o = "call" ->
            [m EXCEPT !.fn = i.x, !.blk = 1, !.pc = 1, !.regs = <<>>,
                      !.cells = [x \in Names |-> IF x \in ToSet(params)
                                                 THEN val(CHOOSE j \in DOMAIN params : params[j] = x) ELSE 0],
                      !.calls = Append(@, [fn |-> m.fn, blk |-> m.blk, pc |-> m.pc + 1, d |-> i.d,
                                           cells |-> m.cells, regs |-> m.regs])]
=============================================================================
