--------------------------- MODULE NativeBackend ---------------------------
(***************************************************************************)
(* The native code generator (pkg/native): frame layout, register          *)
(* allocation and emission of one function, and the machine the code runs  *)
(* on.  Code is a sequence of instructions with labels; a label is the     *)
(* path of its statement in the body and the role it plays there.          *)
(*                                                                         *)
(* Offsets are in units of eight bytes.  A frame slot or a register that   *)
(* nothing has written holds Junk, a value no program computes: whatever   *)
(* depends on it differs from what the program means.                      *)
(***************************************************************************)
EXTENDS MiniKarkain, FiniteSetsExt, SequencesExt

CONSTANTS
  AllocRegs,     \* allocRegs, in preference order
  MaxBinDepth,   \* maxBinDepth: levels of the operand scratch stack
  Junk           \* what uninitialised storage holds

ArgRegs == <<"rdi", "rsi">>
raMinLive == Len(AllocRegs) + 1

-----------------------------------------------------------------------------
(***************************************************************************)
(* Layout: the slots of parameters, variables and for-in indices.          *)
(***************************************************************************)
RECURSIVE scanLets(_, _)
\* The keys that own a frame slot, in the order they are met: <<x>> for a
\* variable, <<"idx">> \o path for the hidden index of a for-in.
scanLets(ss, path) ==
  FlattenSeq([i \in DOMAIN ss |->
    LET s == ss[i]
        at == Append(path, i)
    IN CASE s.k = "let" -> <<<<s.x>>>>
         [] s.k = "if" -> scanLets(s.s, Append(at, 1)) \o scanLets(s.t, Append(at, 2))
         [] s.k = "while" -> scanLets(s.s, Append(at, 1))
         [] s.k = "for" -> <<<<s.i.x>>>> \o scanLets(s.s, Append(at, 1))
         [] s.k = "forin" -> <<<<s.x>>, <<"idx">> \o at>> \o scanLets(s.s, Append(at, 1))
         [] OTHER -> <<>>])

-----------------------------------------------------------------------------
(***************************************************************************)
(* Register allocation: live ranges over the points of a walk in emission  *)
(* order, then a linear scan.  A walk is the sequence of the names touched *)
(* at each point, None where the point touches none.                       *)
(***************************************************************************)
None == ""

RECURSIVE walkExpr(_)
walkExpr(e) ==
  CASE e.k = "int" -> <<None>>
    [] e.k = "id" -> <<e.x>>
    [] e.k = "bin" -> <<None>> \o walkExpr(e.l) \o walkExpr(e.r)
    [] e.k = "call" -> <<None>> \o FlattenSeq([i \in DOMAIN e.args |-> walkExpr(e.args[i])])

RECURSIVE walkStmts(_)
walkStmts(ss) ==
  FlattenSeq([i \in DOMAIN ss |->
    LET s == ss[i]
    IN CASE s.k \in {"let", "set"} -> <<s.x>> \o walkExpr(s.e)
         [] s.k \in {"print", "return"} -> walkExpr(s.e)
         [] s.k = "if" -> walkExpr(s.c) \o walkStmts(s.s) \o walkStmts(s.t)
         [] s.k = "while" -> walkExpr(s.c) \o walkStmts(s.s)
         [] s.k = "for" -> walkStmts(<<s.i>>) \o walkExpr(s.c) \o walkStmts(s.s)
         [] s.k = "forin" -> <<None>> \o walkStmts(s.s)
         [] OTHER -> <<>>])

RECURSIVE exprNames(_)
exprNames(e) ==
  CASE e.k = "int" -> {}
    [] e.k = "id" -> {e.x}
    [] e.k = "bin" -> exprNames(e.l) \cup exprNames(e.r)
    [] e.k = "call" -> UNION {exprNames(e.args[i]) : i \in DOMAIN e.args}

RECURSIVE usedNames(_)
\* The names a statement list mentions.  A post clause is an expression, not
\* a statement, so the case analysis of statements passes over it; the
\* variable of a for-in is not among them either.
usedNames(ss) ==
  UNION {LET s == ss[i]
         IN CASE s.k \in {"let", "set"} -> {s.x} \cup exprNames(s.e)
              [] s.k \in {"print", "return"} -> exprNames(s.e)
              [] s.k = "if" -> exprNames(s.c) \cup usedNames(s.s) \cup usedNames(s.t)
              [] s.k = "while" -> exprNames(s.c) \cup usedNames(s.s)
              [] s.k = "for" -> usedNames(<<s.i>>) \cup exprNames(s.c) \cup usedNames(s.s)
              [] s.k = "forin" -> usedNames(s.s)
              [] OTHER -> {} : i \in DOMAIN ss}

\* Mutant: ranges are not widened to the loops that use the names.
holds_Nothing(ss, at) == {}

RECURSIVE holds(_, _)
\* The spans a while and a for hold their names over, for a statement list
\* whose walk starts after point "at".  A for-in holds nothing.
holds(ss, at) ==
  UNION {LET s == ss[i]
             from == at + Len(walkStmts(SubSeq(ss, 1, i - 1)))
             head == Len(walkExpr(s.c))
             init == Len(walkStmts(<<s.i>>))
         IN CASE s.k = "if" -> holds(s.s, from + head) \cup holds(s.t, from + head + Len(walkStmts(s.s)))
              [] s.k = "while" ->
                   {[names |-> usedNames(<<s>>), lo |-> from, hi |-> from + head + Len(walkStmts(s.s))]}
                     \cup holds(s.s, from + head)
              [] s.k = "for" ->
                   {[names |-> usedNames(<<s>>), lo |-> from + init, hi |-> from + init + head + Len(walkStmts(s.s))]}
                     \cup holds(s.s, from + init + head)
              [] s.k = "forin" -> holds(s.s, from + 1)
              [] OTHER -> {} : i \in DOMAIN ss}

\* name -> [lo, hi]: the points that touch it and the spans that hold it.
liveRanges(body) ==
  LET walk == walkStmts(body)
      touched(x) == {q \in DOMAIN walk : walk[q] = x}
      held(x) == {h \in holds(body, 0) : x \in h.names}
  IN [x \in ToSet(walk) \ {None} |->
        [lo |-> Min(touched(x) \cup {h.lo : h \in held(x)}),
         hi |-> Max(touched(x) \cup {h.hi : h \in held(x)})]]

\* The largest number of ranges that share a point.
peak(w) ==
  Max({0} \cup {Cardinality({y \in DOMAIN w : w[y].lo <= w[x].lo /\ w[x].lo <= w[y].hi}) : x \in DOMAIN w})

RECURSIVE hasControlFlow(_)
hasControlFlow(ss) ==
  \E i \in DOMAIN ss : \/ ss[i].k \in {"if", "while", "for"}
                       \/ ss[i].k = "forin" /\ hasControlFlow(ss[i].s)

NameIndex(x) == CHOOSE i \in DOMAIN NameOrder : NameOrder[i] = x

\* A holder is dead at a range that starts after its own has ended.
frees(w, y, x) == w[y].hi < w[x].lo

\* The linear scan: at each range, in order of start and name, the registers
\* of dead holders are released and the first free one is taken, if any.
assign(w) ==
  LET before(x, y) == \/ w[x].lo < w[y].lo
                      \/ w[x].lo = w[y].lo /\ NameIndex(x) < NameIndex(y)
      place(st, x) ==
        LET held == {r \in DOMAIN st.heldBy : ~frees(w, st.heldBy[r], x)}
            kept == [r \in held |-> st.heldBy[r]]
            free == SelectSeq(AllocRegs, LAMBDA r : r \notin held)
        IN IF free = <<>> THEN [st EXCEPT !.heldBy = kept]
           ELSE [heldBy |-> kept @@ (Head(free) :> x), regOf |-> st.regOf @@ (x :> Head(free))]
  IN FoldLeft(place, [heldBy |-> <<>>, regOf |-> <<>>], SetToSortSeq(DOMAIN w, before)).regOf

\* name -> register, for the functions that pass the gate.
planRegs(fd) ==
  LET w == liveRanges(fd.body)
  IN IF hasControlFlow(fd.body) /\ peak(w) >= raMinLive THEN assign(w) ELSE <<>>

\* What the emitter knows of a function: slot offsets, areas, registers.
layout(fd) ==
  LET keys == [i \in DOMAIN fd.params |-> <<fd.params[i]>>] \o scanLets(fd.body, <<>>)
  IN [slot |-> [k \in ToSet(keys) |-> Min({i \in DOMAIN keys : keys[i] = k}) - 1],
      bin |-> Len(keys),
      arg |-> Len(keys) + MaxBinDepth,
      size |-> Len(keys) + MaxBinDepth + Len(ArgRegs),
      regOf |-> planRegs(fd)]

-----------------------------------------------------------------------------
(***************************************************************************)
(* Emission.  Every operator returns the code it appends; b is the layout. *)
(***************************************************************************)
Imm(d, n) == [o |-> "imm", d |-> d, n |-> n]
Mov(d, r) == [o |-> "mov", d |-> d, s |-> r]
LoadStack(d, a) == [o |-> "load", d |-> d, a |-> a]
StoreStack(r, a) == [o |-> "store", s |-> r, a |-> a]
Jmp(l) == [o |-> "jmp", l |-> l]
Mark(l) == [o |-> "mark", l |-> l]

\* An allocated variable lives in its register, every other in its slot.
readVar(b, x) == IF x \in DOMAIN b.regOf THEN Mov("rax", b.regOf[x]) ELSE LoadStack("rax", b.slot[<<x>>])
writeVar(b, x) == IF x \in DOMAIN b.regOf THEN Mov(b.regOf[x], "rax") ELSE StoreStack("rax", b.slot[<<x>>])

RECURSIVE emitExpr(_, _, _)

\* Mutant: the operand scratch slot does not depend on the nesting depth.
binSlot_Shared(b, depth) == b.bin

binSlot(b, depth) == b.bin + depth

\* The left operand waits in the scratch slot of this depth; RCX gets the
\* right one.
emitOperands(b, l, r, slot, depth) ==
  emitExpr(b, l, depth) \o <<StoreStack("rax", slot)>> \o emitExpr(b, r, depth)
    \o <<Mov("rcx", "rax"), LoadStack("rax", slot)>>

\* Each argument is evaluated and parked in the spill unit of its position,
\* then all are loaded into the argument registers.
emitCallValue(b, f, args, depth) ==
  FlattenSeq([i \in DOMAIN args |-> emitExpr(b, args[i], depth) \o <<StoreStack("rax", b.arg + i - 1)>>])
    \o [i \in DOMAIN args |-> LoadStack(ArgRegs[i], b.arg + i - 1)]
    \o <<[o |-> "call", f |-> f]>>

emitExpr(b, e, depth) ==
  CASE e.k = "int" -> <<Imm("rax", e.n)>>
    [] e.k = "id" -> <<readVar(b, e.x)>>
    [] e.k = "bin" -> emitOperands(b, e.l, e.r, binSlot(b, depth), depth + 1) \o <<[o |-> "add"]>>
    [] e.k = "call" -> emitCallValue(b, e.f, e.args, depth)

\* A condition jumps to the label when the comparison is false.
emitCond(b, c, l) == emitOperands(b, c.l, c.r, b.bin, 1) \o <<[o |-> "jge", l |-> l]>>

RECURSIVE emitStmts(_, _, _, _)

emitIf(b, s, at, loops) ==
  emitCond(b, s.c, Append(at, "ifelse")) \o emitStmts(b, s.s, Append(at, 1), loops)
    \o <<Jmp(Append(at, "ifend")), Mark(Append(at, "ifelse"))>>
    \o emitStmts(b, s.t, Append(at, 2), loops) \o <<Mark(Append(at, "ifend"))>>

emitWhile(b, s, at, loops) ==
  LET top == Append(at, "while")
      end == Append(at, "whileend")
  IN <<Mark(top)>> \o emitCond(b, s.c, end)
       \o emitStmts(b, s.s, Append(at, 1), Append(loops, [brk |-> end, cont |-> top]))
       \o <<Jmp(top), Mark(end)>>

emitSet(b, s) == emitExpr(b, s.e, 0) \o <<writeVar(b, s.x)>>

\* Mutant: continue goes back to the condition and misses the post clause.
forCont_Top(at) == Append(at, "for")

forCont(at) == Append(at, "forpost")

emitFor(b, s, at, loops) ==
  LET top == Append(at, "for")
      end == Append(at, "forend")
  IN emitSet(b, s.i) \o <<Mark(top)>> \o emitCond(b, s.c, end)
       \o emitStmts(b, s.s, Append(at, 1), Append(loops, [brk |-> end, cont |-> forCont(at)]))
       \o <<Mark(Append(at, "forpost"))>> \o emitSet(b, s.p) \o <<Jmp(top), Mark(end)>>

\* The loop variable is stored to its frame slot, whatever the allocator
\* decided for its name.
emitForIn(b, s, at, loops) ==
  LET idx == b.slot[<<"idx">> \o at]
      top == Append(at, "forin")
      end == Append(at, "forinend")
      cont == Append(at, "forincont")
  IN <<Imm("rax", 0), StoreStack("rax", idx), Mark(top), LoadStack("rcx", idx),
       [o |-> "jlen", n |-> Len(s.els), l |-> end], [o |-> "elem", els |-> s.els],
       StoreStack("rax", b.slot[<<s.x>>])>>
       \o emitStmts(b, s.s, Append(at, 1), Append(loops, [brk |-> end, cont |-> cont]))
       \o <<Mark(cont), [o |-> "inc", a |-> idx], Jmp(top), Mark(end)>>

emitStmt(b, s, at, loops) ==
  CASE s.k \in {"let", "set"} -> emitSet(b, s)
    [] s.k = "print" -> emitExpr(b, s.e, 0) \o <<[o |-> "print"]>>
    [] s.k = "return" -> emitExpr(b, s.e, 0) \o <<Jmp(<<"$ret">>)>>
    [] s.k = "if" -> emitIf(b, s, at, loops)
    [] s.k = "while" -> emitWhile(b, s, at, loops)
    [] s.k = "for" -> emitFor(b, s, at, loops)
    [] s.k = "forin" -> emitForIn(b, s, at, loops)
    [] s.k = "break" -> <<Jmp(Last(loops).brk)>>
    [] s.k = "continue" -> <<Jmp(Last(loops).cont)>>

emitStmts(b, ss, path, loops) == FlattenSeq([i \in DOMAIN ss |-> emitStmt(b, ss[i], Append(path, i), loops)])

\* Mutant: the registers the allocation claimed are not restored.
restore_Nothing(used) == <<>>

restore(used) == [i \in DOMAIN used |-> [o |-> "pop", r |-> used[Len(used) + 1 - i]]]

\* Prologue, parameters homed in their slots, body, a zero result when no
\* top-level statement returns, epilogue.
emitFunc(fd) ==
  LET b == layout(fd)
      used == SelectSeq(AllocRegs, LAMBDA r : \E x \in DOMAIN b.regOf : b.regOf[x] = r)
      returned == \E i \in DOMAIN fd.body : fd.body[i].k = "return"
  IN [i \in DOMAIN used |-> [o |-> "push", r |-> used[i]]] \o <<[o |-> "enter", n |-> b.size]>>
       \o [i \in DOMAIN fd.params |-> StoreStack(ArgRegs[i], b.slot[<<fd.params[i]>>])]
       \o emitStmts(b, fd.body, <<>>, <<>>)
       \o (IF returned THEN <<>> ELSE <<Imm("rax", 0)>>)
       \o <<Mark(<<"$ret">>), [o |-> "leave"]>> \o restore(used) \o <<[o |-> "ret"]>>

NativeCode(p) == [f \in DOMAIN p |-> emitFunc(p[f])]

-----------------------------------------------------------------------------
(***************************************************************************)
(* The machine: registers, the frame of the running function, the stack of *)
(* pushed registers and the stack of suspended functions.                  *)
(***************************************************************************)
NativeStart ==
  [fn |-> "main", pc |-> 1, frame |-> <<>>, saved |-> <<>>, calls |-> <<>>, out |-> <<>>, halted |-> FALSE,
   regs |-> [r \in ToSet(AllocRegs) \cup ToSet(ArgRegs) \cup {"rax", "rcx"} |-> Junk]]

Target(code, l) == CHOOSE i \in DOMAIN code : code[i] = Mark(l)

NativeStep(code, m) ==
  LET i == code[m.fn][m.pc]
      n == [m EXCEPT !.pc = @ + 1]
      rax == m.regs["rax"]
      jump == [m EXCEPT !.pc = Target(code[m.fn], i.l)]
  IN CASE i.o = "imm" -> [n EXCEPT !.regs[i.d] = i.n]
       [] i.o = "mov" -> [n EXCEPT !.regs[i.d] = m.regs[i.s]]
       [] i.o = "load" -> [n EXCEPT !.regs[i.d] = m.frame[i.a + 1]]
       [] i.o = "store" -> [n EXCEPT !.frame[i.a + 1] = m.regs[i.s]]
       [] i.o = "inc" -> [n EXCEPT !.frame[i.a + 1] = @ + 1]
       [] i.o = "add" -> [n EXCEPT !.regs["rax"] = rax + m.regs["rcx"]]
       [] i.o = "jge" -> IF rax >= m.regs["rcx"] THEN jump ELSE n
       [] i.o = "jlen" -> IF i.n <= m.regs["rcx"] THEN jump ELSE n
       [] i.o = "elem" -> [n EXCEPT !.regs["rax"] = i.els[m.regs["rcx"] + 1]]
       [] i.o = "jmp" -> jump
       [] i.o = "mark" -> n
       [] i.o = "print" -> [n EXCEPT !.out = Append(@, rax)]
       [] i.o = "push" -> [n EXCEPT !.saved = Append(@, m.regs[i.r])]
       [] i.o = "pop" -> [n EXCEPT !.saved = Front(@), !.regs[i.r] = Last(m.saved)]
       [] i.o = "enter" -> [n EXCEPT !.frame = [k \in 1..i.n |-> Junk]]
       [] i.o = "leave" -> [n EXCEPT !.frame = <<>>]
       [] i.o = "call" -> [m EXCEPT !.fn = i.f, !.pc = 1, !.frame = <<>>,
                                    !.calls = Append(@, [fn |-> m.fn, pc |-> m.pc + 1, frame |-> m.frame])]
       [] i.o = "ret" ->
            IF m.calls = <<>> THEN [m EXCEPT !.halted = TRUE]
            ELSE [m EXCEPT !.fn = Last(m.calls).fn, !.pc = Last(m.calls).pc,
                           !.frame = Last(m.calls).frame, !.calls = Front(@)]
=============================================================================
