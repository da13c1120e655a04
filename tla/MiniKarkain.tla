---------------------------- MODULE MiniKarkain ----------------------------
(***************************************************************************)
(* The part of the Karkain language that all three code generators accept: *)
(* int variables, assignment, print, if, while, C-style for, for-in over   *)
(* an int array, break, continue, return and calls, with + and <.  The     *)
(* meaning of a program is given by an interpreter over the syntax tree,   *)
(* which is what the native, the WebAssembly and the C back ends are       *)
(* compared with.                                                          *)
(*                                                                         *)
(* A name is declared once per function (the back ends document different  *)
(* answers for shadowing), and an array is the literal it is bound to.     *)
(***************************************************************************)
EXTENDS Integers, Sequences

CONSTANTS
  NameOrder,   \* every variable name of the programs, in string order
  Fuel         \* loop iterations after which a program counts as endless

Names == {NameOrder[i] : i \in DOMAIN NameOrder}

\* Expressions.
Lit(n) == [k |-> "int", n |-> n]
Id(x) == [k |-> "id", x |-> x]
Bin(o, l, r) == [k |-> "bin", o |-> o, l |-> l, r |-> r]
Call(f, args) == [k |-> "call", f |-> f, args |-> args]

\* Statements.  A post clause is a bare assignment expression, as the parser
\* leaves it.
Let(x, e) == [k |-> "let", x |-> x, e |-> e]
Set(x, e) == [k |-> "set", x |-> x, e |-> e]
Prt(e) == [k |-> "print", e |-> e]
If(c, s, t) == [k |-> "if", c |-> c, s |-> s, t |-> t]
While(c, s) == [k |-> "while", c |-> c, s |-> s]
For(i, c, p, s) == [k |-> "for", i |-> i, c |-> c, p |-> p, s |-> s]
ForIn(x, els, s) == [k |-> "forin", x |-> x, els |-> els, s |-> s]
Brk == [k |-> "break"]
Cont == [k |-> "continue"]
Ret(e) == [k |-> "return", e |-> e]

\* A function: its parameters and its body.  A program maps "main" and the
\* other function names to functions.
Fn(params, body) == [params |-> params, body |-> body]

-----------------------------------------------------------------------------
(***************************************************************************)
(* The interpreter.  Its state: the variables of the current function, the *)
(* output so far, how the last statement ended, the last value and the     *)
(* iterations left.                                                        *)
(***************************************************************************)
NoVars == [x \in Names |-> 0]
Start == [env |-> NoVars, out |-> <<>>, sig |-> "next", val |-> 0, fuel |-> Fuel]

Arith(o, a, b) == IF o = "+" THEN a + b ELSE IF a < b THEN 1 ELSE 0

RECURSIVE Eval(_, _, _), EvalArgs(_, _, _, _), Exec(_, _, _), ExecAll(_, _, _), Loop(_, _, _, _, _), Each(_, _, _, _, _)

\* Evaluates an expression, left operand first; the value is in "val".
Eval(p, e, st) ==
  CASE e.k = "int" -> [st EXCEPT !.val = e.n]
    [] e.k = "id" -> [st EXCEPT !.val = st.env[e.x]]
    [] e.k = "bin" ->
         LET a == Eval(p, e.l, st)
             b == Eval(p, e.r, a)
         IN [b EXCEPT !.val = Arith(e.o, a.val, b.val)]
    [] e.k = "call" ->
         LET a == EvalArgs(p, e.args, <<>>, st)
             f == p[e.f]
             bound == [x \in Names |->
                         IF \E i \in DOMAIN f.params : f.params[i] = x
                         THEN a.vals[CHOOSE i \in DOMAIN f.params : f.params[i] = x]
                         ELSE 0]
             r == ExecAll(p, f.body, [a.st EXCEPT !.env = bound])
         IN [r EXCEPT !.env = a.st.env,
                      !.sig = IF r.sig = "endless" THEN "endless" ELSE "next",
                      !.val = IF r.sig = "return" THEN r.val ELSE 0]

EvalArgs(p, args, vals, st) ==
  IF args = <<>> THEN [vals |-> vals, st |-> st]
  ELSE LET a == Eval(p, Head(args), st) IN EvalArgs(p, Tail(args), Append(vals, a.val), a)

Exec(p, s, st) ==
  CASE s.k \in {"let", "set"} -> LET a == Eval(p, s.e, st) IN [a EXCEPT !.env[s.x] = a.val]
    [] s.k = "print" -> LET a == Eval(p, s.e, st) IN [a EXCEPT !.out = Append(@, a.val)]
    [] s.k = "return" -> [Eval(p, s.e, st) EXCEPT !.sig = "return"]
    [] s.k \in {"break", "continue"} -> [st EXCEPT !.sig = s.k]
    [] s.k = "if" -> LET a == Eval(p, s.c, st) IN ExecAll(p, IF a.val # 0 THEN s.s ELSE s.t, a)
    [] s.k = "while" -> Loop(p, s.c, s.s, <<>>, st)
    [] s.k = "for" -> Loop(p, s.c, s.s, <<s.p>>, Exec(p, s.i, st))
    [] s.k = "forin" -> Each(p, s.x, s.els, s.s, st)

ExecAll(p, ss, st) ==
  IF ss = <<>> \/ st.sig # "next" THEN st ELSE ExecAll(p, Tail(ss), Exec(p, Head(ss), st))

\* After a body: a break or a continue has had its effect.
Leaves(st) == st.sig \in {"break", "return", "endless"}
AfterLoop(st) == IF st.sig = "break" THEN [st EXCEPT !.sig = "next"] ELSE st

Loop(p, c, body, post, st) ==
  LET a == Eval(p, c, st)
      b == ExecAll(p, body, a)
  IN IF st.fuel = 0 THEN [st EXCEPT !.sig = "endless"]
     ELSE IF a.val = 0 THEN a
     ELSE IF Leaves(b) THEN AfterLoop(b)
     ELSE Loop(p, c, body, post, ExecAll(p, post, [b EXCEPT !.sig = "next", !.fuel = @ - 1]))

Each(p, x, els, body, st) ==
  IF els = <<>> THEN st
  ELSE LET b == ExecAll(p, body, [st EXCEPT !.env[x] = Head(els)])
       IN IF Leaves(b) THEN AfterLoop(b) ELSE Each(p, x, Tail(els), body, [b EXCEPT !.sig = "next"])

\* The outcome of a program: what it prints, and whether it ends.
Reference(p) ==
  LET st == ExecAll(p, p["main"].body, Start)
  IN [out |-> st.out, ends |-> st.sig # "endless"]
=============================================================================
