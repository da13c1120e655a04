----------------------------- MODULE MCBackends -----------------------------
(***************************************************************************)
(* Programs for Backends: two variables, a loop or an if around two        *)
(* statements drawn from a list, and the variables printed at the end.     *)
(***************************************************************************)
EXTENDS Backends

MCNameOrder == <<"i", "j", "k", "p", "q", "x", "y", "z">>
MCAllocRegs == <<"rbx", "r12">>
MCJunk == -100

X == Id("x")
Y == Id("y")
Plus(l, r) == Bin("+", l, r)
Less(l, r) == Bin("<", l, r)
Inc(x) == Set(x, Plus(Id(x), Lit(1)))

\* Short statement lists for a body: arithmetic of several depths, branches
\* on variables and on constants, jumps, nested loops, calls, returns.
Pieces ==
  { <<Prt(Plus(Plus(X, Y), Plus(Y, Lit(1))))>>,
    <<Set("y", Plus(Y, X))>>,
    <<If(Less(Y, Lit(2)), <<Inc("y")>>, <<Brk>>)>>,
    <<If(Less(X, Y), <<Cont>>, <<>>)>>,
    <<Let("z", Plus(X, Plus(Y, Lit(1)))), Prt(Id("z"))>>,
    <<If(Less(Lit(1), Lit(2)), <<Inc("y")>>, <<Ret(Lit(9))>>)>>,
    <<While(Less(Y, Lit(2)), <<Inc("y"), If(Less(X, Y), <<Brk>>, <<>>)>>)>>,
    <<For(Let("j", Lit(0)), Less(Id("j"), Lit(2)), Inc("j"), <<If(Less(Y, Id("j")), <<Cont>>, <<>>), Inc("y")>>)>>,
    <<Set("y", Call("sum", <<Y, X>>))>>,
    <<Set("y", Plus(X, Call("count", <<X, Y>>)))>>,
    <<Set("y", Call("sum", <<X, Call("sum", <<Y, Lit(1)>>)>>))>>,
    <<If(Less(Lit(2), Y), <<Ret(X)>>, <<>>)>> }

Around(s) ==
  { <<While(Less(X, Lit(3)), <<Inc("x")>> \o s)>>,
    <<While(Less(X, Lit(3)), s \o <<Inc("x")>>)>>,
    <<For(Let("i", Lit(0)), Less(Id("i"), Lit(2)), Inc("i"), s)>>,
    <<For(Let("i", Lit(0)), Less(X, Lit(3)), Set("x", Plus(X, Lit(1))), s)>>,
    <<Let("k", Lit(1)), For(Let("i", Lit(0)), Less(Id("i"), Lit(2)), Set("i", Plus(Id("i"), Id("k"))), s)>>,
    <<ForIn("i", <<2, 3>>, s \o <<Prt(Id("i"))>>)>>,
    <<If(Less(X, Lit(2)), <<Inc("y")>>, <<>>)>> \o SelectSeq(s, LAMBDA t : t.k \notin {"break", "continue", "if"}) }

\* One function without control flow, one with it and three live names.
Sum == Fn(<<"p", "q">>, <<Ret(Plus(Id("p"), Id("q")))>>)
Count ==
  Fn(<<"p", "q">>,
     <<Let("x", Lit(0)), Let("y", Lit(0)), Let("z", Lit(1)),
       While(Less(X, Lit(2)), <<Inc("x"), Set("y", Plus(Y, Id("z")))>>), Ret(Plus(Y, Call("sum", <<Id("z"), X>>)))>>)

MCPrograms ==
  { [main |-> Fn(<<>>, <<Let("x", Lit(1)), Let("y", Lit(0))>> \o w \o last), sum |-> Sum, count |-> Count] :
      w \in UNION {Around(st[1] \o st[2]) : st \in {st \in Pieces \X Pieces : st[1] # st[2]}},
      last \in {<<Prt(X), Prt(Y)>>, <<Prt(Y)>>} }
=============================================================================
