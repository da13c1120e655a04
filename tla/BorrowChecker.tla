---------------------------- MODULE BorrowChecker ----------------------------
(***************************************************************************)
(* The borrow checker, pkg/sema/borrow_checker.go: the stack of scopes that*)
(* checkNode opens and closes while it walks a program, and what it keeps  *)
(* of each variable.  The walk is of any program: each action is a node    *)
(* that the next step of the walk may meet, and scopes are well nested.    *)
(* Errors are reduced to whether one was reported.  Types (linear types,   *)
(* usage counts, exhaustive matches) are left out.                         *)
(***************************************************************************)
EXTENDS Integers, Sequences, FiniteSets

CONSTANTS
  Names,
  MaxDepth,           \* bound on the scopes open at a time
  MaxBorrows          \* bound on the borrows recorded in the open scopes

ASSUME BorrowAssumption == MaxDepth \in Nat /\ MaxBorrows \in Nat

VARIABLES
  depth,              \* open scopes; bc.scope is scope number depth, 0 is nil
  kind,               \* the node a scope belongs to
  own,                \* scope.vars: the ownership of each name declared in it
  borrows,            \* scope.borrows: records [name, prev, at], at = declScope
  dead,               \* scope.dead
  errors,             \* len(bc.errors) > 0
  loans, gone, ended  \* history: see below

bcVars == <<depth, kind, own, borrows, dead, errors, loans, gone, ended>>

(* History.  A binding is <<d, n>>, name n as scope d declared it last.    *)
(* loans has the borrows the checker let pass whose scope is still open    *)
(* (binding, scope of the borrow, mutability), gone the bindings moved, and*)
(* ended[r] the names declared in blocks that ended while r was the        *)
(* innermost open function (or the program).                               *)

Scopes == 1..MaxDepth
Absent == "absent"    \* the name has no entry in scope.vars
Fresh(ns) == [n \in Names |-> IF n \in ns THEN "Owned" ELSE Absent]
NoVars == Fresh({})
FnRoot(k) == k \in {"global", "function"}

BCInit ==
  /\ depth = 0 /\ kind = [d \in Scopes |-> "none"]
  /\ own = [d \in Scopes |-> NoVars] /\ borrows = [d \in Scopes |-> <<>>]
  /\ dead = [d \in Scopes |-> {}] /\ errors = FALSE
  /\ loans = {} /\ gone = {} /\ ended = [d \in Scopes |-> {}]

-----------------------------------------------------------------------------
\* scope.lookup: the innermost scope that declares n, 0 if none does.
Declaring(n) == {d \in 1..depth : own[d][n] # Absent}
lookup(n) ==
  IF Declaring(n) = {} THEN 0
  ELSE CHOOSE d \in Declaring(n) : \A e \in Declaring(n) : e <= d

\* A new scope with the names ns declared in it.
pushScope(k, ns) ==
  /\ depth < MaxDepth /\ depth' = depth + 1
  /\ kind' = [kind EXCEPT ![depth + 1] = k]
  /\ own' = [own EXCEPT ![depth + 1] = Fresh(ns)]
  /\ UNCHANGED <<borrows, dead, loans, gone, ended>>

\* Check: a new global scope and no errors.
Check == depth = 0 /\ pushScope("global", {}) /\ errors' = FALSE

\* The walk is inside a scope, where the next node can be an expression, or
\* a statement if the scope is that of a list of statements.
Inside == depth > 0 /\ kind[depth] # "loop"
Statements == depth > 0 /\ kind[depth] \in {"global", "function", "block"}

\* checkFuncDecl with its parameters, and LambdaExpr.
EnterFunction(ns) == Inside /\ pushScope("function", ns) /\ UNCHANGED errors

\* checkBlock: a block, a branch of an if, or the body of an arm.
EnterBlock ==
  /\ Statements \/ (depth > 0 /\ kind[depth] = "arm")
  /\ pushScope("block", {}) /\ UNCHANGED errors

\* An arm of checkMatchExpr, with the name its pattern binds, if any.
EnterArm(ns) == Inside /\ pushScope("arm", ns) /\ UNCHANGED errors

\* WhileStmt and ForInStmt, which declares ns: a scope and that of the body.
EnterLoop(ns) ==
  /\ Statements /\ depth + 2 <= MaxDepth /\ depth' = depth + 2
  /\ kind' = [kind EXCEPT ![depth + 1] = "loop", ![depth + 2] = "block"]
  /\ own' = [own EXCEPT ![depth + 1] = Fresh(ns)]
  /\ UNCHANGED <<borrows, dead, errors, loans, gone, ended>>

\* ForStmt: Init and Condition are met in its scope, then the body opens a
\* scope of its own, then Post is met in the first again.
EnterFor ==
  /\ Statements /\ depth + 2 <= MaxDepth /\ pushScope("for", {})
  /\ UNCHANGED errors

ForBody ==
  /\ depth > 0 /\ kind[depth] = "for"
  /\ depth < MaxDepth /\ depth' = depth + 1
  /\ kind' = [kind EXCEPT ![depth] = "post", ![depth + 1] = "block"]
  /\ UNCHANGED <<own, borrows, dead, errors, loans, gone, ended>>

-----------------------------------------------------------------------------
(* popScope                                                                *)
Records(d, n) == {i \in DOMAIN borrows[depth] : borrows[depth][i].at = d /\ borrows[depth][i].name = n}

\* Mutant: the records are undone in the order in which they were made.
reverted_Forward(d, n) ==
  IF Records(d, n) = {} THEN own[d][n]
  ELSE borrows[depth][CHOOSE i \in Records(d, n) : \A j \in Records(d, n) : j <= i].prev

\* The records are undone from the last to the first, each at the binding
\* that was borrowed: what counts is the first one.
reverted(d, n) ==
  IF Records(d, n) = {} THEN own[d][n]
  ELSE borrows[depth][CHOOSE i \in Records(d, n) : \A j \in Records(d, n) : i <= j].prev

Declared(d) == {n \in Names : own[d][n] # Absent}

\* Mutant: the parameters of a function are marked as dead around it.
buried_Functions == Declared(depth)

\* The names that are dead in the parent from now on.
buried == IF kind[depth] = "function" THEN {} ELSE Declared(depth)

\* The innermost open function, or the program.
Enclosing(k) ==
  CHOOSE r \in 1..k : FnRoot(kind[r]) /\ \A s \in (r + 1)..k : ~FnRoot(kind[s])

popScope ==
  /\ depth > 0 /\ kind[depth] # "for"
  /\ depth' = depth - 1
  /\ kind' = [kind EXCEPT ![depth] = "none"]
  /\ own' = [d \in Scopes |-> IF d >= depth THEN NoVars ELSE [n \in Names |-> reverted(d, n)]]
  /\ borrows' = [borrows EXCEPT ![depth] = <<>>]
  /\ dead' = [d \in Scopes |-> IF d = depth THEN {} ELSE IF d = depth - 1 THEN dead[d] \cup buried ELSE dead[d]]
  /\ loans' = {l \in loans : l.by < depth}
  /\ gone' = {b \in gone : b[1] < depth}
  /\ ended' = [d \in Scopes |->
       IF d = depth THEN {}
       ELSE IF ~FnRoot(kind[depth]) /\ d = Enclosing(depth) THEN ended[d] \cup Declared(depth)
       ELSE ended[d]]
  /\ UNCHANGED errors

-----------------------------------------------------------------------------
\* declare: a new binding, which replaces one of the same scope.
Declare(n) ==
  /\ Statements \/ (depth > 0 /\ kind[depth] = "for")
  /\ own' = [own EXCEPT ![depth][n] = "Owned"]
  /\ loans' = {l \in loans : <<l.at, l.name>> # <<depth, n>>}
  /\ gone' = gone \ {<<depth, n>>}
  /\ UNCHANGED <<depth, kind, borrows, dead, errors, ended>>

\* What the checker reports of a name that is used, borrowed or moved.
isDeadName(n) == \E d \in 1..depth : n \in dead[d]
badUse(n) ==
  IF lookup(n) = 0 THEN isDeadName(n) ELSE own[lookup(n)][n] \in {"Moved", "BorrowedMut"}

badBorrow(n, mutable) ==
  /\ lookup(n) # 0
  /\ own[lookup(n)][n] \in {"Moved", "BorrowedMut"} \cup (IF mutable THEN {"Borrowed"} ELSE {})
badMove(n) == lookup(n) # 0 /\ own[lookup(n)][n] # "Owned"

\* The number of records in the open scopes.
Recorded == Cardinality(UNION {{d} \X DOMAIN borrows[d] : d \in Scopes})

checkIdentifierUse(n) ==
  /\ Inside /\ errors' = (errors \/ badUse(n))
  /\ UNCHANGED <<depth, kind, own, borrows, dead, loans, gone, ended>>

\* checkBorrow and checkMove of a name; one that is not declared is ignored.
checkBorrow(n, mutable) ==
  /\ Inside /\ lookup(n) # 0
  /\ \/ badBorrow(n, mutable) /\ errors' = TRUE /\ UNCHANGED <<own, borrows, loans>>
     \/ /\ ~badBorrow(n, mutable) /\ Recorded < MaxBorrows
        /\ own' = [own EXCEPT ![lookup(n)][n] = IF mutable THEN "BorrowedMut" ELSE "Borrowed"]
        /\ borrows' = [borrows EXCEPT ![depth] =
                         Append(@, [name |-> n, prev |-> own[lookup(n)][n], at |-> lookup(n)])]
        /\ loans' = loans \cup {[at |-> lookup(n), name |-> n, by |-> depth, mut |-> mutable]}
        /\ UNCHANGED errors
  /\ UNCHANGED <<depth, kind, dead, gone, ended>>

checkMove(n) ==
  /\ Inside /\ lookup(n) # 0
  /\ \/ badMove(n) /\ errors' = TRUE /\ UNCHANGED <<own, gone>>
     \/ /\ ~badMove(n)
        /\ own' = [own EXCEPT ![lookup(n)][n] = "Moved"]
        /\ gone' = gone \cup {<<lookup(n), n>>}
        /\ UNCHANGED errors
  /\ UNCHANGED <<depth, kind, borrows, dead, loans, ended>>

-----------------------------------------------------------------------------
BCNext ==
  \/ Check \/ EnterBlock \/ EnterFor \/ ForBody \/ popScope
  \/ \E ns \in SUBSET Names : EnterFunction(ns) \/ EnterArm(ns) \/ EnterLoop(ns)
  \/ \E n \in Names :
       \/ Declare(n) \/ checkIdentifierUse(n) \/ checkMove(n)
       \/ \E mutable \in BOOLEAN : checkBorrow(n, mutable)

BCSpec == BCInit /\ [][BCNext]_bcVars

-----------------------------------------------------------------------------
LoansOn(d, n) == {l \in loans : l.at = d /\ l.name = n}
MutablyLent(d, n) == \E l \in LoansOn(d, n) : l.mut

\* "Borrows expire when their scope exits", a mutable borrow excludes every
\* other, and a move is for good: whatever was shadowed, declared again and
\* borrowed in between, what the checker reports of the next use, borrow or
\* move of a name is what the open borrows and the moves of its binding call
\* for, no more and no less.
DiagnosticsExact ==
  \A n \in Names :
    LET d == lookup(n) IN
    d # 0 =>
      /\ badUse(n) <=> <<d, n>> \in gone \/ MutablyLent(d, n)
      /\ badBorrow(n, TRUE) <=> <<d, n>> \in gone \/ LoansOn(d, n) # {}
      /\ badBorrow(n, FALSE) <=> <<d, n>> \in gone \/ MutablyLent(d, n)
      /\ badMove(n) <=> <<d, n>> \in gone \/ LoansOn(d, n) # {}
      /\ \A l, m \in LoansOn(d, n) : l.mut => m = l

\* "Popping a function root scope must NOT propagate dead names": a name is
\* reported as used after its scope only for a block that ended in this
\* function, or in one around it, never for another function's names.
DeadNamesLocal ==
  \A n \in Names :
    isDeadName(n) => \E r \in 1..depth : FnRoot(kind[r]) /\ n \in ended[r]

\* "A use of a name whose binding lifetime already ended (with no live shadow)
\* is diagnosed": so is every name of a block that ended in this function.
EndedNamesReported ==
  \A n \in Names :
    depth > 0 /\ lookup(n) = 0 /\ n \in ended[Enclosing(depth)] => isDeadName(n)
=============================================================================
