------------------------ MODULE BorrowCheckerProofs -------------------------
(***************************************************************************)
(* For any names, any depth of scopes and any number of borrows: the       *)
(* borrow checker reports exactly what the open borrows and the moves call *)
(* for, and takes no name for another function's.                          *)
(***************************************************************************)
EXTENDS BorrowChecker, WellFoundedInduction, TLAPS

States == {"Owned", "Moved", "Borrowed", "BorrowedMut"}
Kinds == {"none", "global", "function", "block", "arm", "loop", "for", "post"}
Record == [name : Names, prev : States, at : Scopes]
Loan == [at : Scopes, name : Names, by : Scopes, mut : BOOLEAN]

TypeOK ==
  /\ depth \in 0..MaxDepth
  /\ kind \in [Scopes -> Kinds]
  /\ own \in [Scopes -> [Names -> States \cup {Absent}]]
  /\ borrows \in [Scopes -> Seq(Record)]
  /\ dead \in [Scopes -> SUBSET Names] /\ ended \in [Scopes -> SUBSET Names]
  /\ loans \in SUBSET Loan /\ gone \in SUBSET (Scopes \X Names)

\* Scopes that are not open are empty, and what is recorded of a binding is
\* of one that exists.
Tidy ==
  /\ \A d \in Scopes : d > depth => own[d] = NoVars /\ borrows[d] = <<>> /\ dead[d] = {}
  /\ \A l \in loans : l.at <= l.by /\ l.by <= depth /\ own[l.at][l.name] # Absent
  /\ \A b \in gone : own[b[1]][b[2]] # Absent

\* The ownership that a set of open borrows gives a binding.
Standing(L) ==
  IF \E l \in L : l.mut THEN "BorrowedMut" ELSE IF L # {} THEN "Borrowed" ELSE "Owned"

\* The entry of a binding says how it stands; what is moved is not lent, and
\* what is lent mutably is lent once.
Exact(d, n) ==
  own[d][n] # Absent =>
    /\ <<d, n>> \in gone => own[d][n] = "Moved" /\ LoansOn(d, n) = {}
    /\ <<d, n>> \notin gone => own[d][n] = Standing(LoansOn(d, n))
    /\ \A l, m \in LoansOn(d, n) : l.mut => m = l

\* The records that scope k holds of a binding of a scope around it, and the
\* borrows made before scope k.
RecordsIn(k, d, n) == {i \in DOMAIN borrows[k] : borrows[k][i].at = d /\ borrows[k][i].name = n}
Before(k, d, n) == {l \in LoansOn(d, n) : l.by < k}

\* Scope k has a record of the binding exactly if it has borrowed it, and the
\* first one says how the binding stood before scope k.
Undoes(k, d, n) ==
  /\ RecordsIn(k, d, n) # {} <=> \E l \in LoansOn(d, n) : l.by = k
  /\ \A i \in RecordsIn(k, d, n) :
       (\A j \in RecordsIn(k, d, n) : i <= j) => borrows[k][i].prev = Standing(Before(k, d, n))

BorrowInv ==
  /\ TypeOK /\ Tidy
  /\ \A d \in 1..depth : \A n \in Names : Exact(d, n)
  /\ \A k \in 1..depth : \A d \in 1..(k - 1) : \A n \in Names : Undoes(k, d, n)

\* Dead names are names of blocks that ended in the same function.
DeadInv ==
  /\ \A d \in 1..depth : kind[d] = "global" <=> d = 1
  /\ \A k \in 1..depth : \A n \in dead[k] :
       \E r \in 1..k : /\ FnRoot(kind[r]) /\ n \in ended[r]
                       /\ \A s \in (r + 1)..k : ~FnRoot(kind[s])

-----------------------------------------------------------------------------
\* A set of naturals has a least element.
LEMMA LeastElement ==
  ASSUME NEW S \in SUBSET Nat, S # {}
  PROVE  \E i \in S : \A j \in S : i <= j
<1> DEFINE R == OpToRel(<, Nat)
<1>1. \A i, j \in Nat : <<i, j>> \in R <=> i < j
  BY Zenon DEF OpToRel
<1>2. IsWellFoundedOn(R, Nat)
  BY Zenon, NatLessThanWellFounded
<1> HIDE DEF R
<1>3. PICK i \in S : \A j \in S : <<j, i>> \notin R
  BY <1>2, WFMin, Zenon
<1>4. \A j \in S : j \in Nat /\ i \in Nat /\ ~(j < i)
  BY Zenon, <1>1, <1>3
<1>5. \A j \in S : i <= j
  BY <1>4
<1> QED
  BY Zenon, <1>5

\* A bounded set of naturals has a greatest element.
LEMMA GreatestElement ==
  ASSUME NEW N \in Nat, NEW S \in SUBSET (0..N), S # {}
  PROVE  \E i \in S : \A j \in S : j <= i
<1> DEFINE T == {N - i : i \in S}
<1>1. T \in SUBSET Nat
  <2>1. \A i \in S : i \in 0..N
    BY Zenon
  <2> QED
    BY <2>1
<1>2. T # {}
  <2>1. PICK i \in S : TRUE
    BY Zenon
  <2>2. N - i \in T
    BY Zenon, <2>1
  <2> QED
    BY Zenon, <2>2
<1> HIDE DEF T
<1>3. PICK m \in T : \A j \in T : m <= j
  BY Zenon, <1>1, <1>2, LeastElement
<1>4. PICK i \in S : m = N - i
  BY Zenon DEF T
<1>5. \A j \in S : N - i <= N - j
  BY Zenon, <1>3, <1>4 DEF T
<1>6. \A j \in S : j \in 0..N /\ i \in 0..N
  BY Zenon
<1>7. \A j \in S : j <= i
  BY <1>5, <1>6
<1> QED
  BY Zenon, <1>7

-----------------------------------------------------------------------------
\* scope.lookup finds an open scope that declares the name.
LEMMA LookupFacts ==
  ASSUME TypeOK, NEW n \in Names, lookup(n) # 0
  PROVE  lookup(n) \in 1..depth /\ lookup(n) \in Scopes /\ own[lookup(n)][n] # Absent
<1>1. depth \in Nat /\ Declaring(n) \in SUBSET (0..depth) /\ Declaring(n) # {}
  BY BorrowAssumption DEF TypeOK, Declaring, lookup
<1>2. \E d \in Declaring(n) : \A e \in Declaring(n) : e <= d
  BY <1>1, GreatestElement, Zenon
<1>3. lookup(n) \in Declaring(n)
  BY Zenon, <1>1, <1>2 DEF lookup
<1> QED
  BY <1>3, BorrowAssumption DEF Declaring, TypeOK, Scopes

\* Opening scopes above the open ones disturbs nothing.
LEMMA OpenKeeps ==
  ASSUME BorrowInv, NEW ns \in SUBSET Names, depth' \in 0..MaxDepth, depth < depth',
         own' = [own EXCEPT ![depth + 1] = Fresh(ns)], kind' \in [Scopes -> Kinds],
         UNCHANGED <<borrows, dead, loans, gone, ended>>
  PROVE  BorrowInv'
<1> USE BorrowAssumption
<1>1. depth \in Nat /\ depth' \in Nat /\ depth + 1 \in Scopes /\ depth' <= MaxDepth
  BY DEF BorrowInv, TypeOK, Scopes
<1>2. Fresh(ns) \in [Names -> States \cup {Absent}]
  BY Zenon DEF Fresh, States
<1>3. TypeOK'
  BY Zenon, <1>1, <1>2 DEF BorrowInv, TypeOK
<1>4. \A d \in Scopes : d # depth + 1 => own'[d] = own[d]
  BY Zenon, <1>1 DEF BorrowInv, TypeOK
<1>5. \A l \in loans : l \in Loan /\ l.at <= l.by /\ l.by <= depth
  BY Zenon DEF BorrowInv, TypeOK, Tidy
<1>6. \A l \in loans : l.at \in Scopes /\ l.at # depth + 1 /\ l.by <= depth
  BY <1>1, <1>5 DEF Loan, Scopes
<1>7. \A b \in gone : b[1] \in Scopes /\ b[1] # depth + 1
  <2> SUFFICES ASSUME NEW b \in gone PROVE b[1] \in Scopes /\ b[1] # depth + 1
    BY Zenon
  <2>1. b[1] \in Scopes /\ b[2] \in Names /\ own[b[1]][b[2]] # Absent
    BY Zenon DEF BorrowInv, TypeOK, Tidy
  <2>2. own[depth + 1] = NoVars
    BY <1>1 DEF BorrowInv, Tidy
  <2> QED
    BY <2>1, <2>2 DEF NoVars, Fresh
<1>8. Tidy'
  <2>1. \A d \in Scopes : d > depth' => own'[d] = NoVars /\ borrows[d] = <<>> /\ dead[d] = {}
    BY <1>1, <1>4 DEF BorrowInv, Tidy, Scopes
  <2>2. \A l \in loans : l.at <= l.by /\ l.by <= depth' /\ own'[l.at][l.name] # Absent
    <3> SUFFICES ASSUME NEW l \in loans
                 PROVE  l.at <= l.by /\ l.by <= depth' /\ own'[l.at][l.name] # Absent
      BY Zenon
    <3>1. l.at <= l.by /\ own[l.at][l.name] # Absent /\ l.by \in Nat
      BY DEF BorrowInv, Tidy, TypeOK, Loan, Scopes
    <3> QED
      BY <1>1, <1>4, <1>6, <3>1
  <2>3. \A b \in gone : own'[b[1]][b[2]] # Absent
    BY Zenon, <1>4, <1>7 DEF BorrowInv, Tidy
  <2> QED
    BY Zenon, <2>1, <2>2, <2>3 DEF Tidy
<1>9. \A d \in 1..depth' : \A n \in Names : Exact(d, n)'
  <2> SUFFICES ASSUME NEW d \in 1..depth', NEW n \in Names PROVE Exact(d, n)'
    BY Zenon
  <2>1. LoansOn(d, n)' = LoansOn(d, n)
    BY Zenon DEF LoansOn
  <2>2. CASE d <= depth
    <3>1. own'[d][n] = own[d][n] /\ Exact(d, n)
      BY <1>1, <1>4, <2>2 DEF BorrowInv, Scopes
    <3> QED
      BY Zenon, <2>1, <3>1 DEF Exact
  <2>3. CASE d = depth + 1
    <3>1. LoansOn(d, n) = {} /\ <<d, n>> \notin gone
      BY Zenon, <1>6, <1>7, <2>3 DEF LoansOn
    <3>2. own'[d][n] # Absent => own'[d][n] = "Owned"
      BY Zenon, <1>1, <2>3 DEF BorrowInv, TypeOK, Fresh
    <3> QED
      BY Zenon, <2>1, <3>1, <3>2 DEF Exact, Standing
  <2>4. CASE d > depth + 1
    <3>1. d \in Scopes /\ own[d] = NoVars
      BY <1>1, <2>4 DEF BorrowInv, Tidy, Scopes
    <3>2. own'[d][n] = Absent
      BY <1>4, <2>4, <3>1 DEF NoVars, Fresh
    <3> QED
      BY Zenon, <3>2 DEF Exact
  <2> QED
    BY <1>1, <2>2, <2>3, <2>4
<1>10. \A k \in 1..depth' : \A d \in 1..(k - 1) : \A n \in Names : Undoes(k, d, n)'
  <2> SUFFICES ASSUME NEW k \in 1..depth', NEW d \in 1..(k - 1), NEW n \in Names
               PROVE  Undoes(k, d, n)'
    BY Zenon
  <2>1. /\ LoansOn(d, n)' = LoansOn(d, n) /\ RecordsIn(k, d, n)' = RecordsIn(k, d, n)
        /\ Before(k, d, n)' = Before(k, d, n)
    BY Zenon DEF LoansOn, RecordsIn, Before
  <2>2. CASE k <= depth
    <3>1. Undoes(k, d, n)
      BY <1>1, <2>2 DEF BorrowInv
    <3> QED
      BY Zenon, <2>1, <3>1 DEF Undoes
  <2>3. CASE k > depth
    <3>1. k \in Scopes /\ borrows[k] = <<>>
      BY <1>1, <2>3 DEF BorrowInv, Tidy, Scopes
    <3>2. RecordsIn(k, d, n) = {}
      BY <3>1 DEF RecordsIn
    <3>3. \A l \in LoansOn(d, n) : l.by # k
      BY <1>1, <1>6, <2>3 DEF LoansOn
    <3> QED
      BY Zenon, <2>1, <3>2, <3>3 DEF Undoes
  <2> QED
    BY <1>1, <2>2, <2>3
<1> QED
  BY Zenon, <1>3, <1>8, <1>9, <1>10 DEF BorrowInv

\* declare: a new binding of the innermost scope is not lent and not moved.
LEMMA DeclareKeeps ==
  ASSUME BorrowInv, NEW n \in Names, Declare(n)
  PROVE  BorrowInv'
<1> USE BorrowAssumption
<1>1. depth \in 1..MaxDepth /\ depth \in Scopes /\ depth' = depth
  BY DEF Declare, Statements, BorrowInv, TypeOK, Scopes
<1>2. own' = [own EXCEPT ![depth][n] = "Owned"]
  BY Zenon DEF Declare
<1>3. \A d \in Scopes, m \in Names :
        own'[d][m] = IF d = depth /\ m = n THEN "Owned" ELSE own[d][m]
  BY Zenon, <1>1, <1>2 DEF BorrowInv, TypeOK
<1>4. loans' = {l \in loans : <<l.at, l.name>> # <<depth, n>>} /\ gone' = gone \ {<<depth, n>>}
  BY Zenon DEF Declare
<1>5. TypeOK'
  BY <1>1, <1>2, <1>4 DEF Declare, BorrowInv, TypeOK, States
<1>6. Tidy'
  <2>1. \A d \in Scopes : d > depth' => own'[d] = NoVars /\ borrows'[d] = <<>> /\ dead'[d] = {}
    BY <1>1, <1>2 DEF Declare, BorrowInv, TypeOK, Tidy
  <2>2. \A l \in loans' : l.at <= l.by /\ l.by <= depth' /\ own'[l.at][l.name] # Absent
    <3> SUFFICES ASSUME NEW l \in loans
                 PROVE  l.at <= l.by /\ l.by <= depth /\ own'[l.at][l.name] # Absent
      BY Zenon, <1>1, <1>4
    <3>1. l.at \in Scopes /\ l.name \in Names
      BY Zenon DEF BorrowInv, TypeOK, Loan
    <3>2. l.at <= l.by /\ l.by <= depth /\ own[l.at][l.name] # Absent
      BY Zenon DEF BorrowInv, Tidy
    <3> QED
      BY Zenon, <1>3, <3>1, <3>2 DEF Absent
  <2>3. \A b \in gone' : own'[b[1]][b[2]] # Absent
    BY <1>3, <1>4 DEF BorrowInv, Tidy, TypeOK, Absent
  <2> QED
    BY Zenon, <2>1, <2>2, <2>3 DEF Tidy
<1>7. \A d \in 1..depth, m \in Names :
        <<d, m>> # <<depth, n>> => LoansOn(d, m)' = LoansOn(d, m)
  BY Zenon, <1>4 DEF LoansOn
<1>8. \A d \in 1..depth' : \A m \in Names : Exact(d, m)'
  <2> SUFFICES ASSUME NEW d \in 1..depth, NEW m \in Names PROVE Exact(d, m)'
    BY Zenon, <1>1
  <2>0. d \in Scopes
    BY <1>1 DEF Scopes
  <2>1. CASE d = depth /\ m = n
    <3>1. LoansOn(d, m)' = {} /\ <<d, m>> \notin gone'
      BY Zenon, <1>4, <2>1 DEF LoansOn
    <3>2. own'[d][m] = "Owned"
      BY Zenon, <1>3, <2>0, <2>1
    <3> QED
      BY Zenon, <3>1, <3>2 DEF Exact, Standing
  <2>2. CASE ~(d = depth /\ m = n)
    <3>1. LoansOn(d, m)' = LoansOn(d, m) /\ own'[d][m] = own[d][m]
      BY Zenon, <1>3, <1>7, <2>0, <2>2
    <3>2. <<d, m>> \in gone' <=> <<d, m>> \in gone
      BY Zenon, <1>4, <2>2
    <3>3. Exact(d, m)
      BY Zenon DEF BorrowInv
    <3> QED
      BY Zenon, <3>1, <3>2, <3>3 DEF Exact
  <2> QED
    BY Zenon, <2>1, <2>2
<1>9. \A k \in 1..depth' : \A d \in 1..(k - 1) : \A m \in Names : Undoes(k, d, m)'
  <2> SUFFICES ASSUME NEW k \in 1..depth, NEW d \in 1..(k - 1), NEW m \in Names
               PROVE  Undoes(k, d, m)'
    BY Zenon, <1>1
  <2>0. d \in 1..depth /\ d # depth
    BY <1>1
  <2>1. LoansOn(d, m)' = LoansOn(d, m)
    BY Zenon, <1>7, <2>0
  <2>2. borrows' = borrows
    BY Zenon DEF Declare
  <2>3. RecordsIn(k, d, m)' = RecordsIn(k, d, m) /\ Before(k, d, m)' = Before(k, d, m)
    BY Zenon, <2>1, <2>2 DEF RecordsIn, Before
  <2>4. Undoes(k, d, m)
    BY Zenon, <1>1 DEF BorrowInv
  <2> QED
    BY Zenon, <2>1, <2>2, <2>3, <2>4 DEF Undoes
<1> QED
  BY Zenon, <1>5, <1>6, <1>8, <1>9 DEF BorrowInv

\* checkMove: only an owned binding is moved, and that is not lent.
LEMMA MoveKeeps ==
  ASSUME BorrowInv, NEW n \in Names, lookup(n) # 0, ~badMove(n),
         own' = [own EXCEPT ![lookup(n)][n] = "Moved"], gone' = gone \cup {<<lookup(n), n>>},
         UNCHANGED <<depth, kind, borrows, dead, loans, ended>>
  PROVE  BorrowInv'
<1> USE BorrowAssumption
<1>1. PICK e \in Scopes : e = lookup(n) /\ e \in 1..depth
  BY Zenon, LookupFacts DEF BorrowInv
<1>2. depth \in 1..MaxDepth /\ depth \in Scopes /\ own[e][n] = "Owned"
  BY <1>1 DEF badMove, BorrowInv, TypeOK, Scopes
<1>3. \A d \in Scopes, m \in Names :
        own'[d][m] = IF d = e /\ m = n THEN "Moved" ELSE own[d][m]
  BY Zenon, <1>1 DEF BorrowInv, TypeOK
<1>4. Exact(e, n)
  BY Zenon, <1>1 DEF BorrowInv
<1>5. LoansOn(e, n) = {}
  BY Zenon, <1>2, <1>4 DEF Exact, Standing, Absent
<1>6. TypeOK'
  BY <1>1 DEF BorrowInv, TypeOK, States
<1>7. Tidy'
  <2>1. \A d \in Scopes : d > depth' => own'[d] = NoVars /\ borrows'[d] = <<>> /\ dead'[d] = {}
    BY <1>1, <1>2 DEF BorrowInv, TypeOK, Tidy
  <2>2. \A l \in loans' : l.at <= l.by /\ l.by <= depth' /\ own'[l.at][l.name] # Absent
    BY <1>1, <1>3 DEF BorrowInv, Tidy, TypeOK, Loan, Absent
  <2>3. \A b \in gone' : own'[b[1]][b[2]] # Absent
    BY <1>1, <1>3 DEF BorrowInv, Tidy, TypeOK, Absent
  <2> QED
    BY Zenon, <2>1, <2>2, <2>3 DEF Tidy
<1>8. \A d \in 1..depth' : \A m \in Names : Exact(d, m)'
  <2> SUFFICES ASSUME NEW d \in 1..depth, NEW m \in Names PROVE Exact(d, m)'
    BY Zenon
  <2>0. d \in Scopes /\ LoansOn(d, m)' = LoansOn(d, m) /\ Exact(d, m)
    BY <1>2 DEF Scopes, LoansOn, BorrowInv
  <2>1. CASE d = e /\ m = n
    <3>1. LoansOn(d, m)' = {} /\ <<d, m>> \in gone' /\ own'[d][m] = "Moved"
      BY Zenon, <1>1, <1>3, <1>5, <2>0, <2>1
    <3> QED
      BY Zenon, <3>1 DEF Exact
  <2>2. CASE ~(d = e /\ m = n)
    <3>1. own'[d][m] = own[d][m] /\ (<<d, m>> \in gone' <=> <<d, m>> \in gone)
      BY <1>1, <1>3, <2>0, <2>2
    <3> QED
      BY Zenon, <2>0, <3>1 DEF Exact
  <2> QED
    BY Zenon, <2>1, <2>2
<1>9. \A k \in 1..depth' : \A d \in 1..(k - 1) : \A m \in Names : Undoes(k, d, m)'
  <2> SUFFICES ASSUME NEW k \in 1..depth, NEW d \in 1..(k - 1), NEW m \in Names
               PROVE  Undoes(k, d, m)'
    BY Zenon
  <2>1. /\ LoansOn(d, m)' = LoansOn(d, m) /\ RecordsIn(k, d, m)' = RecordsIn(k, d, m)
        /\ Before(k, d, m)' = Before(k, d, m)
    BY Zenon DEF LoansOn, RecordsIn, Before
  <2>2. Undoes(k, d, m)
    BY Zenon DEF BorrowInv
  <2> QED
    BY Zenon, <2>1, <2>2 DEF Undoes
<1> QED
  BY Zenon, <1>6, <1>7, <1>8, <1>9 DEF BorrowInv

\* checkBorrow: the new borrow is compatible with the others, and the first
\* record of a scope says how the binding stood before.
LEMMA BorrowKeeps ==
  ASSUME BorrowInv, NEW n \in Names, NEW mutable \in BOOLEAN,
         depth > 0, lookup(n) # 0, ~badBorrow(n, mutable),
         own' = [own EXCEPT ![lookup(n)][n] = IF mutable THEN "BorrowedMut" ELSE "Borrowed"],
         borrows' = [borrows EXCEPT ![depth] =
                       Append(@, [name |-> n, prev |-> own[lookup(n)][n], at |-> lookup(n)])],
         loans' = loans \cup {[at |-> lookup(n), name |-> n, by |-> depth, mut |-> mutable]},
         UNCHANGED <<depth, kind, dead, gone, ended>>
  PROVE  BorrowInv'
<1> USE BorrowAssumption
<1>1. PICK e \in Scopes : e = lookup(n) /\ e \in 1..depth /\ own[e][n] # Absent
  BY Zenon, LookupFacts DEF BorrowInv
<1>2. depth \in 1..MaxDepth /\ depth \in Scopes /\ depth \in Nat
  BY <1>1 DEF BorrowInv, TypeOK, Scopes
<1>3. PICK new : new = [at |-> e, name |-> n, by |-> depth, mut |-> mutable]
  BY Zenon
<1>4. PICK rec : rec = [name |-> n, prev |-> own[e][n], at |-> e]
  BY Zenon
<1>5. /\ new \in Loan /\ new.at = e /\ new.name = n /\ new.by = depth /\ new.mut = mutable
      /\ loans' = loans \cup {new}
  BY Zenon, <1>1, <1>2, <1>3 DEF Loan
<1>6. /\ rec \in Record /\ rec.at = e /\ rec.name = n /\ rec.prev = own[e][n]
      /\ borrows' = [borrows EXCEPT ![depth] = Append(borrows[depth], rec)]
  BY <1>1, <1>2, <1>4 DEF Record, BorrowInv, TypeOK
<1>7. own' = [own EXCEPT ![e][n] = IF mutable THEN "BorrowedMut" ELSE "Borrowed"]
  BY Zenon, <1>1
<1>8. own[e][n] \in {"Owned", "Borrowed"} /\ (mutable => own[e][n] = "Owned")
  BY <1>1 DEF badBorrow, BorrowInv, TypeOK, States
<1>9. \A d \in Scopes, m \in Names :
        own'[d][m] = IF d = e /\ m = n THEN (IF mutable THEN "BorrowedMut" ELSE "Borrowed") ELSE own[d][m]
  BY <1>1, <1>7 DEF BorrowInv, TypeOK
<1>10. Exact(e, n)
  BY Zenon, <1>1 DEF BorrowInv
<1>11. <<e, n>> \notin gone /\ own[e][n] = Standing(LoansOn(e, n))
  BY Zenon, <1>1, <1>8, <1>10 DEF Exact
<1>12. (\A l \in LoansOn(e, n) : ~l.mut) /\ (mutable => LoansOn(e, n) = {})
  BY Zenon, <1>8, <1>11 DEF Standing
<1>13. /\ LoansOn(e, n)' = LoansOn(e, n) \cup {new}
       /\ \A d, m : <<d, m>> # <<e, n>> => LoansOn(d, m)' = LoansOn(d, m)
  BY Zenon, <1>5 DEF LoansOn
<1>14. TypeOK'
  <2>1. own' \in [Scopes -> [Names -> States \cup {Absent}]]
    BY <1>1, <1>7 DEF BorrowInv, TypeOK, States
  <2>2. borrows' \in [Scopes -> Seq(Record)]
    BY <1>2, <1>6 DEF BorrowInv, TypeOK
  <2>3. loans' \in SUBSET Loan
    BY Zenon, <1>5 DEF BorrowInv, TypeOK
  <2> QED
    BY Zenon, <2>1, <2>2, <2>3 DEF BorrowInv, TypeOK
<1>15. Tidy'
  <2>1. \A d \in Scopes : d > depth' => own'[d] = NoVars /\ borrows'[d] = <<>> /\ dead'[d] = {}
    BY <1>1, <1>2, <1>6, <1>7 DEF BorrowInv, TypeOK, Tidy
  <2>2. \A l \in loans' : l.at <= l.by /\ l.by <= depth' /\ own'[l.at][l.name] # Absent
    <3> SUFFICES ASSUME NEW l \in loans'
                 PROVE  l.at <= l.by /\ l.by <= depth /\ own'[l.at][l.name] # Absent
      BY Zenon
    <3>1. CASE l = new
      BY <1>1, <1>2, <1>5, <1>9, <3>1 DEF Absent
    <3>2. CASE l \in loans
      <4>1. l.at \in Scopes /\ l.name \in Names
        BY Zenon, <3>2 DEF BorrowInv, TypeOK, Loan
      <4>2. l.at <= l.by /\ l.by <= depth /\ own[l.at][l.name] # Absent
        BY Zenon, <3>2 DEF BorrowInv, Tidy
      <4> QED
        BY <1>9, <4>1, <4>2 DEF Absent
    <3> QED
      BY Zenon, <1>5, <3>1, <3>2
  <2>3. \A b \in gone' : own'[b[1]][b[2]] # Absent
    BY <1>9 DEF BorrowInv, Tidy, TypeOK, Absent
  <2> QED
    BY Zenon, <2>1, <2>2, <2>3 DEF Tidy
<1>16. \A d \in 1..depth' : \A m \in Names : Exact(d, m)'
  <2> SUFFICES ASSUME NEW d \in 1..depth, NEW m \in Names PROVE Exact(d, m)'
    BY Zenon
  <2>0. d \in Scopes /\ Exact(d, m)
    BY <1>2 DEF Scopes, BorrowInv
  <2>1. CASE d = e /\ m = n
    <3>1. own'[e][n] = Standing(LoansOn(e, n)')
      BY <1>1, <1>5, <1>9, <1>12, <1>13 DEF Standing
    <3>2. \A l, k \in LoansOn(e, n)' : l.mut => k = l
      BY Zenon, <1>5, <1>12, <1>13
    <3> QED
      BY Zenon, <1>11, <2>1, <3>1, <3>2 DEF Exact, Standing
  <2>2. CASE ~(d = e /\ m = n)
    <3>1. own'[d][m] = own[d][m] /\ LoansOn(d, m)' = LoansOn(d, m)
      BY <1>9, <1>13, <2>0, <2>2
    <3> QED
      BY Zenon, <2>0, <3>1 DEF Exact
  <2> QED
    BY Zenon, <2>1, <2>2
<1>17. \A k \in 1..depth' : \A d \in 1..(k - 1) : \A m \in Names : Undoes(k, d, m)'
  <2> SUFFICES ASSUME NEW k \in 1..depth, NEW d \in 1..(k - 1), NEW m \in Names
               PROVE  Undoes(k, d, m)'
    BY Zenon
  <2>0. k \in Scopes /\ Undoes(k, d, m)
    BY <1>2 DEF Scopes, BorrowInv
  <2>1. CASE k # depth
    <3>1. borrows'[k] = borrows[k]
      BY Zenon, <1>6, <2>0, <2>1 DEF BorrowInv, TypeOK
    <3>2. RecordsIn(k, d, m)' = RecordsIn(k, d, m)
      BY Zenon, <3>1 DEF RecordsIn
    <3>3. k < depth
      BY <1>2, <2>1
    <3>4. Before(k, d, m)' = Before(k, d, m)
      BY <1>2, <1>5, <1>13, <3>3 DEF Before
    <3>5. (\E l \in LoansOn(d, m)' : l.by = k) <=> (\E l \in LoansOn(d, m) : l.by = k)
      BY <1>5, <1>13, <2>1
    <3> QED
      BY <2>0, <3>1, <3>2, <3>4, <3>5, Zenon DEF Undoes
  <2>2. CASE k = depth
    <3>1. PICK q : q = borrows[depth] /\ q \in Seq(Record) /\ Len(q) \in Nat /\ DOMAIN q = 1..Len(q)
      BY <1>2 DEF BorrowInv, TypeOK
    <3>2. /\ borrows'[k] = Append(q, rec) /\ DOMAIN Append(q, rec) = 1..(Len(q) + 1)
          /\ Append(q, rec)[Len(q) + 1] = rec
          /\ \A i \in 1..Len(q) : Append(q, rec)[i] = q[i]
      BY <1>2, <1>6, <2>2, <3>1 DEF BorrowInv, TypeOK
    <3>3. CASE ~(d = e /\ m = n)
      <4>1. LoansOn(d, m)' = LoansOn(d, m)
        BY Zenon, <1>13, <3>3
      <4>2. RecordsIn(k, d, m)' = RecordsIn(k, d, m)
        BY <1>6, <2>2, <3>1, <3>2, <3>3 DEF RecordsIn
      <4>3. \A i \in RecordsIn(k, d, m) : borrows'[k][i] = borrows[k][i]
        BY Zenon, <2>2, <3>1, <3>2 DEF RecordsIn
      <4>4. Before(k, d, m)' = Before(k, d, m)
        BY Zenon, <4>1 DEF Before
      <4> QED
        BY Zenon, <2>0, <4>1, <4>2, <4>3, <4>4 DEF Undoes
    <3>4. CASE d = e /\ m = n
      <4>1. RecordsIn(k, d, m)' = RecordsIn(k, d, m) \cup {Len(q) + 1}
        BY <1>6, <2>2, <3>1, <3>2, <3>4 DEF RecordsIn
      <4>2. Before(k, d, m)' = Before(k, d, m)
        BY <1>2, <1>5, <1>13, <2>2, <3>4 DEF Before
      <4>3. \E l \in LoansOn(d, m)' : l.by = k
        BY Zenon, <1>5, <1>13, <2>2, <3>4
      <4>4. RecordsIn(k, d, m) \in SUBSET (1..Len(q))
        BY Zenon, <2>2, <3>1 DEF RecordsIn
      <4>5. ASSUME NEW i \in RecordsIn(k, d, m)', \A j \in RecordsIn(k, d, m)' : i <= j
            PROVE  borrows'[k][i].prev = Standing(Before(k, d, m))
        <5>1. CASE RecordsIn(k, d, m) = {}
          <6>1. i = Len(q) + 1
            BY Zenon, <4>1, <5>1
          <6>2. \A l \in LoansOn(d, m) : l.by # k
            BY Zenon, <2>0, <5>1 DEF Undoes
          <6>3. \A l \in LoansOn(d, m) : l.by \in Nat /\ l.by <= depth
            BY DEF LoansOn, BorrowInv, Tidy, TypeOK, Loan, Scopes
          <6>4. Before(k, d, m) = LoansOn(d, m)
            BY <1>2, <2>2, <6>2, <6>3 DEF Before
          <6> QED
            BY Zenon, <1>6, <1>11, <3>2, <3>4, <6>1, <6>4
        <5>2. CASE RecordsIn(k, d, m) # {}
          <6>1. i \in RecordsIn(k, d, m) /\ i \in 1..Len(q)
            BY <3>1, <4>1, <4>4, <4>5, <5>2
          <6>2. \A j \in RecordsIn(k, d, m) : i <= j
            BY Zenon, <4>1, <4>5
          <6>3. borrows'[k][i] = borrows[k][i]
            BY Zenon, <2>2, <3>1, <3>2, <6>1
          <6> QED
            BY Zenon, <2>0, <6>1, <6>2, <6>3 DEF Undoes
        <5> QED
          BY Zenon, <5>1, <5>2
      <4> QED
        BY Zenon, <4>1, <4>2, <4>3, <4>5 DEF Undoes
    <3> QED
      BY Zenon, <3>3, <3>4
  <2> QED
    BY Zenon, <2>1, <2>2
<1> QED
  BY Zenon, <1>14, <1>15, <1>16, <1>17 DEF BorrowInv

\* popScope: undoing the records of a scope leaves every binding as the
\* borrows of the scopes that stay open want it.
LEMMA PopKeeps ==
  ASSUME BorrowInv, popScope
  PROVE  BorrowInv'
<1> USE BorrowAssumption
<1>1. /\ depth \in 1..MaxDepth /\ depth \in Nat /\ depth \in Scopes
      /\ depth' = depth - 1 /\ depth' \in Nat
  BY DEF BorrowInv, TypeOK, popScope, Scopes
<1>2. \A d \in Scopes : d >= depth => own'[d] = NoVars
  BY Zenon DEF popScope
<1>3. \A d \in Scopes, m \in Names : d < depth => own'[d][m] = reverted(d, m)
  BY <1>1 DEF popScope, Scopes
<1>4. \A d \in 1..(depth - 1), m \in Names :
        /\ d \in Scopes /\ d < depth /\ d \in Nat /\ Exact(d, m) /\ Undoes(depth, d, m)
  BY <1>1 DEF BorrowInv, Scopes
<1>5. /\ loans' = {l \in loans : l.by < depth} /\ gone' = {b \in gone : b[1] < depth}
      /\ kind' = [kind EXCEPT ![depth] = "none"] /\ borrows' = [borrows EXCEPT ![depth] = <<>>]
  BY Zenon DEF popScope
<1>6. \A d, m : LoansOn(d, m)' = Before(depth, d, m)
  BY Zenon, <1>5 DEF LoansOn, Before
<1>7. \A l \in loans : /\ l \in Loan /\ l.by \in Nat /\ l.at \in Scopes /\ l.name \in Names
                      /\ l.at <= l.by /\ l.by <= depth /\ own[l.at][l.name] # Absent
  BY DEF BorrowInv, TypeOK, Tidy, Loan, Scopes
<1>8. \A d \in 1..(depth - 1), m \in Names : RecordsIn(depth, d, m) = {} =>
        own'[d][m] = own[d][m] /\ LoansOn(d, m)' = LoansOn(d, m)
  <2> SUFFICES ASSUME NEW d \in 1..(depth - 1), NEW m \in Names, RecordsIn(depth, d, m) = {}
               PROVE  own'[d][m] = own[d][m] /\ LoansOn(d, m)' = LoansOn(d, m)
    BY Zenon
  <2>1. own'[d][m] = own[d][m]
    BY <1>3, <1>4 DEF reverted, Records, RecordsIn
  <2>2. \A l \in LoansOn(d, m) : l.by # depth
    BY Zenon, <1>4 DEF Undoes
  <2>3. \A l \in LoansOn(d, m) : l.by < depth
    BY <1>1, <1>7, <2>2 DEF LoansOn
  <2> QED
    BY Zenon, <1>6, <2>1, <2>3 DEF Before
<1>9. \A d \in 1..(depth - 1), m \in Names : RecordsIn(depth, d, m) # {} =>
        /\ own'[d][m] = Standing(LoansOn(d, m)')
        /\ own[d][m] # Absent /\ <<d, m>> \notin gone
  <2> SUFFICES ASSUME NEW d \in 1..(depth - 1), NEW m \in Names, RecordsIn(depth, d, m) # {}
               PROVE  /\ own'[d][m] = Standing(LoansOn(d, m)')
                      /\ own[d][m] # Absent /\ <<d, m>> \notin gone
    BY Zenon
  <2>1. RecordsIn(depth, d, m) \in SUBSET Nat
    <3>1. borrows[depth] \in Seq(Record)
      BY Zenon, <1>1 DEF BorrowInv, TypeOK
    <3> QED
      BY <3>1 DEF RecordsIn
  <2>2. PICK i \in RecordsIn(depth, d, m) : \A j \in RecordsIn(depth, d, m) : i <= j
    BY Zenon, <2>1, LeastElement
  <2>3. PICK i0 : i0 = CHOOSE i1 \in RecordsIn(depth, d, m) : \A j \in RecordsIn(depth, d, m) : i1 <= j
    BY Zenon
  <2>4. i0 \in RecordsIn(depth, d, m) /\ \A j \in RecordsIn(depth, d, m) : i0 <= j
    BY Zenon, <2>2, <2>3
  <2>5. reverted(d, m) = borrows[depth][i0].prev
    BY Zenon, <2>3 DEF reverted, Records, RecordsIn
  <2>6. borrows[depth][i0].prev = Standing(Before(depth, d, m))
    BY Zenon, <1>4, <2>4 DEF Undoes
  <2>7. PICK l \in LoansOn(d, m) : l.by = depth
    BY Zenon, <1>4 DEF Undoes
  <2>8. own[d][m] # Absent /\ LoansOn(d, m) # {}
    BY Zenon, <1>7, <2>7 DEF LoansOn
  <2>9. <<d, m>> \notin gone
    BY Zenon, <1>4, <2>8 DEF Exact
  <2> QED
    BY Zenon, <1>3, <1>4, <1>6, <2>5, <2>6, <2>8, <2>9
<1>10. \A d \in 1..(depth - 1), m \in Names :
         /\ own'[d][m] \in States \cup {Absent}
         /\ own[d][m] # Absent => own'[d][m] # Absent
  <2> SUFFICES ASSUME NEW d \in 1..(depth - 1), NEW m \in Names
               PROVE  /\ own'[d][m] \in States \cup {Absent}
                      /\ own[d][m] # Absent => own'[d][m] # Absent
    BY Zenon
  <2>1. own[d][m] \in States \cup {Absent}
    BY <1>4 DEF BorrowInv, TypeOK
  <2>2. CASE RecordsIn(depth, d, m) = {}
    BY Zenon, <1>8, <2>1, <2>2
  <2>3. CASE RecordsIn(depth, d, m) # {}
    <3>1. own'[d][m] = Standing(LoansOn(d, m)')
      BY Zenon, <1>9, <2>3
    <3> QED
      BY Zenon, <3>1 DEF Standing, States, Absent
  <2> QED
    BY Zenon, <2>2, <2>3
<1>11. TypeOK'
  <2>1. own' \in [Scopes -> [Names -> States \cup {Absent}]]
    <3>1. own' = [d \in Scopes |-> IF d >= depth THEN NoVars ELSE [n \in Names |-> reverted(d, n)]]
      BY Zenon DEF popScope
    <3> SUFFICES ASSUME NEW d \in Scopes PROVE own'[d] \in [Names -> States \cup {Absent}]
      BY Zenon, <3>1
    <3>2. CASE d >= depth
      BY Zenon, <1>2, <3>2 DEF NoVars, Fresh, States
    <3>3. CASE d < depth
      <4>1. d \in 1..(depth - 1)
        BY <1>1, <3>3 DEF Scopes
      <4>2. own'[d] = [n \in Names |-> reverted(d, n)]
        BY <1>1, <3>1, <3>3, <4>1
      <4> QED
        BY Zenon, <1>10, <4>1, <4>2
    <3> QED
      BY <1>1, <3>2, <3>3 DEF Scopes
  <2>2. borrows' \in [Scopes -> Seq(Record)]
    BY <1>1, <1>5 DEF BorrowInv, TypeOK
  <2>3. kind' \in [Scopes -> Kinds]
    BY Zenon, <1>5 DEF BorrowInv, TypeOK, Kinds
  <2>4. dead' \in [Scopes -> SUBSET Names]
    BY Zenon DEF popScope, BorrowInv, TypeOK, buried, Declared
  <2>5. ended' \in [Scopes -> SUBSET Names]
    BY Zenon DEF popScope, BorrowInv, TypeOK, Declared
  <2>6. loans' \in SUBSET Loan /\ gone' \in SUBSET (Scopes \X Names)
    BY Zenon, <1>5 DEF BorrowInv, TypeOK
  <2>7. depth' \in 0..MaxDepth
    BY <1>1
  <2> QED
    BY Zenon, <2>1, <2>2, <2>3, <2>4, <2>5, <2>6, <2>7 DEF TypeOK
<1>12. Tidy'
  <2>1. \A d \in Scopes : d > depth' => own'[d] = NoVars /\ borrows'[d] = <<>> /\ dead'[d] = {}
    <3> SUFFICES ASSUME NEW d \in Scopes, d > depth'
                 PROVE  own'[d] = NoVars /\ borrows'[d] = <<>> /\ dead'[d] = {}
      BY Zenon
    <3>1. d >= depth /\ d # depth - 1
      BY <1>1 DEF Scopes
    <3>2. CASE d = depth
      BY Zenon, <1>2, <1>5, <3>1, <3>2 DEF popScope, BorrowInv, TypeOK
    <3>3. CASE d > depth
      BY Zenon, <1>1, <1>2, <1>5, <3>1, <3>3 DEF popScope, BorrowInv, TypeOK, Tidy
    <3> QED
      BY <1>1, <3>1, <3>2, <3>3 DEF Scopes
  <2>2. \A l \in loans' : l.at <= l.by /\ l.by <= depth' /\ own'[l.at][l.name] # Absent
    <3> SUFFICES ASSUME NEW l \in loans, l.by < depth
                 PROVE  l.at <= l.by /\ l.by <= depth' /\ own'[l.at][l.name] # Absent
      BY Zenon, <1>5
    <3>1. l.at \in 1..(depth - 1) /\ l.by <= depth'
      BY <1>1, <1>7 DEF Scopes
    <3> QED
      BY Zenon, <1>7, <1>10, <3>1
  <2>3. \A b \in gone' : own'[b[1]][b[2]] # Absent
    <3> SUFFICES ASSUME NEW b \in gone, b[1] < depth PROVE own'[b[1]][b[2]] # Absent
      BY Zenon, <1>5
    <3>1. b[1] \in Scopes /\ b[2] \in Names /\ own[b[1]][b[2]] # Absent
      BY Zenon DEF BorrowInv, TypeOK, Tidy
    <3>2. b[1] \in 1..(depth - 1)
      BY <1>1, <3>1 DEF Scopes
    <3> QED
      BY Zenon, <1>10, <3>1, <3>2
  <2> QED
    BY Zenon, <2>1, <2>2, <2>3 DEF Tidy
<1>13. \A d \in 1..depth' : \A m \in Names : Exact(d, m)'
  <2> SUFFICES ASSUME NEW d \in 1..(depth - 1), NEW m \in Names PROVE Exact(d, m)'
    BY Zenon, <1>1
  <2>1. <<d, m>> \in gone' <=> <<d, m>> \in gone
    BY Zenon, <1>4, <1>5
  <2>2. Exact(d, m) /\ LoansOn(d, m)' \in SUBSET LoansOn(d, m)
    BY Zenon, <1>4, <1>6 DEF Before
  <2>3. CASE RecordsIn(depth, d, m) = {}
    <3>1. own'[d][m] = own[d][m] /\ LoansOn(d, m)' = LoansOn(d, m)
      BY Zenon, <1>8, <2>3
    <3> QED
      BY Zenon, <2>1, <2>2, <3>1 DEF Exact
  <2>4. CASE RecordsIn(depth, d, m) # {}
    <3>1. own'[d][m] = Standing(LoansOn(d, m)') /\ own[d][m] # Absent /\ <<d, m>> \notin gone
      BY Zenon, <1>9, <2>4
    <3> QED
      BY Zenon, <2>1, <2>2, <3>1 DEF Exact, Standing
  <2> QED
    BY Zenon, <2>3, <2>4
<1>14. \A k \in 1..depth' : \A d \in 1..(k - 1) : \A m \in Names : Undoes(k, d, m)'
  <2> SUFFICES ASSUME NEW k \in 1..(depth - 1), NEW d \in 1..(k - 1), NEW m \in Names
               PROVE  Undoes(k, d, m)'
    BY Zenon, <1>1
  <2>1. k \in Scopes /\ k \in Nat /\ k < depth /\ Undoes(k, d, m)
    BY <1>1 DEF Scopes, BorrowInv
  <2>2. borrows'[k] = borrows[k]
    BY <1>1, <1>5, <2>1 DEF BorrowInv, TypeOK
  <2>3. RecordsIn(k, d, m)' = RecordsIn(k, d, m)
    BY Zenon, <2>2 DEF RecordsIn
  <2>4. \A l \in LoansOn(d, m) : l.by \in Nat
    BY Zenon, <1>7 DEF LoansOn
  <2>5. Before(k, d, m)' = Before(k, d, m)
    BY <1>1, <1>5, <2>1, <2>4 DEF Before, LoansOn
  <2>6. (\E l \in LoansOn(d, m)' : l.by = k) <=> (\E l \in LoansOn(d, m) : l.by = k)
    BY Zenon, <1>6, <2>1 DEF Before
  <2> QED
    BY Zenon, <2>1, <2>2, <2>3, <2>5, <2>6 DEF Undoes
<1> QED
  BY Zenon, <1>11, <1>12, <1>13, <1>14 DEF BorrowInv

\* A step that changes no more than the errors.
LEMMA ReportKeeps ==
  ASSUME BorrowInv, UNCHANGED <<depth, kind, own, borrows, dead, loans, gone, ended>>
  PROVE  BorrowInv'
<1>1. TypeOK' /\ Tidy'
  BY Zenon DEF BorrowInv, TypeOK, Tidy
<1>2. \A k, d, n : /\ LoansOn(d, n)' = LoansOn(d, n) /\ RecordsIn(k, d, n)' = RecordsIn(k, d, n)
                   /\ Before(k, d, n)' = Before(k, d, n)
  BY Zenon DEF LoansOn, RecordsIn, Before
<1>3. \A d \in 1..depth' : \A n \in Names : Exact(d, n)'
  BY <1>2 DEF BorrowInv, Exact
<1>4. \A k \in 1..depth' : \A d \in 1..(k - 1) : \A n \in Names : Undoes(k, d, n)'
  BY <1>2 DEF BorrowInv, Undoes
<1> QED
  BY Zenon, <1>1, <1>3, <1>4 DEF BorrowInv

-----------------------------------------------------------------------------
\* Opening scopes inside the open ones leaves the dead names where they are.
LEMMA DeadOpen ==
  ASSUME BorrowInv, DeadInv, depth' \in 0..MaxDepth, depth <= depth',
         \A d \in 1..depth : FnRoot(kind'[d]) <=> FnRoot(kind[d]),
         \A d \in 1..depth' : kind'[d] = "global" <=> d = 1,
         UNCHANGED <<dead, ended>>
  PROVE  DeadInv'
<1> USE BorrowAssumption
<1>1. depth \in Nat /\ depth' \in Nat
  BY DEF BorrowInv, TypeOK
<1> SUFFICES ASSUME NEW k \in 1..depth', NEW n \in dead[k]
             PROVE  \E r \in 1..k : /\ FnRoot(kind'[r]) /\ n \in ended[r]
                                    /\ \A s \in (r + 1)..k : ~FnRoot(kind'[s])
  BY Zenon DEF DeadInv
<1>2. k \in 1..depth
  <2>1. k \in Scopes
    BY DEF Scopes
  <2>2. k > depth => dead[k] = {}
    BY Zenon, <2>1 DEF BorrowInv, Tidy
  <2> QED
    BY <1>1, <2>2
<1>3. PICK r \in 1..k : /\ FnRoot(kind[r]) /\ n \in ended[r]
                         /\ \A s \in (r + 1)..k : ~FnRoot(kind[s])
  BY Zenon, <1>2 DEF DeadInv
<1>4. r \in 1..depth /\ \A s \in (r + 1)..k : s \in 1..depth
  BY <1>1, <1>2
<1> QED
  BY Zenon, <1>3, <1>4

\* Where a block ends, its names die in the innermost function that is open.
LEMMA DeadPop ==
  ASSUME BorrowInv, DeadInv, popScope
  PROVE  DeadInv'
<1> USE BorrowAssumption
<1>1. /\ depth \in 1..MaxDepth /\ depth \in Nat /\ depth \in Scopes
      /\ depth' = depth - 1 /\ depth' \in Nat
  BY DEF BorrowInv, TypeOK, popScope, Scopes
<1>2. \A d \in 1..(depth - 1) : d \in Scopes /\ d \in 1..depth /\ d # depth /\ kind'[d] = kind[d]
  BY <1>1 DEF popScope, BorrowInv, TypeOK, Scopes
<1>3. \A d \in 1..(depth - 1) :
        ended'[d] = IF ~FnRoot(kind[depth]) /\ d = Enclosing(depth)
                    THEN ended[d] \cup Declared(depth) ELSE ended[d]
  BY Zenon, <1>2 DEF popScope
<1>4. \A d \in 1..(depth - 1) :
        dead'[d] = IF d = depth - 1 THEN dead[d] \cup buried ELSE dead[d]
  BY Zenon, <1>2 DEF popScope
<1>5. \A d \in 1..depth' : kind'[d] = "global" <=> d = 1
  BY Zenon, <1>1, <1>2 DEF DeadInv
<1>6. ASSUME NEW k \in 1..depth', NEW n \in dead'[k]
      PROVE  \E r \in 1..k : /\ FnRoot(kind'[r]) /\ n \in ended'[r]
                             /\ \A s \in (r + 1)..k : ~FnRoot(kind'[s])
  <2>1. k \in 1..(depth - 1) /\ k \in 1..depth
    BY <1>1
  <2>2. CASE n \in dead[k]
    <3>1. PICK r \in 1..k : /\ FnRoot(kind[r]) /\ n \in ended[r]
                             /\ \A s \in (r + 1)..k : ~FnRoot(kind[s])
      BY Zenon, <2>1, <2>2 DEF DeadInv
    <3>2. r \in 1..(depth - 1) /\ \A s \in (r + 1)..k : s \in 1..(depth - 1)
      BY <1>1, <2>1
    <3>3. n \in ended'[r]
      BY <1>3, <3>1, <3>2, Zenon
    <3> QED
      BY Zenon, <1>2, <3>1, <3>2, <3>3
  <2>3. CASE n \notin dead[k]
    <3>1. k = depth - 1 /\ n \in buried
      BY Zenon, <1>4, <1>6, <2>1, <2>3
    <3>2. n \in Declared(depth) /\ kind[depth] # "function"
      BY Zenon, <3>1 DEF buried
    <3>3. ~FnRoot(kind[depth])
      BY <1>1, <2>1, <3>1, <3>2 DEF FnRoot, DeadInv
    <3>4. PICK S : S = {r \in 1..depth : FnRoot(kind[r])}
      BY Zenon
    <3>5. 1 \in S /\ S \in SUBSET (0..depth)
      BY <1>1, <3>4 DEF DeadInv, FnRoot
    <3>6. PICK g \in S : \A j \in S : j <= g
      BY Zenon, <1>1, <3>5, GreatestElement
    <3>7. g \in 1..depth /\ FnRoot(kind[g]) /\ \A s \in (g + 1)..depth : ~FnRoot(kind[s])
      BY <1>1, <3>4, <3>6
    <3>8. PICK r : r = Enclosing(depth)
      BY Zenon
    <3>9. r \in 1..depth /\ FnRoot(kind[r]) /\ \A s \in (r + 1)..depth : ~FnRoot(kind[s])
      BY Zenon, <3>7, <3>8 DEF Enclosing
    <3>10. r \in 1..k /\ r \in 1..(depth - 1) /\ \A s \in (r + 1)..k : s \in 1..(depth - 1) /\ s \in (r + 1)..depth
      BY <1>1, <3>1, <3>3, <3>9
    <3>11. n \in ended'[r]
      BY <1>3, <3>2, <3>3, <3>8, <3>10, Zenon
    <3> QED
      BY Zenon, <1>2, <3>9, <3>10, <3>11
  <2> QED
    BY Zenon, <2>2, <2>3
<1> QED
  BY Zenon, <1>5, <1>6 DEF DeadInv

-----------------------------------------------------------------------------
\* pushScope keeps both invariants, if the program's scope is the first.
LEMMA PushKeeps ==
  ASSUME BorrowInv, DeadInv, NEW k \in Kinds, NEW ns \in SUBSET Names, pushScope(k, ns),
         k = "global" <=> depth = 0
  PROVE  BorrowInv' /\ DeadInv'
<1> USE BorrowAssumption
<1>1. depth \in Nat /\ depth' \in 0..MaxDepth /\ depth' = depth + 1 /\ depth + 1 \in Scopes
  BY DEF pushScope, BorrowInv, TypeOK, Scopes
<1>2. kind' \in [Scopes -> Kinds] /\ kind' = [kind EXCEPT ![depth + 1] = k] /\ kind \in [Scopes -> Kinds]
  BY Zenon DEF pushScope, BorrowInv, TypeOK
<1>3. BorrowInv'
  <2>1. depth < depth'
    BY <1>1
  <2> QED
    BY Zenon, <1>1, <1>2, <2>1, OpenKeeps DEF pushScope
<1>4. \A d \in 1..depth : d \in Scopes /\ d # depth + 1 /\ kind'[d] = kind[d]
  BY <1>1, <1>2 DEF Scopes
<1>5. \A d \in 1..depth' : kind'[d] = "global" <=> d = 1
  <2> SUFFICES ASSUME NEW d \in 1..depth' PROVE kind'[d] = "global" <=> d = 1
    BY Zenon
  <2>1. CASE d = depth + 1
    BY <1>1, <1>2, <2>1
  <2>2. CASE d # depth + 1
    BY <1>1, <1>4, <2>2 DEF DeadInv
  <2> QED
    BY Zenon, <2>1, <2>2
<1>6. DeadInv'
  BY <1>1, <1>4, <1>5, DeadOpen DEF pushScope
<1> QED
  BY Zenon, <1>3, <1>6

\* The scopes of a loop and of its body.
LEMMA LoopKeeps ==
  ASSUME BorrowInv, DeadInv, NEW ns \in SUBSET Names, EnterLoop(ns)
  PROVE  BorrowInv' /\ DeadInv'
<1> USE BorrowAssumption
<1>1. /\ depth \in Nat /\ depth > 0 /\ depth' \in 0..MaxDepth /\ depth' = depth + 2
      /\ depth + 1 \in Scopes /\ depth + 2 \in Scopes /\ depth < depth'
  BY DEF EnterLoop, Statements, BorrowInv, TypeOK, Scopes
<1>2. kind' = [kind EXCEPT ![depth + 1] = "loop", ![depth + 2] = "block"] /\ kind \in [Scopes -> Kinds]
  BY Zenon DEF EnterLoop, BorrowInv, TypeOK
<1>3. kind' \in [Scopes -> Kinds]
  BY <1>2, Zenon DEF Kinds
<1>4. BorrowInv'
  BY Zenon, <1>1, <1>3, OpenKeeps DEF EnterLoop
<1>5. \A d \in 1..depth : d \in Scopes /\ d # depth + 1 /\ d # depth + 2 /\ kind'[d] = kind[d]
  BY <1>1, <1>2 DEF Scopes
<1>6. \A d \in 1..depth' : kind'[d] = "global" <=> d = 1
  <2> SUFFICES ASSUME NEW d \in 1..depth' PROVE kind'[d] = "global" <=> d = 1
    BY Zenon
  <2>1. CASE d \in {depth + 1, depth + 2}
    BY <1>1, <1>2, <2>1
  <2>2. CASE d \in 1..depth
    BY Zenon, <1>5, <2>2 DEF DeadInv
  <2> QED
    BY <1>1, <2>1, <2>2
<1>7. DeadInv'
  <2>1. depth <= depth' /\ UNCHANGED <<dead, ended>>
    BY <1>1 DEF EnterLoop
  <2>2. \A d \in 1..depth : FnRoot(kind'[d]) <=> FnRoot(kind[d])
    BY Zenon, <1>5
  <2> QED
    BY Zenon, <1>1, <1>6, <2>1, <2>2, DeadOpen
<1> QED
  BY Zenon, <1>4, <1>7

\* The scope of the body of a for statement, whose own scope is then at Post.
LEMMA ForBodyKeeps ==
  ASSUME BorrowInv, DeadInv, ForBody
  PROVE  BorrowInv' /\ DeadInv'
<1> USE BorrowAssumption
<1>1. /\ depth \in Nat /\ depth > 0 /\ depth' \in 0..MaxDepth /\ depth' = depth + 1
      /\ depth \in Scopes /\ depth + 1 \in Scopes /\ depth < depth' /\ depth # depth + 1
  BY DEF ForBody, BorrowInv, TypeOK, Scopes
<1>2. /\ kind' = [kind EXCEPT ![depth] = "post", ![depth + 1] = "block"] /\ kind \in [Scopes -> Kinds]
      /\ kind[depth] = "for"
  BY Zenon DEF ForBody, BorrowInv, TypeOK
<1>3. kind' \in [Scopes -> Kinds]
  BY <1>2, Zenon DEF Kinds
<1>4. own' = [own EXCEPT ![depth + 1] = Fresh({})]
  <2>1. own[depth + 1] = Fresh({}) /\ own' = own /\ own \in [Scopes -> [Names -> States \cup {Absent}]]
    BY Zenon, <1>1 DEF BorrowInv, Tidy, TypeOK, NoVars, ForBody
  <2> QED
    BY Zenon, <2>1
<1>5. BorrowInv'
  <2>1. UNCHANGED <<borrows, dead, loans, gone, ended>> /\ {} \in SUBSET Names
    BY Zenon DEF ForBody
  <2> QED
    BY Zenon, <1>1, <1>3, <1>4, <2>1, OpenKeeps
<1>6. \A d \in 1..depth : d \in Scopes /\ d # depth + 1 /\ kind'[d] = IF d = depth THEN "post" ELSE kind[d]
  BY <1>1, <1>2 DEF Scopes
<1>7. \A d \in 1..depth : FnRoot(kind'[d]) <=> FnRoot(kind[d])
  BY Zenon, <1>2, <1>6 DEF FnRoot
<1>8. \A d \in 1..depth' : kind'[d] = "global" <=> d = 1
  <2> SUFFICES ASSUME NEW d \in 1..depth' PROVE kind'[d] = "global" <=> d = 1
    BY Zenon
  <2>1. CASE d = depth + 1
    BY <1>1, <1>2, <2>1
  <2>2. CASE d \in 1..depth
    BY Zenon, <1>2, <1>6, <2>2 DEF DeadInv
  <2> QED
    BY <1>1, <2>1, <2>2
<1>9. DeadInv'
  <2>1. depth <= depth' /\ UNCHANGED <<dead, ended>>
    BY <1>1 DEF ForBody
  <2> QED
    BY Zenon, <1>1, <1>7, <1>8, <2>1, DeadOpen
<1> QED
  BY Zenon, <1>5, <1>9

\* A step inside a scope leaves the dead names alone.
LEMMA DeadStays ==
  ASSUME DeadInv, UNCHANGED <<depth, kind, dead, ended>>
  PROVE  DeadInv'
BY Zenon DEF DeadInv

-----------------------------------------------------------------------------
\* Every step of the walk keeps both invariants.
LEMMA StepKeeps ==
  ASSUME BorrowInv, DeadInv, [BCNext]_bcVars
  PROVE  BorrowInv' /\ DeadInv'
<1>1. CASE Check
  BY Zenon, <1>1, PushKeeps DEF Check, Kinds
<1>2. CASE EnterBlock
  BY <1>2, PushKeeps DEF EnterBlock, Statements, Kinds
<1>3. CASE EnterFor
  BY <1>3, PushKeeps DEF EnterFor, Statements, Kinds
<1>4. CASE ForBody
  BY Zenon, <1>4, ForBodyKeeps
<1>5. CASE popScope
  BY Zenon, <1>5, PopKeeps, DeadPop
<1>6. ASSUME NEW ns \in SUBSET Names, EnterFunction(ns)
      PROVE  BorrowInv' /\ DeadInv'
  BY <1>6, PushKeeps DEF EnterFunction, Inside, Kinds
<1>7. ASSUME NEW ns \in SUBSET Names, EnterArm(ns)
      PROVE  BorrowInv' /\ DeadInv'
  BY <1>7, PushKeeps DEF EnterArm, Inside, Kinds
<1>8. ASSUME NEW ns \in SUBSET Names, EnterLoop(ns)
      PROVE  BorrowInv' /\ DeadInv'
  BY Zenon, <1>8, LoopKeeps
<1>9. ASSUME NEW n \in Names, Declare(n)
      PROVE  BorrowInv' /\ DeadInv'
  <2>1. BorrowInv'
    BY Zenon, <1>9, DeclareKeeps
  <2>2. DeadInv'
    BY Zenon, <1>9, DeadStays DEF Declare
  <2> QED
    BY Zenon, <2>1, <2>2
<1>10. ASSUME NEW n \in Names, checkIdentifierUse(n)
       PROVE  BorrowInv' /\ DeadInv'
  BY Zenon, <1>10, ReportKeeps, DeadStays DEF checkIdentifierUse
<1>11. ASSUME NEW n \in Names, checkMove(n)
       PROVE  BorrowInv' /\ DeadInv'
  <2>1. DeadInv'
    BY Zenon, <1>11, DeadStays DEF checkMove
  <2>2. CASE badMove(n)
    <3>1. UNCHANGED <<depth, kind, own, borrows, dead, loans, gone, ended>>
      BY Zenon, <1>11, <2>2 DEF checkMove
    <3> QED
      BY Zenon, <2>1, <3>1, ReportKeeps
  <2>3. CASE ~badMove(n)
    <3>1. /\ lookup(n) # 0 /\ own' = [own EXCEPT ![lookup(n)][n] = "Moved"]
          /\ gone' = gone \cup {<<lookup(n), n>>}
          /\ UNCHANGED <<depth, kind, borrows, dead, loans, ended>>
      BY Zenon, <1>11, <2>3 DEF checkMove
    <3>2. BorrowInv'
      BY Zenon, <2>3, <3>1, MoveKeeps
    <3> QED
      BY Zenon, <2>1, <3>2
  <2> QED
    BY Zenon, <2>2, <2>3
<1>12. ASSUME NEW n \in Names, NEW mutable \in BOOLEAN, checkBorrow(n, mutable)
       PROVE  BorrowInv' /\ DeadInv'
  <2>1. DeadInv'
    BY Zenon, <1>12, DeadStays DEF checkBorrow
  <2>2. CASE badBorrow(n, mutable)
    <3>1. UNCHANGED <<depth, kind, own, borrows, dead, loans, gone, ended>>
      BY Zenon, <1>12, <2>2 DEF checkBorrow
    <3> QED
      BY Zenon, <2>1, <3>1, ReportKeeps
  <2>3. CASE ~badBorrow(n, mutable)
    <3>1. /\ depth > 0 /\ lookup(n) # 0
          /\ own' = [own EXCEPT ![lookup(n)][n] = IF mutable THEN "BorrowedMut" ELSE "Borrowed"]
          /\ borrows' = [borrows EXCEPT ![depth] =
                           Append(@, [name |-> n, prev |-> own[lookup(n)][n], at |-> lookup(n)])]
          /\ loans' = loans \cup {[at |-> lookup(n), name |-> n, by |-> depth, mut |-> mutable]}
          /\ UNCHANGED <<depth, kind, dead, gone, ended>>
      BY Zenon, <1>12, <2>3 DEF checkBorrow, Inside
    <3>2. BorrowInv'
      BY Zenon, <2>3, <3>1, BorrowKeeps
    <3> QED
      BY Zenon, <2>1, <3>2
  <2> QED
    BY Zenon, <2>2, <2>3
<1>13. CASE UNCHANGED bcVars
  BY Zenon, <1>13, ReportKeeps, DeadStays DEF bcVars
<1> QED
  BY Zenon, <1>1, <1>2, <1>3, <1>4, <1>5, <1>6, <1>7, <1>8, <1>9, <1>10, <1>11, <1>12, <1>13 DEF BCNext

\* Both invariants hold of every program the checker walks.
LEMMA BorrowInvariant == BCSpec => [](BorrowInv /\ DeadInv)
<1>1. ASSUME BCInit PROVE BorrowInv /\ DeadInv
  <2> USE <1>1, BorrowAssumption
  <2>1. depth = 0 /\ loans = {} /\ gone = {}
    BY Zenon DEF BCInit
  <2>2. TypeOK
    BY DEF BCInit, TypeOK, Kinds, NoVars, Fresh, States, Absent
  <2>3. Tidy
    BY Zenon DEF BCInit, Tidy
  <2> QED
    BY <2>1, <2>2, <2>3 DEF BorrowInv, DeadInv
<1> QED
  BY <1>1, StepKeeps, PTL DEF BCSpec

\* What is reported of a use, a borrow or a move of a name is what the open
\* borrows and the moves of its binding call for: popScope restores exactly
\* the bindings that were borrowed, for any nesting of scopes, shadowing and
\* number of borrows.
THEOREM DiagnosticsAreExact == BCSpec => []DiagnosticsExact
<1>1. BorrowInv => DiagnosticsExact
  <2> SUFFICES ASSUME BorrowInv, NEW n \in Names, NEW d, d = lookup(n), d # 0
               PROVE  /\ badUse(n) <=> <<d, n>> \in gone \/ MutablyLent(d, n)
                      /\ badBorrow(n, TRUE) <=> <<d, n>> \in gone \/ LoansOn(d, n) # {}
                      /\ badBorrow(n, FALSE) <=> <<d, n>> \in gone \/ MutablyLent(d, n)
                      /\ badMove(n) <=> <<d, n>> \in gone \/ LoansOn(d, n) # {}
                      /\ \A l, m \in LoansOn(d, n) : l.mut => m = l
    BY Zenon DEF DiagnosticsExact
  <2>1. d \in 1..depth /\ own[d][n] # Absent
    BY Zenon, LookupFacts DEF BorrowInv
  <2>2. Exact(d, n)
    BY Zenon, <2>1 DEF BorrowInv
  <2>3. \A l, m \in LoansOn(d, n) : l.mut => m = l
    BY Zenon, <2>1, <2>2 DEF Exact
  <2>4. CASE <<d, n>> \in gone
    <3>1. own[d][n] = "Moved"
      BY Zenon, <2>1, <2>2, <2>4 DEF Exact
    <3> QED
      BY Zenon, <2>3, <2>4, <3>1 DEF badUse, badBorrow, badMove
  <2>5. CASE <<d, n>> \notin gone
    <3>1. own[d][n] = Standing(LoansOn(d, n))
      BY Zenon, <2>1, <2>2, <2>5 DEF Exact
    <3>2. /\ own[d][n] \in {"Owned", "Borrowed", "BorrowedMut"}
          /\ own[d][n] = "BorrowedMut" <=> MutablyLent(d, n)
          /\ own[d][n] # "Owned" <=> LoansOn(d, n) # {}
      BY Zenon, <3>1 DEF Standing, MutablyLent
    <3> QED
      BY Zenon, <2>3, <2>5, <3>2 DEF badUse, badBorrow, badMove
  <2> QED
    BY <2>4, <2>5, Zenon
<1> QED
  BY <1>1, BorrowInvariant, PTL

\* popScope marks names as dead in a parent only if they ended in a block of
\* the function the walk is in: no function's parameters poison another.
THEOREM DeadNamesStayLocal == BCSpec => []DeadNamesLocal
<1>1. BorrowInv /\ DeadInv => DeadNamesLocal
  <2> SUFFICES ASSUME BorrowInv, DeadInv, NEW n \in Names, NEW d \in 1..depth, n \in dead[d]
               PROVE  \E r \in 1..depth : FnRoot(kind[r]) /\ n \in ended[r]
    BY Zenon DEF DeadNamesLocal, isDeadName
  <2>1. PICK r \in 1..d : FnRoot(kind[r]) /\ n \in ended[r]
    BY Zenon DEF DeadInv
  <2>2. r \in 1..depth
    BY BorrowAssumption DEF BorrowInv, TypeOK
  <2> QED
    BY Zenon, <2>1, <2>2
<1> QED
  BY <1>1, BorrowInvariant, PTL
=============================================================================
