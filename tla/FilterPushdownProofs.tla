------------------------ MODULE FilterPushdownProofs ------------------------
(***************************************************************************)
(* What the scan asks of Postgres means what DuckDB's filters mean: for    *)
(* every needle, expressions and filters of every depth, any columns and   *)
(* any table.  The functions along the trees are shown to satisfy their    *)
(* recursions, level by level, and what is claimed of a tree is shown from *)
(* the same of its children.                                               *)
(***************************************************************************)
EXTENDS FilterPushdown, WellFoundedInduction, TLAPS

-----------------------------------------------------------------------------
(* Induction, stated with sets: a minimal counterexample *)

\* A set of naturals that is not empty has a least element.
LEMMA NatMin ==
  ASSUME NEW T \in SUBSET Nat, T # {}
  PROVE  \E x \in T : \A y \in T : ~(y < x)
<1>1. \E x \in T : \A y \in T : ~ (<<y, x>> \in OpToRel(<,Nat))
  BY NatLessThanWellFounded, WFMin
<1>2. \A x, y \in Nat : <<y, x>> \in OpToRel(<,Nat) <=> y < x
  BY DEF OpToRel
<1> QED BY <1>1, <1>2

\* Induction with a set in place of the predicate: no prover has to find an operator.
LEMMA SetInduction ==
  ASSUME NEW T, 0 \in T, \A n \in Nat : n \in T => n + 1 \in T
  PROVE  \A n \in Nat : n \in T
<1> SUFFICES ASSUME NEW k \in Nat, k \notin T PROVE FALSE
  OBVIOUS
<1>1. PICK x \in Nat \ T : \A y \in Nat \ T : ~(y < x)
  BY NatMin
<1>2. x # 0 /\ x - 1 \in Nat
  BY <1>1
<1>3. x - 1 \in T
  BY <1>1, <1>2
<1> QED BY <1>1, <1>2, <1>3

-----------------------------------------------------------------------------
(* Trees of a depth *)

Level(n, S) ==
  IF n = 0 THEN {} ELSE {e \in [op : Ops, args : Seq(S), val : Values] : WellTyped(e)}

\* There is a function that satisfies the recursion of ExprsUpTo.
LEMMA LevelsExist ==
  ASSUME NEW m \in Nat
  PROVE  \E g : g = [n \in 0..m |-> Level(n, g[n - 1])]
<1> DEFINE Good(k, g) == g = [n \in 0..k |-> Level(n, g[n - 1])]
           T == {k \in Nat : \E g : Good(k, g)}
<1>1. 0 \in T
  <2>1. Good(0, [n \in 0..0 |-> {}])
    BY DEF Level
  <2> QED BY <2>1
<1>2. ASSUME NEW k \in Nat, k \in T PROVE k + 1 \in T
  <2>1. PICK g : Good(k, g)
    BY <1>2
  <2> DEFINE h == [n \in 0..(k + 1) |-> Level(n, g[n - 1])]
  <2>2. \A n \in 0..k : h[n] = g[n]
    BY <2>1
  <2>3. \A n \in 0..(k + 1) : Level(n, h[n - 1]) = Level(n, g[n - 1])
    <3> SUFFICES ASSUME NEW n \in 0..(k + 1) PROVE Level(n, h[n - 1]) = Level(n, g[n - 1])
      OBVIOUS
    <3>1. CASE n = 0
      BY <3>1 DEF Level
    <3>2. CASE n # 0
      <4>1. n - 1 \in 0..k
        BY <3>2
      <4>2. h[n - 1] = g[n - 1]
        BY <4>1, <2>2
      <4> QED BY <4>2
    <3> QED BY <3>1, <3>2
  <2>4. Good(k + 1, h)
    BY <2>3
  <2>5. \E gg : Good(k + 1, gg)
    BY <2>4
  <2> QED BY <2>5
<1>3. m \in T
  <2> HIDE DEF T
  <2> QED BY <1>1, <1>2, SetInduction
<1> QED BY <1>3

\* ExprsUpTo satisfies its recursion.
LEMMA Levels ==
  \A n \in 0..CondDepth : ExprsUpTo[n] = Level(n, ExprsUpTo[n - 1])
<1>1. CondDepth \in Nat
  BY TreeAssumption DEF CondDepth
<1>2. \E g : g = [n \in 0..CondDepth |-> Level(n, g[n - 1])]
  BY <1>1, LevelsExist
<1>3. ExprsUpTo = [n \in 0..CondDepth |-> Level(n, ExprsUpTo[n - 1])]
  BY <1>2 DEF ExprsUpTo, Level
<1> QED BY <1>3

\* The depths are naturals.
LEMMA DepthFacts ==
  CondDepth \in Nat /\ MaxDepth \in Nat /\ CondDepth = 4 * MaxDepth + 1
BY TreeAssumption DEF CondDepth

\* A tree of a depth, and the trees right below it.
LEMMA ExprFacts ==
  /\ ExprsUpTo[0] = {}
  /\ \A n \in 0..CondDepth : n # 0 =>
       \A x : x \in ExprsUpTo[n] <=>
                x \in [op : Ops, args : Seq(ExprsUpTo[n - 1]), val : Values] /\ WellTyped(x)
<1>1. ExprsUpTo[0] = {}
  <2>1. 0 \in 0..CondDepth
    BY DepthFacts
  <2>2. ExprsUpTo[0] = Level(0, ExprsUpTo[0 - 1])
    BY <2>1, Levels
  <2> QED BY <2>2 DEF Level
<1>2. ASSUME NEW n \in 0..CondDepth, n # 0
      PROVE  ExprsUpTo[n] = {e \in [op : Ops, args : Seq(ExprsUpTo[n - 1]), val : Values] : WellTyped(e)}
  BY <1>2, Levels DEF Level
<1> QED BY <1>1, <1>2

\* A tree of a depth is a tree of every larger depth.
LEMMA ExprGrows ==
  ASSUME NEW n \in 0..CondDepth, NEW m \in n..CondDepth
  PROVE  ExprsUpTo[n] \subseteq ExprsUpTo[m]
<1> DEFINE T == {k \in Nat : k < CondDepth => ExprsUpTo[k] \subseteq ExprsUpTo[k + 1]}
<1>1. 0 \in T
  BY ExprFacts
<1>2. ASSUME NEW k \in Nat, k \in T PROVE k + 1 \in T
  <2> SUFFICES ASSUME k + 1 < CondDepth, NEW x \in ExprsUpTo[k + 1]
               PROVE  x \in ExprsUpTo[k + 1 + 1]
    OBVIOUS
  <2>0. k + 1 \in 0..CondDepth /\ k + 1 + 1 \in 0..CondDepth /\ k + 1 # 0 /\ k + 1 + 1 # 0
        /\ k + 1 - 1 = k /\ k + 1 + 1 - 1 = k + 1
    BY DepthFacts
  <2>1. x \in [op : Ops, args : Seq(ExprsUpTo[k]), val : Values] /\ WellTyped(x)
    BY <2>0, ExprFacts
  <2>2. ExprsUpTo[k] \subseteq ExprsUpTo[k + 1]
    BY <1>2, <2>0, DepthFacts
  <2>3. x.args \in Seq(ExprsUpTo[k + 1])
    BY <2>1, <2>2
  <2>4. x \in [op : Ops, args : Seq(ExprsUpTo[k + 1]), val : Values]
    BY <2>1, <2>3
  <2> QED BY <2>0, <2>1, <2>4, ExprFacts
<1>3. \A k \in Nat : k \in T
  <2> HIDE DEF T
  <2> QED BY <1>1, <1>2, SetInduction
<1> DEFINE U == {d \in Nat : n + d <= CondDepth => ExprsUpTo[n] \subseteq ExprsUpTo[n + d]}
<1>4. 0 \in U
  BY DepthFacts
<1>5. ASSUME NEW d \in Nat, d \in U PROVE d + 1 \in U
  <2> SUFFICES ASSUME n + (d + 1) <= CondDepth PROVE ExprsUpTo[n] \subseteq ExprsUpTo[n + (d + 1)]
    OBVIOUS
  <2>1. n + d \in Nat /\ n + d < CondDepth /\ n + (d + 1) = n + d + 1
    BY DepthFacts
  <2>2. ExprsUpTo[n + d] \subseteq ExprsUpTo[n + d + 1]
    BY <2>1, <1>3
  <2>3. ExprsUpTo[n] \subseteq ExprsUpTo[n + d]
    BY <1>5, <2>1, DepthFacts
  <2> QED BY <2>1, <2>2, <2>3
<1>6. \A d \in Nat : d \in U
  <2> HIDE DEF U
  <2> QED BY <1>4, <1>5, SetInduction
<1>7. m - n \in Nat /\ n + (m - n) = m /\ m <= CondDepth
  BY DepthFacts
<1> QED BY <1>6, <1>7

\* The arguments of a tree are trees of a smaller depth.
LEMMA ExprArgs ==
  ASSUME NEW n \in 0..CondDepth, NEW x \in ExprsUpTo[n]
  PROVE  /\ n # 0 /\ n - 1 \in 0..CondDepth
         /\ x.op \in Ops /\ x.val \in Values /\ WellTyped(x)
         /\ x.args \in Seq(ExprsUpTo[n - 1]) /\ DOMAIN x.args = 1..Len(x.args)
         /\ x = [op |-> x.op, args |-> x.args, val |-> x.val]
         /\ \A i \in DOMAIN x.args : x.args[i] \in ExprsUpTo[n - 1] /\ x.args[i] \in ExprsUpTo[n]
<1>1. n # 0
  BY ExprFacts
<1>2. n - 1 \in 0..CondDepth /\ n \in (n - 1)..CondDepth
  BY <1>1, DepthFacts
<1>3. x \in [op : Ops, args : Seq(ExprsUpTo[n - 1]), val : Values] /\ WellTyped(x)
  BY <1>1, ExprFacts
<1>4. ExprsUpTo[n - 1] \subseteq ExprsUpTo[n]
  BY <1>2, ExprGrows
<1> QED BY <1>1, <1>2, <1>3, <1>4

\* What makes a record an expression of a depth.
LEMMA ExprIs ==
  ASSUME NEW n \in 0..CondDepth, n # 0, NEW op \in Ops, NEW args \in Seq(ExprsUpTo[n - 1]),
         NEW val \in Values, WellTyped([op |-> op, args |-> args, val |-> val])
  PROVE  [op |-> op, args |-> args, val |-> val] \in ExprsUpTo[n]
BY ExprFacts

\* What holds of a tree whenever it holds of its arguments holds of all.
LEMMA ExprInduction ==
  ASSUME NEW n \in 0..CondDepth, NEW G,
         \A x \in ExprsUpTo[n] : (\A i \in DOMAIN x.args : x.args[i] \in G) => x \in G
  PROVE  \A x \in ExprsUpTo[n] : x \in G
<1> DEFINE T == {k \in Nat : k <= n => \A x \in ExprsUpTo[k] : x \in G}
<1>1. 0 \in T
  BY ExprFacts
<1>2. ASSUME NEW k \in Nat, k \in T PROVE k + 1 \in T
  <2> SUFFICES ASSUME k + 1 <= n, NEW x \in ExprsUpTo[k + 1] PROVE x \in G
    OBVIOUS
  <2>1. k + 1 \in 0..CondDepth /\ n \in (k + 1)..CondDepth /\ k + 1 - 1 = k /\ k <= n
    BY DepthFacts
  <2>2. x \in ExprsUpTo[n]
    BY <2>1, ExprGrows
  <2>3. \A i \in DOMAIN x.args : x.args[i] \in ExprsUpTo[k]
    BY <2>1, ExprArgs
  <2>4. \A i \in DOMAIN x.args : x.args[i] \in G
    BY <1>2, <2>1, <2>3
  <2> QED BY <2>2, <2>4
<1>3. \A k \in Nat : k \in T
  <2> HIDE DEF T
  <2> QED BY <1>1, <1>2, SetInduction
<1> QED BY <1>3, DepthFacts
-----------------------------------------------------------------------------
(* Filters of a depth, in the same way *)

FilterLevel(n, S) ==
  IF n = 0 THEN {} ELSE {e \in [type : FilterTypes, kids : Seq(S), expr : Expr \cup {None}] : WellFormed(e)}

\* There is a function that satisfies the recursion of FiltersUpTo.
LEMMA FilterLevelsExist ==
  ASSUME NEW m \in Nat
  PROVE  \E g : g = [n \in 0..m |-> FilterLevel(n, g[n - 1])]
<1> DEFINE Good(k, g) == g = [n \in 0..k |-> FilterLevel(n, g[n - 1])]
           T == {k \in Nat : \E g : Good(k, g)}
<1>1. 0 \in T
  <2>1. Good(0, [n \in 0..0 |-> {}])
    BY DEF FilterLevel
  <2> QED BY <2>1
<1>2. ASSUME NEW k \in Nat, k \in T PROVE k + 1 \in T
  <2>1. PICK g : Good(k, g)
    BY <1>2
  <2> DEFINE h == [n \in 0..(k + 1) |-> FilterLevel(n, g[n - 1])]
  <2>2. \A n \in 0..k : h[n] = g[n]
    BY <2>1
  <2>3. \A n \in 0..(k + 1) : FilterLevel(n, h[n - 1]) = FilterLevel(n, g[n - 1])
    <3> SUFFICES ASSUME NEW n \in 0..(k + 1) PROVE FilterLevel(n, h[n - 1]) = FilterLevel(n, g[n - 1])
      OBVIOUS
    <3>1. CASE n = 0
      BY <3>1 DEF FilterLevel
    <3>2. CASE n # 0
      <4>1. n - 1 \in 0..k
        BY <3>2
      <4>2. h[n - 1] = g[n - 1]
        BY <4>1, <2>2
      <4> QED BY <4>2
    <3> QED BY <3>1, <3>2
  <2>4. Good(k + 1, h)
    BY <2>3
  <2>5. \E gg : Good(k + 1, gg)
    BY <2>4
  <2> QED BY <2>5
<1>3. m \in T
  <2> HIDE DEF T
  <2> QED BY <1>1, <1>2, SetInduction
<1> QED BY <1>3

\* FiltersUpTo satisfies its recursion.
LEMMA FilterLevels ==
  \A n \in 0..(MaxDepth + 1) : FiltersUpTo[n] = FilterLevel(n, FiltersUpTo[n - 1])
<1>1. (MaxDepth + 1) \in Nat
  BY TreeAssumption
<1>2. \E g : g = [n \in 0..(MaxDepth + 1) |-> FilterLevel(n, g[n - 1])]
  BY <1>1, FilterLevelsExist
<1>3. FiltersUpTo = [n \in 0..(MaxDepth + 1) |-> FilterLevel(n, FiltersUpTo[n - 1])]
  BY <1>2 DEF FiltersUpTo, FilterLevel
<1> QED BY <1>3

\* A filter of a depth, and the filters right below it.
LEMMA FilterFacts ==
  /\ FiltersUpTo[0] = {}
  /\ \A n \in 0..(MaxDepth + 1) : n # 0 =>
       \A x : x \in FiltersUpTo[n] <=>
                x \in [type : FilterTypes, kids : Seq(FiltersUpTo[n - 1]), expr : Expr \cup {None}] /\ WellFormed(x)
<1>1. FiltersUpTo[0] = {}
  <2>1. 0 \in 0..(MaxDepth + 1)
    BY DepthFacts
  <2>2. FiltersUpTo[0] = FilterLevel(0, FiltersUpTo[0 - 1])
    BY <2>1, FilterLevels
  <2> QED BY <2>2 DEF FilterLevel
<1>2. ASSUME NEW n \in 0..(MaxDepth + 1), n # 0
      PROVE  FiltersUpTo[n] = {e \in [type : FilterTypes, kids : Seq(FiltersUpTo[n - 1]), expr : Expr \cup {None}] : WellFormed(e)}
  BY <1>2, FilterLevels DEF FilterLevel
<1> QED BY <1>1, <1>2

\* A filter of a depth is a filter of every larger depth.
LEMMA FilterGrows ==
  ASSUME NEW n \in 0..(MaxDepth + 1), NEW m \in n..(MaxDepth + 1)
  PROVE  FiltersUpTo[n] \subseteq FiltersUpTo[m]
<1> DEFINE T == {k \in Nat : k < (MaxDepth + 1) => FiltersUpTo[k] \subseteq FiltersUpTo[k + 1]}
<1>1. 0 \in T
  BY FilterFacts
<1>2. ASSUME NEW k \in Nat, k \in T PROVE k + 1 \in T
  <2> SUFFICES ASSUME k + 1 < (MaxDepth + 1), NEW x \in FiltersUpTo[k + 1]
               PROVE  x \in FiltersUpTo[k + 1 + 1]
    OBVIOUS
  <2>0. k + 1 \in 0..(MaxDepth + 1) /\ k + 1 + 1 \in 0..(MaxDepth + 1) /\ k + 1 # 0 /\ k + 1 + 1 # 0
        /\ k + 1 - 1 = k /\ k + 1 + 1 - 1 = k + 1
    BY DepthFacts
  <2>1. x \in [type : FilterTypes, kids : Seq(FiltersUpTo[k]), expr : Expr \cup {None}] /\ WellFormed(x)
    <3> DEFINE n1 == k + 1
    <3>1. n1 \in 0..(MaxDepth + 1) /\ n1 # 0 /\ n1 - 1 = k /\ x \in FiltersUpTo[n1]
      BY <2>0
    <3> HIDE DEF n1
    <3> QED BY <3>1, FilterFacts
  <2>2. FiltersUpTo[k] \subseteq FiltersUpTo[k + 1]
    BY <1>2, <2>0, DepthFacts
  <2>3. x.kids \in Seq(FiltersUpTo[k + 1])
    BY <2>1, <2>2
  <2>4. x \in [type : FilterTypes, kids : Seq(FiltersUpTo[k + 1]), expr : Expr \cup {None}]
    BY <2>1, <2>3
  <2> QED BY <2>0, <2>1, <2>4, FilterFacts
<1>3. \A k \in Nat : k \in T
  <2> HIDE DEF T
  <2> QED BY <1>1, <1>2, SetInduction
<1> DEFINE U == {d \in Nat : n + d <= (MaxDepth + 1) => FiltersUpTo[n] \subseteq FiltersUpTo[n + d]}
<1>4. 0 \in U
  BY DepthFacts
<1>5. ASSUME NEW d \in Nat, d \in U PROVE d + 1 \in U
  <2> SUFFICES ASSUME n + (d + 1) <= (MaxDepth + 1) PROVE FiltersUpTo[n] \subseteq FiltersUpTo[n + (d + 1)]
    OBVIOUS
  <2>1. n + d \in Nat /\ n + d < (MaxDepth + 1) /\ n + (d + 1) = n + d + 1
    BY DepthFacts
  <2>2. FiltersUpTo[n + d] \subseteq FiltersUpTo[n + d + 1]
    BY <2>1, <1>3
  <2>3. FiltersUpTo[n] \subseteq FiltersUpTo[n + d]
    BY <1>5, <2>1, DepthFacts
  <2> QED BY <2>1, <2>2, <2>3
<1>6. \A d \in Nat : d \in U
  <2> HIDE DEF U
  <2> QED BY <1>4, <1>5, SetInduction
<1>7. m - n \in Nat /\ n + (m - n) = m /\ m <= (MaxDepth + 1)
  BY DepthFacts
<1> QED BY <1>6, <1>7

\* The children of a filter are filters of a smaller depth.
LEMMA FilterKids ==
  ASSUME NEW n \in 0..(MaxDepth + 1), NEW x \in FiltersUpTo[n]
  PROVE  /\ n # 0 /\ n - 1 \in 0..(MaxDepth + 1)
         /\ x.type \in FilterTypes /\ x.expr \in Expr \cup {None} /\ WellFormed(x)
         /\ x.kids \in Seq(FiltersUpTo[n - 1]) /\ DOMAIN x.kids = 1..Len(x.kids)
         /\ x = [type |-> x.type, kids |-> x.kids, expr |-> x.expr]
         /\ \A i \in DOMAIN x.kids : x.kids[i] \in FiltersUpTo[n - 1] /\ x.kids[i] \in FiltersUpTo[n]
<1>1. n # 0
  BY FilterFacts
<1>2. n - 1 \in 0..(MaxDepth + 1) /\ n \in (n - 1)..(MaxDepth + 1)
  BY <1>1, DepthFacts
<1>3. x \in [type : FilterTypes, kids : Seq(FiltersUpTo[n - 1]), expr : Expr \cup {None}] /\ WellFormed(x)
  BY <1>1, FilterFacts
<1>4. FiltersUpTo[n - 1] \subseteq FiltersUpTo[n]
  BY <1>2, FilterGrows
<1> QED BY <1>1, <1>2, <1>3, <1>4

\* What makes a record a filter of a depth.
LEMMA FilterIs ==
  ASSUME NEW n \in 0..(MaxDepth + 1), n # 0, NEW type \in FilterTypes, NEW kids \in Seq(FiltersUpTo[n - 1]),
         NEW expr \in Expr \cup {None}, WellFormed([type |-> type, kids |-> kids, expr |-> expr])
  PROVE  [type |-> type, kids |-> kids, expr |-> expr] \in FiltersUpTo[n]
BY FilterFacts

\* What holds of a filter whenever it holds of its children holds of all.
LEMMA FilterInduction ==
  ASSUME NEW n \in 0..(MaxDepth + 1), NEW G,
         \A x \in FiltersUpTo[n] : (\A i \in DOMAIN x.kids : x.kids[i] \in G) => x \in G
  PROVE  \A x \in FiltersUpTo[n] : x \in G
<1> DEFINE T == {k \in Nat : k <= n => \A x \in FiltersUpTo[k] : x \in G}
<1>1. 0 \in T
  BY FilterFacts
<1>2. ASSUME NEW k \in Nat, k \in T PROVE k + 1 \in T
  <2> SUFFICES ASSUME k + 1 <= n, NEW x \in FiltersUpTo[k + 1] PROVE x \in G
    OBVIOUS
  <2>1. k + 1 \in 0..(MaxDepth + 1) /\ n \in (k + 1)..(MaxDepth + 1) /\ k + 1 - 1 = k /\ k <= n
    BY DepthFacts
  <2>2. x \in FiltersUpTo[n]
    BY <2>1, FilterGrows
  <2>3. \A i \in DOMAIN x.kids : x.kids[i] \in FiltersUpTo[k]
    BY <2>1, FilterKids
  <2>4. \A i \in DOMAIN x.kids : x.kids[i] \in G
    BY <1>2, <2>1, <2>3
  <2> QED BY <2>2, <2>4
<1>3. \A k \in Nat : k \in T
  <2> HIDE DEF T
  <2> QED BY <1>1, <1>2, SetInduction
<1> QED BY <1>3, DepthFacts
-----------------------------------------------------------------------------
(* What the recursive functions compute *)

\* Eval is what its nodes compute.
LEMMA EvalUnfolds ==
  ASSUME NEW v, NEW db, NEW x \in Condition
  PROVE  Eval(x, v, db) = EvalNode(x, [i \in DOMAIN x.args |-> Eval(x.args[i], v, db)], v, db)
<1> DEFINE B(g, y) == EvalNode(y, [i \in DOMAIN y.args |-> g[y.args[i]]], v, db)
           Good(n, g) == g = [y \in ExprsUpTo[n] |-> B(g, y)]
           T == {n \in Nat : n <= CondDepth => \E g : Good(n, g)}
<1>1. 0 \in T
  <2>1. Good(0, [y \in {} |-> 0])
    BY ExprFacts
  <2>2. \E g : Good(0, g)
    BY <2>1
  <2> QED BY <2>2
<1>2. ASSUME NEW n \in Nat, n \in T PROVE n + 1 \in T
  <2> SUFFICES ASSUME n + 1 <= CondDepth PROVE \E g : Good(n + 1, g)
    OBVIOUS
  <2>0. n <= CondDepth /\ n + 1 \in 0..CondDepth /\ n \in 0..CondDepth /\ n + 1 - 1 = n /\ n + 1 \in n..CondDepth
    BY DepthFacts
  <2>1. PICK g : Good(n, g)
    BY <1>2, <2>0
  <2> DEFINE h == [y \in ExprsUpTo[n + 1] |-> B(g, y)]
  <2>2. \A y \in ExprsUpTo[n] : h[y] = g[y]
    <3>1. ExprsUpTo[n] \subseteq ExprsUpTo[n + 1]
      BY <2>0, ExprGrows
    <3> HIDE DEF B
    <3> QED BY <2>1, <3>1
  <2>3. ASSUME NEW y \in ExprsUpTo[n + 1] PROVE B(h, y) = B(g, y)
    <3>1. \A i \in DOMAIN y.args : y.args[i] \in ExprsUpTo[n]
      <4> DEFINE m == n + 1
      <4>1. m \in 0..CondDepth /\ y \in ExprsUpTo[m] /\ m - 1 = n
        BY <2>0
      <4> HIDE DEF m
      <4> QED BY <4>1, ExprArgs
    <3>2. \A i \in DOMAIN y.args : h[y.args[i]] = g[y.args[i]]
      BY <3>1, <2>2
    <3> HIDE DEF h
    <3>3. [i \in DOMAIN y.args |-> h[y.args[i]]] = [i \in DOMAIN y.args |-> g[y.args[i]]]
      BY <3>2
    <3> QED BY <3>3
  <2>4. Good(n + 1, h)
    <3> HIDE DEF B
    <3> QED BY <2>3
  <2> HIDE DEF Good
  <2> QED BY <2>4
<1>3. \E g : Good(CondDepth, g)
  <2>1. \A n \in Nat : n \in T
    <3> HIDE DEF T
    <3> QED BY <1>1, <1>2, SetInduction
  <2>2. CondDepth \in Nat /\ CondDepth <= CondDepth
    BY DepthFacts
  <2>3. CondDepth \in T
    <3> HIDE DEF T
    <3> QED BY <2>1, <2>2
  <2> HIDE DEF Good
  <2> QED BY <2>2, <2>3
<1> DEFINE f == CHOOSE g : g = [y \in Condition |-> B(g, y)]
<1>4. f = [y \in Condition |-> B(f, y)]
  <2> HIDE DEF B
  <2> QED BY <1>3 DEF Condition
<1>5. \A y : Eval(y, v, db) = f[y]
  BY DEF Eval
<1> HIDE DEF f
<1>6. f[x] = B(f, x)
  BY <1>4
<1> QED BY <1>5, <1>6

\* ExpressionToString is what its nodes write.
LEMMA StringUnfolds ==
  ASSUME NEW x \in Expr
  PROVE  ExpressionToString(x) = NodeToString(x, [i \in DOMAIN x.args |-> ExpressionToString(x.args[i])])
<1> DEFINE B(g, y) == NodeToString(y, [i \in DOMAIN y.args |-> g[y.args[i]]])
           Good(n, g) == g = [y \in ExprsUpTo[n] |-> B(g, y)]
           T == {n \in Nat : n <= MaxDepth => \E g : Good(n, g)}
<1>1. 0 \in T
  <2>1. Good(0, [y \in {} |-> 0])
    BY ExprFacts
  <2>2. \E g : Good(0, g)
    BY <2>1
  <2> QED BY <2>2
<1>2. ASSUME NEW n \in Nat, n \in T PROVE n + 1 \in T
  <2> SUFFICES ASSUME n + 1 <= MaxDepth PROVE \E g : Good(n + 1, g)
    OBVIOUS
  <2>0. n <= MaxDepth /\ n + 1 \in 0..CondDepth /\ n \in 0..CondDepth /\ n + 1 - 1 = n /\ n + 1 \in n..CondDepth
    BY DepthFacts
  <2>1. PICK g : Good(n, g)
    BY <1>2, <2>0
  <2> DEFINE h == [y \in ExprsUpTo[n + 1] |-> B(g, y)]
  <2>2. \A y \in ExprsUpTo[n] : h[y] = g[y]
    <3>1. ExprsUpTo[n] \subseteq ExprsUpTo[n + 1]
      BY <2>0, ExprGrows
    <3> HIDE DEF B
    <3> QED BY <2>1, <3>1
  <2>3. ASSUME NEW y \in ExprsUpTo[n + 1] PROVE B(h, y) = B(g, y)
    <3>1. \A i \in DOMAIN y.args : y.args[i] \in ExprsUpTo[n]
      <4> DEFINE m == n + 1
      <4>1. m \in 0..CondDepth /\ y \in ExprsUpTo[m] /\ m - 1 = n
        BY <2>0
      <4> HIDE DEF m
      <4> QED BY <4>1, ExprArgs
    <3>2. \A i \in DOMAIN y.args : h[y.args[i]] = g[y.args[i]]
      BY <3>1, <2>2
    <3> HIDE DEF h
    <3>3. [i \in DOMAIN y.args |-> h[y.args[i]]] = [i \in DOMAIN y.args |-> g[y.args[i]]]
      BY <3>2
    <3> QED BY <3>3
  <2>4. Good(n + 1, h)
    <3> HIDE DEF B
    <3> QED BY <2>3
  <2> HIDE DEF Good
  <2> QED BY <2>4
<1>3. \E g : Good(MaxDepth, g)
  <2>1. \A n \in Nat : n \in T
    <3> HIDE DEF T
    <3> QED BY <1>1, <1>2, SetInduction
  <2>2. MaxDepth \in Nat /\ MaxDepth <= MaxDepth
    BY DepthFacts
  <2>3. MaxDepth \in T
    <3> HIDE DEF T
    <3> QED BY <2>1, <2>2
  <2> HIDE DEF Good
  <2> QED BY <2>2, <2>3
<1> DEFINE f == CHOOSE g : g = [y \in Expr |-> B(g, y)]
<1>4. f = [y \in Expr |-> B(f, y)]
  <2> HIDE DEF B
  <2> QED BY <1>3 DEF Expr
<1>5. \A y : ExpressionToString(y) = f[y]
  BY DEF ExpressionToString
<1> HIDE DEF f
<1>6. f[x] = B(f, x)
  BY <1>4
<1> QED BY <1>5, <1>6

\* Nodes is an expression with what its arguments have.
LEMMA NodesUnfold ==
  ASSUME NEW x \in Expr
  PROVE  Nodes(x) = NodesOf(x, [i \in DOMAIN x.args |-> Nodes(x.args[i])])
<1> DEFINE B(g, y) == NodesOf(y, [i \in DOMAIN y.args |-> g[y.args[i]]])
           Good(n, g) == g = [y \in ExprsUpTo[n] |-> B(g, y)]
           T == {n \in Nat : n <= MaxDepth => \E g : Good(n, g)}
<1>1. 0 \in T
  <2>1. Good(0, [y \in {} |-> 0])
    BY ExprFacts
  <2>2. \E g : Good(0, g)
    BY <2>1
  <2> QED BY <2>2
<1>2. ASSUME NEW n \in Nat, n \in T PROVE n + 1 \in T
  <2> SUFFICES ASSUME n + 1 <= MaxDepth PROVE \E g : Good(n + 1, g)
    OBVIOUS
  <2>0. n <= MaxDepth /\ n + 1 \in 0..CondDepth /\ n \in 0..CondDepth /\ n + 1 - 1 = n /\ n + 1 \in n..CondDepth
    BY DepthFacts
  <2>1. PICK g : Good(n, g)
    BY <1>2, <2>0
  <2> DEFINE h == [y \in ExprsUpTo[n + 1] |-> B(g, y)]
  <2>2. \A y \in ExprsUpTo[n] : h[y] = g[y]
    <3>1. ExprsUpTo[n] \subseteq ExprsUpTo[n + 1]
      BY <2>0, ExprGrows
    <3> HIDE DEF B
    <3> QED BY <2>1, <3>1
  <2>3. ASSUME NEW y \in ExprsUpTo[n + 1] PROVE B(h, y) = B(g, y)
    <3>1. \A i \in DOMAIN y.args : y.args[i] \in ExprsUpTo[n]
      <4> DEFINE m == n + 1
      <4>1. m \in 0..CondDepth /\ y \in ExprsUpTo[m] /\ m - 1 = n
        BY <2>0
      <4> HIDE DEF m
      <4> QED BY <4>1, ExprArgs
    <3>2. \A i \in DOMAIN y.args : h[y.args[i]] = g[y.args[i]]
      BY <3>1, <2>2
    <3> HIDE DEF h
    <3>3. [i \in DOMAIN y.args |-> h[y.args[i]]] = [i \in DOMAIN y.args |-> g[y.args[i]]]
      BY <3>2
    <3> QED BY <3>3
  <2>4. Good(n + 1, h)
    <3> HIDE DEF B
    <3> QED BY <2>3
  <2> HIDE DEF Good
  <2> QED BY <2>4
<1>3. \E g : Good(MaxDepth, g)
  <2>1. \A n \in Nat : n \in T
    <3> HIDE DEF T
    <3> QED BY <1>1, <1>2, SetInduction
  <2>2. MaxDepth \in Nat /\ MaxDepth <= MaxDepth
    BY DepthFacts
  <2>3. MaxDepth \in T
    <3> HIDE DEF T
    <3> QED BY <2>1, <2>2
  <2> HIDE DEF Good
  <2> QED BY <2>2, <2>3
<1> DEFINE f == CHOOSE g : g = [y \in Expr |-> B(g, y)]
<1>4. f = [y \in Expr |-> B(f, y)]
  <2> HIDE DEF B
  <2> QED BY <1>3 DEF Expr
<1>5. \A y : Nodes(y) = f[y]
  BY DEF Nodes
<1> HIDE DEF f
<1>6. f[x] = B(f, x)
  BY <1>4
<1> QED BY <1>5, <1>6

\* Holds is what the parts of a filter say.
LEMMA HoldsUnfolds ==
  ASSUME NEW v, NEW scope, NEW x \in TableFilter
  PROVE  Holds(x, v, scope) = HoldsNode(x, [i \in DOMAIN x.kids |-> Holds(x.kids[i], v, scope)], v, scope)
<1> DEFINE B(g, y) == HoldsNode(y, [i \in DOMAIN y.kids |-> g[y.kids[i]]], v, scope)
           Good(n, g) == g = [y \in FiltersUpTo[n] |-> B(g, y)]
           T == {n \in Nat : n <= (MaxDepth + 1) => \E g : Good(n, g)}
<1>1. 0 \in T
  <2>1. Good(0, [y \in {} |-> 0])
    BY FilterFacts
  <2>2. \E g : Good(0, g)
    BY <2>1
  <2> QED BY <2>2
<1>2. ASSUME NEW n \in Nat, n \in T PROVE n + 1 \in T
  <2> SUFFICES ASSUME n + 1 <= (MaxDepth + 1) PROVE \E g : Good(n + 1, g)
    OBVIOUS
  <2>0. n <= (MaxDepth + 1) /\ n + 1 \in 0..(MaxDepth + 1) /\ n \in 0..(MaxDepth + 1) /\ n + 1 - 1 = n /\ n + 1 \in n..(MaxDepth + 1)
    BY DepthFacts
  <2>1. PICK g : Good(n, g)
    BY <1>2, <2>0
  <2> DEFINE h == [y \in FiltersUpTo[n + 1] |-> B(g, y)]
  <2>2. \A y \in FiltersUpTo[n] : h[y] = g[y]
    <3>1. FiltersUpTo[n] \subseteq FiltersUpTo[n + 1]
      BY <2>0, FilterGrows
    <3> HIDE DEF B
    <3> QED BY <2>1, <3>1
  <2>3. ASSUME NEW y \in FiltersUpTo[n + 1] PROVE B(h, y) = B(g, y)
    <3>1. \A i \in DOMAIN y.kids : y.kids[i] \in FiltersUpTo[n]
      <4> DEFINE m == n + 1
      <4>1. m \in 0..(MaxDepth + 1) /\ y \in FiltersUpTo[m] /\ m - 1 = n
        BY <2>0
      <4> HIDE DEF m
      <4> QED BY <4>1, FilterKids
    <3>2. \A i \in DOMAIN y.kids : h[y.kids[i]] = g[y.kids[i]]
      BY <3>1, <2>2
    <3> HIDE DEF h
    <3>3. [i \in DOMAIN y.kids |-> h[y.kids[i]]] = [i \in DOMAIN y.kids |-> g[y.kids[i]]]
      BY <3>2
    <3> QED BY <3>3
  <2>4. Good(n + 1, h)
    <3> HIDE DEF B
    <3> QED BY <2>3
  <2> HIDE DEF Good
  <2> QED BY <2>4
<1>3. \E g : Good((MaxDepth + 1), g)
  <2>1. \A n \in Nat : n \in T
    <3> HIDE DEF T
    <3> QED BY <1>1, <1>2, SetInduction
  <2>2. (MaxDepth + 1) \in Nat /\ (MaxDepth + 1) <= (MaxDepth + 1)
    BY DepthFacts
  <2>3. (MaxDepth + 1) \in T
    <3> HIDE DEF T
    <3> QED BY <2>1, <2>2
  <2> HIDE DEF Good
  <2> QED BY <2>2, <2>3
<1> DEFINE f == CHOOSE g : g = [y \in TableFilter |-> B(g, y)]
<1>4. f = [y \in TableFilter |-> B(f, y)]
  <2> HIDE DEF B
  <2> QED BY <1>3 DEF TableFilter
<1>5. \A y : Holds(y, v, scope) = f[y]
  BY DEF Holds
<1> HIDE DEF f
<1>6. f[x] = B(f, x)
  BY <1>4
<1> QED BY <1>5, <1>6

\* Parts is a filter with what its children have.
LEMMA PartsUnfold ==
  ASSUME NEW scope, NEW x \in TableFilter
  PROVE  Parts(x, scope) = PartsOf(x, [i \in DOMAIN x.kids |-> Parts(x.kids[i], scope)], scope)
<1> DEFINE B(g, y) == PartsOf(y, [i \in DOMAIN y.kids |-> g[y.kids[i]]], scope)
           Good(n, g) == g = [y \in FiltersUpTo[n] |-> B(g, y)]
           T == {n \in Nat : n <= (MaxDepth + 1) => \E g : Good(n, g)}
<1>1. 0 \in T
  <2>1. Good(0, [y \in {} |-> 0])
    BY FilterFacts
  <2>2. \E g : Good(0, g)
    BY <2>1
  <2> QED BY <2>2
<1>2. ASSUME NEW n \in Nat, n \in T PROVE n + 1 \in T
  <2> SUFFICES ASSUME n + 1 <= (MaxDepth + 1) PROVE \E g : Good(n + 1, g)
    OBVIOUS
  <2>0. n <= (MaxDepth + 1) /\ n + 1 \in 0..(MaxDepth + 1) /\ n \in 0..(MaxDepth + 1) /\ n + 1 - 1 = n /\ n + 1 \in n..(MaxDepth + 1)
    BY DepthFacts
  <2>1. PICK g : Good(n, g)
    BY <1>2, <2>0
  <2> DEFINE h == [y \in FiltersUpTo[n + 1] |-> B(g, y)]
  <2>2. \A y \in FiltersUpTo[n] : h[y] = g[y]
    <3>1. FiltersUpTo[n] \subseteq FiltersUpTo[n + 1]
      BY <2>0, FilterGrows
    <3> HIDE DEF B
    <3> QED BY <2>1, <3>1
  <2>3. ASSUME NEW y \in FiltersUpTo[n + 1] PROVE B(h, y) = B(g, y)
    <3>1. \A i \in DOMAIN y.kids : y.kids[i] \in FiltersUpTo[n]
      <4> DEFINE m == n + 1
      <4>1. m \in 0..(MaxDepth + 1) /\ y \in FiltersUpTo[m] /\ m - 1 = n
        BY <2>0
      <4> HIDE DEF m
      <4> QED BY <4>1, FilterKids
    <3>2. \A i \in DOMAIN y.kids : h[y.kids[i]] = g[y.kids[i]]
      BY <3>1, <2>2
    <3> HIDE DEF h
    <3>3. [i \in DOMAIN y.kids |-> h[y.kids[i]]] = [i \in DOMAIN y.kids |-> g[y.kids[i]]]
      BY <3>2
    <3> QED BY <3>3
  <2>4. Good(n + 1, h)
    <3> HIDE DEF B
    <3> QED BY <2>3
  <2> HIDE DEF Good
  <2> QED BY <2>4
<1>3. \E g : Good((MaxDepth + 1), g)
  <2>1. \A n \in Nat : n \in T
    <3> HIDE DEF T
    <3> QED BY <1>1, <1>2, SetInduction
  <2>2. (MaxDepth + 1) \in Nat /\ (MaxDepth + 1) <= (MaxDepth + 1)
    BY DepthFacts
  <2>3. (MaxDepth + 1) \in T
    <3> HIDE DEF T
    <3> QED BY <2>1, <2>2
  <2> HIDE DEF Good
  <2> QED BY <2>2, <2>3
<1> DEFINE f == CHOOSE g : g = [y \in TableFilter |-> B(g, y)]
<1>4. f = [y \in TableFilter |-> B(f, y)]
  <2> HIDE DEF B
  <2> QED BY <1>3 DEF TableFilter
<1>5. \A y : Parts(y, scope) = f[y]
  BY DEF Parts
<1> HIDE DEF f
<1>6. f[x] = B(f, x)
  BY <1>4
<1> QED BY <1>5, <1>6

\* ExtractQueryFilters is what the parts of a filter become.
LEMMA ExtractUnfolds ==
  ASSUME NEW x \in TableFilter
  PROVE  ExtractAtPlaces(x) = AtPlaces(x, [i \in DOMAIN x.kids |-> ExtractAtPlaces(x.kids[i])])
<1> DEFINE B(g, y) == AtPlaces(y, [i \in DOMAIN y.kids |-> g[y.kids[i]]])
           Good(n, g) == g = [y \in FiltersUpTo[n] |-> B(g, y)]
           T == {n \in Nat : n <= (MaxDepth + 1) => \E g : Good(n, g)}
<1>1. 0 \in T
  <2>1. Good(0, [y \in {} |-> 0])
    BY FilterFacts
  <2>2. \E g : Good(0, g)
    BY <2>1
  <2> QED BY <2>2
<1>2. ASSUME NEW n \in Nat, n \in T PROVE n + 1 \in T
  <2> SUFFICES ASSUME n + 1 <= (MaxDepth + 1) PROVE \E g : Good(n + 1, g)
    OBVIOUS
  <2>0. n <= (MaxDepth + 1) /\ n + 1 \in 0..(MaxDepth + 1) /\ n \in 0..(MaxDepth + 1) /\ n + 1 - 1 = n /\ n + 1 \in n..(MaxDepth + 1)
    BY DepthFacts
  <2>1. PICK g : Good(n, g)
    BY <1>2, <2>0
  <2> DEFINE h == [y \in FiltersUpTo[n + 1] |-> B(g, y)]
  <2>2. \A y \in FiltersUpTo[n] : h[y] = g[y]
    <3>1. FiltersUpTo[n] \subseteq FiltersUpTo[n + 1]
      BY <2>0, FilterGrows
    <3> HIDE DEF B
    <3> QED BY <2>1, <3>1
  <2>3. ASSUME NEW y \in FiltersUpTo[n + 1] PROVE B(h, y) = B(g, y)
    <3>1. \A i \in DOMAIN y.kids : y.kids[i] \in FiltersUpTo[n]
      <4> DEFINE m == n + 1
      <4>1. m \in 0..(MaxDepth + 1) /\ y \in FiltersUpTo[m] /\ m - 1 = n
        BY <2>0
      <4> HIDE DEF m
      <4> QED BY <4>1, FilterKids
    <3>2. \A i \in DOMAIN y.kids : h[y.kids[i]] = g[y.kids[i]]
      BY <3>1, <2>2
    <3> HIDE DEF h
    <3>3. [i \in DOMAIN y.kids |-> h[y.kids[i]]] = [i \in DOMAIN y.kids |-> g[y.kids[i]]]
      BY <3>2
    <3> QED BY <3>3
  <2>4. Good(n + 1, h)
    <3> HIDE DEF B
    <3> QED BY <2>3
  <2> HIDE DEF Good
  <2> QED BY <2>4
<1>3. \E g : Good((MaxDepth + 1), g)
  <2>1. \A n \in Nat : n \in T
    <3> HIDE DEF T
    <3> QED BY <1>1, <1>2, SetInduction
  <2>2. (MaxDepth + 1) \in Nat /\ (MaxDepth + 1) <= (MaxDepth + 1)
    BY DepthFacts
  <2>3. (MaxDepth + 1) \in T
    <3> HIDE DEF T
    <3> QED BY <2>1, <2>2
  <2> HIDE DEF Good
  <2> QED BY <2>2, <2>3
<1> DEFINE f == CHOOSE g : g = [y \in TableFilter |-> B(g, y)]
<1>4. f = [y \in TableFilter |-> B(f, y)]
  <2> HIDE DEF B
  <2> QED BY <1>3 DEF TableFilter
<1>5. \A y : ExtractAtPlaces(y) = f[y]
  BY DEF ExtractAtPlaces
<1> HIDE DEF f
<1>6. f[x] = B(f, x)
  BY <1>4
<1> QED BY <1>5, <1>6

\* QuoteLoop takes the characters one by one.
LEMMA QuoteUnfolds ==
  ASSUME NEW W, NEW s \in Seq(W), NEW S, NEW k \in 0..Len(s)
  PROVE  QuoteLoop(s, S)[k] = IF k = 0 THEN <<>> ELSE QuoteStep(QuoteLoop(s, S)[k - 1], s[k], S)
<1> DEFINE B(g, i) == IF i = 0 THEN <<>> ELSE QuoteStep(g[i - 1], s[i], S)
           Good(n, g) == g = [i \in 0..n |-> B(g, i)]
           T == {n \in Nat : \E g : Good(n, g)}
<1>1. 0 \in T
  <2>1. Good(0, [i \in 0..0 |-> <<>>])
    OBVIOUS
  <2> HIDE DEF Good
  <2> QED BY <2>1
<1>2. ASSUME NEW n \in Nat, n \in T PROVE n + 1 \in T
  <2>1. PICK g : Good(n, g)
    BY <1>2
  <2> DEFINE h == [i \in 0..(n + 1) |-> B(g, i)]
  <2>2. \A i \in 0..n : h[i] = g[i]
    <3> HIDE DEF B
    <3> QED BY <2>1
  <2>3. ASSUME NEW i \in 0..(n + 1) PROVE B(h, i) = B(g, i)
    <3>1. CASE i = 0
      BY <3>1
    <3>2. CASE i # 0
      <4>1. i - 1 \in 0..n
        BY <3>2
      <4>2. h[i - 1] = g[i - 1]
        BY <4>1, <2>2
      <4> HIDE DEF h
      <4> QED BY <3>2, <4>2
    <3> QED BY <3>1, <3>2
  <2>4. Good(n + 1, h)
    <3> HIDE DEF B
    <3> QED BY <2>3
  <2>5. n + 1 \in Nat
    OBVIOUS
  <2> HIDE DEF Good
  <2> QED BY <2>4, <2>5
<1>3. Len(s) \in T
  <2>1. Len(s) \in Nat
    OBVIOUS
  <2> HIDE DEF T
  <2> QED BY <1>1, <1>2, <2>1, SetInduction
<1> DEFINE f == CHOOSE g : g = [i \in 0..Len(s) |-> B(g, i)]
<1>4. f = [i \in 0..Len(s) |-> B(f, i)]
  <2> HIDE DEF B
  <2> QED BY <1>3
<1>5. QuoteLoop(s, S) = f
  BY DEF QuoteLoop
<1> HIDE DEF f
<1>6. f[k] = B(f, k)
  <2> HIDE DEF B
  <2> QED BY <1>4
<1> QED BY <1>5, <1>6

\* JoinLoop takes the children one by one.
LEMMA JoinUnfolds ==
  ASSUME NEW type, NEW W, NEW kids \in Seq(W), NEW k \in 0..Len(kids)
  PROVE  JoinLoop(type, kids)[k] = IF k = 0 THEN [ended |-> "no", conds |-> <<>>] ELSE JoinStep(type, JoinLoop(type, kids)[k - 1], kids[k])
<1> DEFINE B(g, i) == IF i = 0 THEN [ended |-> "no", conds |-> <<>>] ELSE JoinStep(type, g[i - 1], kids[i])
           Good(n, g) == g = [i \in 0..n |-> B(g, i)]
           T == {n \in Nat : \E g : Good(n, g)}
<1>1. 0 \in T
  <2>1. Good(0, [i \in 0..0 |-> [ended |-> "no", conds |-> <<>>]])
    OBVIOUS
  <2> HIDE DEF Good
  <2> QED BY <2>1
<1>2. ASSUME NEW n \in Nat, n \in T PROVE n + 1 \in T
  <2>1. PICK g : Good(n, g)
    BY <1>2
  <2> DEFINE h == [i \in 0..(n + 1) |-> B(g, i)]
  <2>2. \A i \in 0..n : h[i] = g[i]
    <3> HIDE DEF B
    <3> QED BY <2>1
  <2>3. ASSUME NEW i \in 0..(n + 1) PROVE B(h, i) = B(g, i)
    <3>1. CASE i = 0
      BY <3>1
    <3>2. CASE i # 0
      <4>1. i - 1 \in 0..n
        BY <3>2
      <4>2. h[i - 1] = g[i - 1]
        BY <4>1, <2>2
      <4> HIDE DEF h
      <4> QED BY <3>2, <4>2
    <3> QED BY <3>1, <3>2
  <2>4. Good(n + 1, h)
    <3> HIDE DEF B
    <3> QED BY <2>3
  <2>5. n + 1 \in Nat
    OBVIOUS
  <2> HIDE DEF Good
  <2> QED BY <2>4, <2>5
<1>3. Len(kids) \in T
  <2>1. Len(kids) \in Nat
    OBVIOUS
  <2> HIDE DEF T
  <2> QED BY <1>1, <1>2, <2>1, SetInduction
<1> DEFINE f == CHOOSE g : g = [i \in 0..Len(kids) |-> B(g, i)]
<1>4. f = [i \in 0..Len(kids) |-> B(f, i)]
  <2> HIDE DEF B
  <2> QED BY <1>3
<1>5. JoinLoop(type, kids) = f
  BY DEF JoinLoop
<1> HIDE DEF f
<1>6. f[k] = B(f, k)
  <2> HIDE DEF B
  <2> QED BY <1>4
<1> QED BY <1>5, <1>6

\* LikeFrom goes through the pattern from its end.
LEMMA LikeUnfolds ==
  ASSUME NEW s, NEW p \in Texts, NEW esc, NEW k \in 1..(Len(p) + 2)
  PROVE  LikeFrom(s, p, esc)[k] =
           LikeStep(s, p, esc, k, LikeFrom(s, p, esc)[k + 1], LikeFrom(s, p, esc)[k + 2])
<1> DEFINE L == Len(p)
           B(g, j) == LikeStep(s, p, esc, j, g[j + 1], g[j + 2])
           Good(d, g) == g = [j \in (L + 3 - d)..(L + 2) |-> B(g, j)]
           T == {d \in Nat : \E g : Good(d, g)}
<1>0. L \in Nat
  BY DEF Texts
<1> HIDE DEF L
<1>1. 0 \in T
  <2>1. (L + 3 - 0)..(L + 2) = {}
    BY <1>0
  <2>2. Good(0, [j \in {} |-> 0])
    BY <2>1
  <2> HIDE DEF Good
  <2> QED BY <2>2
<1>2. ASSUME NEW d \in Nat, d \in T PROVE d + 1 \in T
  <2>1. PICK g : Good(d, g)
    BY <1>2
  <2> DEFINE h == [j \in (L + 3 - (d + 1))..(L + 2) |-> B(g, j)]
  <2>2. \A j \in (L + 3 - d)..(L + 2) : h[j] = g[j]
    <3>1. (L + 3 - d)..(L + 2) \subseteq (L + 3 - (d + 1))..(L + 2)
      BY <1>0
    <3> HIDE DEF B
    <3> QED BY <2>1, <3>1
  <2>3. ASSUME NEW j \in (L + 3 - (d + 1))..(L + 2) PROVE B(h, j) = B(g, j)
    <3>1. CASE j > L
      BY <3>1 DEF LikeStep, L
    <3>2. CASE ~(j > L)
      <4>1. j + 1 \in (L + 3 - d)..(L + 2) /\ j + 2 \in (L + 3 - d)..(L + 2)
        BY <3>2, <1>0
      <4>2. h[j + 1] = g[j + 1] /\ h[j + 2] = g[j + 2]
        BY <4>1, <2>2
      <4> HIDE DEF h
      <4> QED BY <4>2
    <3> QED BY <3>1, <3>2
  <2>4. Good(d + 1, h)
    <3> HIDE DEF B
    <3> QED BY <2>3
  <2>5. d + 1 \in Nat
    OBVIOUS
  <2> HIDE DEF Good
  <2> QED BY <2>4, <2>5
<1>3. L + 2 \in T
  <2>1. L + 2 \in Nat
    BY <1>0
  <2> HIDE DEF T
  <2> QED BY <1>1, <1>2, <2>1, SetInduction
<1> DEFINE f == CHOOSE g : g = [j \in 1..(L + 2) |-> B(g, j)]
<1>4. f = [j \in 1..(L + 2) |-> B(f, j)]
  <2>1. (L + 3 - (L + 2))..(L + 2) = 1..(L + 2)
    BY <1>0
  <2> HIDE DEF B
  <2> QED BY <1>3, <2>1
<1>5. LikeFrom(s, p, esc) = f
  BY DEF LikeFrom, L
<1> HIDE DEF f
<1>6. f[k] = B(f, k)
  <2>1. k \in 1..(L + 2)
    BY DEF L
  <2> HIDE DEF B
  <2> QED BY <1>4, <2>1
<1> QED BY <1>5, <1>6

-----------------------------------------------------------------------------
(* Text: quoting, and LIKE on a quoted needle *)

Special == {"bs", "%", "_"}

\* One character is copied, with a backslash before it or not.
LEMMA QuoteStepIs ==
  ASSUME NEW u \in Texts, NEW c \in Chars, NEW S
  PROVE  /\ QuoteStep(u, c, S) \in Texts
         /\ c \in S => QuoteStep(u, c, S) = Append(Append(u, "bs"), c)
         /\ c \notin S => QuoteStep(u, c, S) = Append(u, c)
         /\ Append(u, "bs") \in Texts /\ Append(Append(u, "bs"), c) \in Texts /\ Append(u, c) \in Texts
<1>0. "bs" \in Chars
  BY DEF Chars
<1>1. u \in Seq(Chars) /\ Len(u) \in Nat /\ "bs" \in Chars
  BY <1>0 DEF Texts
<1>2. u \o <<"bs", c>> = Append(Append(u, "bs"), c)
  BY <1>1
<1>3. u \o <<c>> = Append(u, c)
  BY <1>1
<1> QED BY <1>1, <1>2, <1>3 DEF QuoteStep, Texts

\* An element at the end of a sequence.
LEMMA AppendFacts ==
  ASSUME NEW u \in Texts, NEW c \in Chars
  PROVE  /\ Len(u) \in Nat /\ Append(u, c) \in Texts /\ Len(Append(u, c)) = Len(u) + 1
         /\ Append(u, c)[Len(u) + 1] = c
         /\ \A i \in 1..Len(u) : Append(u, c)[i] = u[i]
BY DEF Texts

\* Every step of Quote has a text.
LEMMA QuoteTypes ==
  ASSUME NEW s \in Texts, NEW S
  PROVE  \A k \in 0..Len(s) : QuoteLoop(s, S)[k] \in Texts
<1> DEFINE q == QuoteLoop(s, S)
           T == {k \in Nat : k <= Len(s) => q[k] \in Texts}
<1>0. s \in Seq(Chars) /\ Len(s) \in Nat /\ 0 \in 0..Len(s) /\ <<>> \in Texts
  BY DEF Texts
<1>1. 0 \in T
  <2>1. q[0] = <<>>
    BY <1>0, QuoteUnfolds
  <2> HIDE DEF q
  <2> QED BY <2>1, <1>0
<1>2. ASSUME NEW k \in Nat, k \in T PROVE k + 1 \in T
  <2> SUFFICES ASSUME k + 1 <= Len(s) PROVE q[k + 1] \in Texts
    OBVIOUS
  <2>1. k + 1 \in 0..Len(s) /\ k + 1 # 0 /\ k + 1 - 1 = k /\ k <= Len(s) /\ k + 1 \in 1..Len(s)
    BY <1>0
  <2>2. q[k + 1] = QuoteStep(q[k + 1 - 1], s[k + 1], S)
    BY <1>0, <2>1, QuoteUnfolds
  <2>3. q[k] \in Texts /\ s[k + 1] \in Chars
    BY <1>0, <1>2, <2>1
  <2> HIDE DEF q
  <2>4. q[k + 1] = QuoteStep(q[k], s[k + 1], S)
    BY <2>1, <2>2
  <2>5. QuoteStep(q[k], s[k + 1], S) \in Texts
    BY <2>3, QuoteStepIs
  <2> QED BY <2>4, <2>5
<1>3. \A k \in Nat : k \in T
  <2> HIDE DEF T
  <2> QED BY <1>1, <1>2, SetInduction
<1> QED BY <1>0, <1>3

\* Quote returns a text.
LEMMA QuoteType ==
  ASSUME NEW s \in Texts, NEW S
  PROVE  Quote(s, S) \in Texts
<1>1. Len(s) \in 0..Len(s)
  BY DEF Texts
<1> QED BY <1>1, QuoteTypes DEF Quote

\* The empty text needs no escape.
LEMMA QuoteEmpty == ASSUME NEW S PROVE Quote(<<>>, S) = <<>>
<1>1. <<>> \in Seq(Chars) /\ Len(<<>>) = 0 /\ 0 \in 0..Len(<<>>)
  OBVIOUS
<1>2. QuoteLoop(<<>>, S)[0] = <<>>
  BY <1>1, QuoteUnfolds
<1> QED BY <1>1, <1>2 DEF Quote

\* Quote goes over a text one character at a time.
LEMMA QuoteAppend ==
  ASSUME NEW s \in Texts, NEW c \in Chars, NEW S
  PROVE  Quote(Append(s, c), S) = QuoteStep(Quote(s, S), c, S)
<1> DEFINE t == Append(s, c)
           T == {k \in Nat : k <= Len(s) => QuoteLoop(t, S)[k] = QuoteLoop(s, S)[k]}
<1>0. /\ s \in Seq(Chars) /\ t \in Seq(Chars) /\ Len(s) \in Nat /\ Len(t) = Len(s) + 1
      /\ t[Len(s) + 1] = c /\ \A i \in 1..Len(s) : t[i] = s[i]
  BY DEF Texts
<1> HIDE DEF t
<1>1. 0 \in T
  BY <1>0, QuoteUnfolds
<1>2. ASSUME NEW k \in Nat, k \in T PROVE k + 1 \in T
  <2> SUFFICES ASSUME k + 1 <= Len(s) PROVE QuoteLoop(t, S)[k + 1] = QuoteLoop(s, S)[k + 1]
    OBVIOUS
  <2>1. k + 1 \in 0..Len(s) /\ k + 1 \in 0..Len(t) /\ k + 1 # 0 /\ k + 1 - 1 = k /\ k <= Len(s)
        /\ k + 1 \in 1..Len(s)
    BY <1>0
  <2>2. QuoteLoop(t, S)[k + 1] = QuoteStep(QuoteLoop(t, S)[k + 1 - 1], t[k + 1], S)
    BY <1>0, <2>1, QuoteUnfolds
  <2>3. QuoteLoop(s, S)[k + 1] = QuoteStep(QuoteLoop(s, S)[k + 1 - 1], s[k + 1], S)
    BY <1>0, <2>1, QuoteUnfolds
  <2>4. QuoteLoop(t, S)[k] = QuoteLoop(s, S)[k] /\ t[k + 1] = s[k + 1]
    BY <1>0, <1>2, <2>1
  <2> QED BY <2>1, <2>2, <2>3, <2>4
<1>3. \A k \in Nat : k \in T
  <2> HIDE DEF T
  <2> QED BY <1>1, <1>2, SetInduction
<1>4. QuoteLoop(t, S)[Len(s)] = QuoteLoop(s, S)[Len(s)]
  BY <1>0, <1>3
<1>5. Len(t) \in 0..Len(t) /\ Len(t) # 0 /\ Len(t) - 1 = Len(s)
  BY <1>0
<1>6. QuoteLoop(t, S)[Len(t)] = QuoteStep(QuoteLoop(t, S)[Len(t) - 1], t[Len(t)], S)
  BY <1>0, <1>5, QuoteUnfolds
<1> QED BY <1>0, <1>4, <1>5, <1>6 DEF Quote, t

\* The two passes quote each special character once.
LEMMA EscapeIsQuote ==
  ASSUME NEW s \in Texts
  PROVE  EscapeNeedle(s) = Quote(s, Special)
<1> DEFINE q1 == QuoteLoop(s, {"bs"})
           q3 == QuoteLoop(s, Special)
           W == {"%", "_"}
           T == {k \in Nat : k <= Len(s) => Quote(q1[k], W) = q3[k]}
<1>0. s \in Seq(Chars) /\ Len(s) \in Nat
  BY DEF Texts
<1>t. \A k \in 0..Len(s) : q1[k] \in Texts /\ q3[k] \in Texts
  BY QuoteTypes
<1>1. 0 \in T
  <2>0. 0 \in 0..Len(s)
    BY <1>0
  <2>1. q1[0] = <<>> /\ q3[0] = <<>>
    BY <1>0, <2>0, QuoteUnfolds
  <2> HIDE DEF q1, q3, W
  <2>2. Quote(q1[0], W) = q3[0]
    BY <2>1, QuoteEmpty
  <2> QED BY <2>2
<1>2. ASSUME NEW k \in Nat, k \in T PROVE k + 1 \in T
  <2> HIDE DEF q1, q3, W
  <2> SUFFICES ASSUME k + 1 <= Len(s) PROVE Quote(q1[k + 1], W) = q3[k + 1]
    OBVIOUS
  <2>1. k + 1 \in 0..Len(s) /\ k + 1 # 0 /\ k + 1 - 1 = k /\ k <= Len(s) /\ k \in 0..Len(s)
        /\ k + 1 \in 1..Len(s)
    BY <1>0
  <2> DEFINE c == s[k + 1]
  <2>2. q1[k + 1] = QuoteStep(q1[k], c, {"bs"})
    BY <1>0, <2>1, QuoteUnfolds DEF q1
  <2>3. q3[k + 1] = QuoteStep(q3[k], c, Special)
    BY <1>0, <2>1, QuoteUnfolds DEF q3
  <2>4. Quote(q1[k], W) = q3[k] /\ q1[k] \in Texts /\ q3[k] \in Texts
    BY <1>2, <1>t, <2>1
  <2>5. c \in Chars
    BY <1>0, <2>1
  <2>b. "bs" \in Chars
    BY DEF Chars
  <2> USE DEF W
  <2> HIDE DEF c
  <2>6. ASSUME c = "bs" PROVE Quote(q1[k + 1], W) = q3[k + 1]
    <3>0. "bs" \in {"bs"} /\ "bs" \notin W /\ "bs" \in Special
      BY DEF Special
    <3> HIDE DEF W
    <3>1. q1[k + 1] = Append(Append(q1[k], "bs"), "bs") /\ Append(q1[k], "bs") \in Texts
      <4> DEFINE B == {"bs"}
      <4>1. q1[k + 1] = QuoteStep(q1[k], "bs", B) /\ "bs" \in B
        BY <2>2, <2>6
      <4> HIDE DEF B
      <4> QED BY <4>1, <2>4, <2>b, QuoteStepIs
    <3>2. /\ Quote(Append(q1[k], "bs"), W) = QuoteStep(q3[k], "bs", W)
          /\ Quote(q1[k + 1], W) = QuoteStep(Quote(Append(q1[k], "bs"), W), "bs", W)
      BY <3>1, <2>4, <2>5, <2>b, QuoteAppend
    <3>3. QuoteStep(q3[k], "bs", W) = Append(q3[k], "bs") /\ Append(q3[k], "bs") \in Texts
      BY <2>4, <2>5, <2>b, <3>0, QuoteStepIs
    <3>4. QuoteStep(Append(q3[k], "bs"), "bs", W) = Append(Append(q3[k], "bs"), "bs")
      BY <3>3, <2>b, <3>0, QuoteStepIs
    <3>5. q3[k + 1] = Append(Append(q3[k], "bs"), "bs")
      BY <2>3, <2>4, <2>5, <2>6, <2>b, <3>0, QuoteStepIs
    <3> QED BY <3>2, <3>3, <3>4, <3>5
  <2>7. ASSUME c # "bs" PROVE Quote(q1[k + 1], W) = q3[k + 1]
    <3>0. c \notin {"bs"} /\ (c \in W <=> c \in Special)
      BY <2>7 DEF Special, W
    <3> HIDE DEF W
    <3>1. q1[k + 1] = Append(q1[k], c)
      BY <2>2, <2>4, <2>5, <2>b, <3>0, QuoteStepIs
    <3>2. Quote(q1[k + 1], W) = QuoteStep(q3[k], c, W)
      BY <3>1, <2>4, <2>5, <2>b, QuoteAppend
    <3>3. QuoteStep(q3[k], c, W) = QuoteStep(q3[k], c, Special)
      BY <3>0 DEF QuoteStep
    <3> QED BY <3>2, <3>3, <2>3
  <2> QED BY <2>6, <2>7
<1>3. \A k \in Nat : k \in T
  <2> HIDE DEF T
  <2> QED BY <1>1, <1>2, SetInduction
<1>4. Quote(q1[Len(s)], W) = q3[Len(s)]
  <2> HIDE DEF q1, q3, W
  <2> QED BY <1>0, <1>3
<1>5. Quote(s, {"bs"}) = q1[Len(s)] /\ Quote(s, Special) = q3[Len(s)]
  BY DEF Quote
<1> HIDE DEF q1, q3
<1> QED BY <1>4, <1>5 DEF EscapeNeedle

\* w is u and then c, quoted if c is in S.
Extends(u, c, S, w) ==
  /\ Len(u) \in Nat /\ Len(w) \in Nat /\ Len(u) <= Len(w)
  /\ \A i \in 1..Len(u) : w[i] = u[i]
  /\ c \in S => Len(w) = Len(u) + 2 /\ w[Len(u) + 1] = "bs" /\ w[Len(u) + 2] = c
  /\ c \notin S => Len(w) = Len(u) + 1 /\ w[Len(u) + 1] = c

\* A step of Quote adds a character, and a backslash before a special one.
LEMMA QuoteStepAt ==
  ASSUME NEW u \in Texts, NEW c \in Chars, NEW S
  PROVE  Extends(u, c, S, QuoteStep(u, c, S))
<1> DEFINE w == QuoteStep(u, c, S)
           x == Append(u, "bs")
<1>0. "bs" \in Chars
  BY DEF Chars
<1>1. /\ x \in Texts /\ Len(u) \in Nat /\ Len(x) = Len(u) + 1 /\ x[Len(u) + 1] = "bs"
      /\ \A i \in 1..Len(u) : x[i] = u[i]
  BY <1>0, AppendFacts
<1>2. w \in Texts /\ Len(w) \in Nat
  BY QuoteStepIs DEF Texts
<1>3. c \in S => w = Append(x, c)
  BY QuoteStepIs
<1>4. c \notin S => w = Append(u, c)
  BY QuoteStepIs
<1> SUFFICES Extends(u, c, S, w)
  OBVIOUS
<1> HIDE DEF x, w
<1>5. CASE c \in S
  <2>1. /\ Len(w) = Len(x) + 1 /\ w[Len(x) + 1] = c /\ \A i \in 1..Len(x) : w[i] = x[i]
    <3>1. w = Append(x, c)
      BY <1>3, <1>5
    <3> QED BY <1>1, <3>1, AppendFacts
  <2>2. \A i \in 1..Len(u) : i \in 1..Len(x)
    BY <1>1
  <2>3. Len(x) + 1 = Len(u) + 2 /\ Len(u) + 1 \in 1..Len(x)
    BY <1>1
  <2> QED BY <1>1, <1>2, <1>5, <2>1, <2>2, <2>3 DEF Extends
<1>6. CASE c \notin S
  <2>1. /\ Len(w) = Len(u) + 1 /\ w[Len(u) + 1] = c /\ \A i \in 1..Len(u) : w[i] = u[i]
    BY <1>4, <1>6, AppendFacts
  <2> QED BY <1>1, <1>2, <1>6, <2>1 DEF Extends
<1> QED BY <1>5, <1>6

\* One character of a text, and where it is in the quoted text.
LEMMA QuoteLoopStep ==
  ASSUME NEW s \in Texts, NEW S, NEW k \in 1..Len(s)
  PROVE  /\ k - 1 \in 0..Len(s) /\ k \in 0..Len(s) /\ s[k] \in Chars
         /\ QuoteLoop(s, S)[k - 1] \in Texts /\ QuoteLoop(s, S)[k] \in Texts
         /\ QuoteLoop(s, S)[k] = QuoteStep(QuoteLoop(s, S)[k - 1], s[k], S)
<1>1. s \in Seq(Chars) /\ Len(s) \in Nat
  BY DEF Texts
<1>2. k - 1 \in 0..Len(s) /\ k \in 0..Len(s) /\ s[k] \in Chars /\ k # 0
  BY <1>1
<1> QED BY <1>1, <1>2, QuoteTypes, QuoteUnfolds

\* The steps of Quote extend one another.
LEMMA QuoteGrows ==
  ASSUME NEW s \in Texts, NEW S, NEW k \in 0..Len(s)
  PROVE  /\ Len(QuoteLoop(s, S)[k]) <= Len(Quote(s, S))
         /\ \A i \in 1..Len(QuoteLoop(s, S)[k]) : Quote(s, S)[i] = QuoteLoop(s, S)[k][i]
<1> DEFINE q == QuoteLoop(s, S)
           T == {m \in Nat : k <= m /\ m <= Len(s) =>
                   Len(q[k]) <= Len(q[m]) /\ \A i \in 1..Len(q[k]) : q[m][i] = q[k][i]}
<1>0. Len(s) \in Nat /\ k \in Nat /\ k <= Len(s)
  BY DEF Texts
<1>1. \A m \in 0..Len(s) : q[m] \in Texts /\ Len(q[m]) \in Nat
  <2>1. \A m \in 0..Len(s) : q[m] \in Texts
    BY QuoteTypes
  <2> HIDE DEF q
  <2> QED BY <2>1 DEF Texts
<1>2. \A m \in 0..Len(s) : m + 1 <= Len(s) => q[m + 1] = QuoteStep(q[m], s[m + 1], S) /\ s[m + 1] \in Chars
  <2> SUFFICES ASSUME NEW m \in 0..Len(s), m + 1 <= Len(s)
               PROVE  q[m + 1] = QuoteStep(q[m], s[m + 1], S) /\ s[m + 1] \in Chars
    OBVIOUS
  <2>1. m + 1 \in 1..Len(s) /\ m + 1 - 1 = m
    BY <1>0
  <2>2. q[m + 1] = QuoteStep(q[m + 1 - 1], s[m + 1], S) /\ s[m + 1] \in Chars
    BY <2>1, QuoteLoopStep
  <2> HIDE DEF q
  <2> QED BY <2>1, <2>2
<1>3. q[Len(s)] = Quote(s, S)
  BY DEF Quote
<1> HIDE DEF q
<1>4. 0 \in T
  <2> SUFFICES ASSUME k <= 0 PROVE Len(q[k]) <= Len(q[0]) /\ \A i \in 1..Len(q[k]) : q[0][i] = q[k][i]
    OBVIOUS
  <2>1. k = 0
    BY <1>0
  <2> QED BY <1>1, <2>1
<1>5. ASSUME NEW m \in Nat, m \in T PROVE m + 1 \in T
  <2> SUFFICES ASSUME k <= m + 1, m + 1 <= Len(s)
               PROVE  Len(q[k]) <= Len(q[m + 1]) /\ \A i \in 1..Len(q[k]) : q[m + 1][i] = q[k][i]
    OBVIOUS
  <2>1. CASE k = m + 1
    BY <1>1, <2>1
  <2>2. CASE k # m + 1
    <3>1. m \in 0..Len(s) /\ k <= m /\ m <= Len(s) /\ m + 1 \in 0..Len(s)
      BY <1>0, <2>2
    <3>2. Len(q[k]) <= Len(q[m]) /\ \A i \in 1..Len(q[k]) : q[m][i] = q[k][i]
      BY <1>5, <3>1
    <3>3. q[m + 1] = QuoteStep(q[m], s[m + 1], S) /\ s[m + 1] \in Chars /\ q[m] \in Texts
      BY <1>1, <1>2, <3>1
    <3>4. Len(q[m]) <= Len(q[m + 1]) /\ \A i \in 1..Len(q[m]) : q[m + 1][i] = q[m][i]
      <4> DEFINE u == q[m]
                 w == q[m + 1]
                 c == s[m + 1]
      <4>1. u \in Texts /\ c \in Chars /\ w = QuoteStep(u, c, S)
        BY <3>3
      <4> HIDE DEF u, w, c
      <4>2. Len(u) <= Len(w) /\ \A i \in 1..Len(u) : w[i] = u[i]
        BY <4>1, QuoteStepAt DEF Extends
      <4> QED BY <4>2 DEF u, w
    <3>5. Len(q[k]) \in Nat /\ Len(q[m]) \in Nat /\ Len(q[m + 1]) \in Nat
      BY <1>1, <3>1
    <3> QED BY <3>2, <3>4, <3>5
  <2> QED BY <2>1, <2>2
<1>6. \A m \in Nat : m \in T
  <2> HIDE DEF T
  <2> QED BY <1>4, <1>5, SetInduction
<1>7. Len(s) \in T
  BY <1>0, <1>6
<1> QED BY <1>0, <1>3, <1>7 DEF q

\* The quoted text holds each character, escaped if it is special, in order.
LEMMA QuoteAt ==
  ASSUME NEW s \in Texts, NEW S, NEW k \in 1..Len(s)
  PROVE  LET o == Len(QuoteLoop(s, S)[k - 1])
             e == Len(QuoteLoop(s, S)[k])
             Q == Quote(s, S) IN
         /\ s[k] \in Chars /\ o \in Nat /\ e \in Nat /\ Len(Q) \in Nat /\ e <= Len(Q)
         /\ s[k] \in S => e = o + 2 /\ Q[o + 1] = "bs" /\ Q[o + 2] = s[k]
         /\ s[k] \notin S => e = o + 1 /\ Q[o + 1] = s[k]
<1> DEFINE u == QuoteLoop(s, S)[k - 1]
           w == QuoteLoop(s, S)[k]
           Q == Quote(s, S)
<1>1. k \in 0..Len(s) /\ s[k] \in Chars /\ u \in Texts /\ w \in Texts /\ w = QuoteStep(u, s[k], S)
  BY QuoteLoopStep
<1>2. Len(w) <= Len(Q) /\ \A i \in 1..Len(w) : Q[i] = w[i]
  BY <1>1, QuoteGrows
<1>3. Len(Q) \in Nat
  BY QuoteType DEF Texts
<1> HIDE DEF u, w, Q
<1>4. /\ Len(u) \in Nat /\ Len(w) \in Nat
      /\ s[k] \in S => Len(w) = Len(u) + 2 /\ w[Len(u) + 1] = "bs" /\ w[Len(u) + 2] = s[k]
      /\ s[k] \notin S => Len(w) = Len(u) + 1 /\ w[Len(u) + 1] = s[k]
  <2> DEFINE c == s[k]
  <2>1. c \in Chars /\ u \in Texts /\ w = QuoteStep(u, c, S)
    BY <1>1
  <2> HIDE DEF c
  <2>2. /\ Len(u) \in Nat /\ Len(w) \in Nat
        /\ c \in S => Len(w) = Len(u) + 2 /\ w[Len(u) + 1] = "bs" /\ w[Len(u) + 2] = c
        /\ c \notin S => Len(w) = Len(u) + 1 /\ w[Len(u) + 1] = c
    BY <2>1, QuoteStepAt DEF Extends
  <2> QED BY <2>2 DEF c
<1>5. /\ s[k] \in S => Len(u) + 1 \in 1..Len(w) /\ Len(u) + 2 \in 1..Len(w)
      /\ s[k] \notin S => Len(u) + 1 \in 1..Len(w)
  BY <1>4
<1>6. /\ s[k] \in Chars /\ Len(u) \in Nat /\ Len(w) \in Nat /\ Len(Q) \in Nat /\ Len(w) <= Len(Q)
      /\ s[k] \in S => Len(w) = Len(u) + 2 /\ Q[Len(u) + 1] = "bs" /\ Q[Len(u) + 2] = s[k]
      /\ s[k] \notin S => Len(w) = Len(u) + 1 /\ Q[Len(u) + 1] = s[k]
  BY <1>1, <1>2, <1>3, <1>4, <1>5
<1> QED BY <1>6 DEF u, w, Q

\* The end of a pattern, and a wildcard in it.
LEMMA LikeFacts ==
  ASSUME NEW s \in Texts, NEW p \in Texts, NEW esc
  PROVE  /\ Len(s) \in Nat /\ Len(p) \in Nat
         /\ LikeFrom(s, p, esc)[Len(p) + 1] = {Len(s) + 1}
         /\ \A k \in 1..(Len(p) + 1) : LikeFrom(s, p, esc)[k] \in SUBSET (1..(Len(s) + 1))
         /\ \A k \in 1..Len(p) : <<p[k]>> # esc /\ p[k] = "%" =>
              LikeFrom(s, p, esc)[k] = {i \in 1..(Len(s) + 1) : \E m \in LikeFrom(s, p, esc)[k + 1] : i <= m}
<1> DEFINE F == LikeFrom(s, p, esc)
<1>0. Len(s) \in Nat /\ Len(p) \in Nat
  BY DEF Texts
<1>1. \A k \in 1..(Len(p) + 2) : F[k] = LikeStep(s, p, esc, k, F[k + 1], F[k + 2])
  BY LikeUnfolds
<1> HIDE DEF F
<1>2. F[Len(p) + 1] = {Len(s) + 1}
  <2>1. Len(p) + 1 \in 1..(Len(p) + 2) /\ Len(p) + 1 > Len(p)
    BY <1>0
  <2>2. F[Len(p) + 1] = LikeStep(s, p, esc, Len(p) + 1, F[Len(p) + 1 + 1], F[Len(p) + 1 + 2])
    BY <1>1, <2>1
  <2> QED BY <2>1, <2>2 DEF LikeStep
<1>3. ASSUME NEW k \in 1..(Len(p) + 1) PROVE F[k] \in SUBSET (1..(Len(s) + 1))
  <2> DEFINE one == F[k + 1]
             two == F[k + 2]
  <2>1. F[k] = LikeStep(s, p, esc, k, one, two)
    BY <1>0, <1>1
  <2> HIDE DEF one, two
  <2>2. 1..Len(s) \subseteq 1..(Len(s) + 1) /\ {Len(s) + 1} \subseteq 1..(Len(s) + 1)
    BY <1>0
  <2>3. LikeStep(s, p, esc, k, one, two) \subseteq 1..(Len(s) + 1)
    <3> DEFINE A == 1..Len(s)
               B == 1..(Len(s) + 1)
    <3>1. A \subseteq B /\ {Len(s) + 1} \subseteq B
      BY <2>2
    <3>2. LikeStep(s, p, esc, k, one, two) \in SUBSET A \/ LikeStep(s, p, esc, k, one, two) \in SUBSET B
      <4>1. CASE k > Len(p)
        BY <4>1, <2>2 DEF LikeStep
      <4>2. CASE ~(k > Len(p))
        <5> HIDE DEF A, B
        <5> QED BY <4>2 DEF LikeStep, A, B
      <4> QED BY <4>1, <4>2
    <3> HIDE DEF A
    <3> QED BY <3>1, <3>2
  <2> QED BY <2>1, <2>3
<1>4. ASSUME NEW k \in 1..Len(p), <<p[k]>> # esc, p[k] = "%"
      PROVE  F[k] = {i \in 1..(Len(s) + 1) : \E m \in F[k + 1] : i <= m}
  <2> DEFINE one == F[k + 1]
             two == F[k + 2]
  <2>0. k \in 1..(Len(p) + 2) /\ ~(k > Len(p))
    BY <1>0
  <2>1. F[k] = LikeStep(s, p, esc, k, one, two)
    BY <1>1, <2>0
  <2> HIDE DEF one, two
  <2>2. F[k] = {i \in 1..(Len(s) + 1) : \E m \in one : i <= m}
    BY <1>4, <2>0, <2>1 DEF LikeStep
  <2> QED BY <2>2 DEF one
<1> QED BY <1>0, <1>2, <1>3, <1>4 DEF F

\* p has the quoted n after its first a characters.
QuotedAt(p, a, n) ==
  /\ a \in Nat /\ a + Len(Quote(n, Special)) <= Len(p)
  /\ \A i \in 1..Len(Quote(n, Special)) : p[a + i] = Quote(n, Special)[i]

\* An escaped or plain character of a pattern matches only itself.
LEMMA LikeChar ==
  ASSUME NEW s \in Texts, NEW p \in Texts, NEW n \in Texts, NEW a \in Nat, QuotedAt(p, a, n), NEW k \in 1..Len(n)
  PROVE  LET F == LikeFrom(s, p, <<"bs">>)
             q == QuoteLoop(n, Special)
         IN  F[a + Len(q[k - 1]) + 1] = {i \in 1..Len(s) : s[i] = n[k] /\ i + 1 \in F[a + Len(q[k]) + 1]}
<1> DEFINE F == LikeFrom(s, p, <<"bs">>)
           q == QuoteLoop(n, Special)
           Q == Quote(n, Special)
           o == Len(q[k - 1])
           e == Len(q[k])
           j == a + o + 1
           c == n[k]
<1>0. Len(p) \in Nat /\ Len(s) \in Nat
  BY DEF Texts
<1>1. /\ c \in Chars /\ o \in Nat /\ e \in Nat /\ Len(Q) \in Nat /\ e <= Len(Q)
      /\ c \in Special => e = o + 2 /\ Q[o + 1] = "bs" /\ Q[o + 2] = c
      /\ c \notin Special => e = o + 1 /\ Q[o + 1] = c
  BY QuoteAt
<1>2. a + Len(Q) <= Len(p) /\ \A i \in 1..Len(Q) : p[a + i] = Q[i]
  BY DEF QuotedAt
<1>3. \A m \in 1..(Len(p) + 2) : F[m] = LikeStep(s, p, <<"bs">>, m, F[m + 1], F[m + 2])
  BY LikeUnfolds
<1> SUFFICES F[j] = {i \in 1..Len(s) : s[i] = c /\ i + 1 \in F[a + e + 1]}
  OBVIOUS
<1> HIDE DEF F, q, Q, o, e, c
<1>4. CASE c \in Special
  <2>1. o + 1 \in 1..Len(Q) /\ o + 2 \in 1..Len(Q) /\ a + (o + 1) = j /\ a + (o + 2) = j + 1 /\ a + e + 1 = j + 2
    BY <1>1, <1>4
  <2>2. p[j] = "bs" /\ p[j + 1] = c
    BY <1>1, <1>2, <1>4, <2>1
  <2>3. j \in 1..(Len(p) + 2) /\ j < Len(p) /\ ~(j > Len(p))
    BY <1>0, <1>1, <1>2, <1>4
  <2> HIDE DEF j
  <2> DEFINE one == F[j + 1]
             two == F[j + 2]
  <2>4. F[j] = LikeStep(s, p, <<"bs">>, j, one, two)
    BY <1>3, <2>3
  <2>5. two = F[a + e + 1]
    BY <2>1
  <2> HIDE DEF one, two
  <2>6. F[j] = {i \in 1..Len(s) : s[i] = c /\ i + 1 \in two}
    BY <2>2, <2>3, <2>4 DEF LikeStep
  <2> QED BY <2>5, <2>6
<1>5. CASE c \notin Special
  <2>1. o + 1 \in 1..Len(Q) /\ a + (o + 1) = j /\ a + e + 1 = j + 1
    BY <1>1, <1>5
  <2>2. p[j] = c /\ c # "bs" /\ c # "%" /\ c # "_"
    BY <1>1, <1>2, <1>5, <2>1 DEF Special
  <2>3. j \in 1..(Len(p) + 2) /\ ~(j > Len(p))
    BY <1>0, <1>1, <1>2, <1>5
  <2> HIDE DEF j
  <2> DEFINE one == F[j + 1]
             two == F[j + 2]
  <2>4. F[j] = LikeStep(s, p, <<"bs">>, j, one, two)
    BY <1>3, <2>3
  <2>5. one = F[a + e + 1]
    BY <2>1
  <2> HIDE DEF one, two
  <2>6. <<p[j]>> # <<"bs">>
    BY <2>2
  <2>7. F[j] = {i \in 1..Len(s) : p[j] \in {"_", s[i]} /\ i + 1 \in one}
    BY <2>2, <2>3, <2>4, <2>6 DEF LikeStep
  <2>8. \A i \in 1..Len(s) : p[j] \in {"_", s[i]} <=> s[i] = c
    BY <2>2
  <2> QED BY <2>5, <2>7, <2>8
<1> QED BY <1>4, <1>5

\* Where a pattern matches that begins with a quoted needle: where the needle
\* is and the rest of the pattern matches after it.
LEMMA LikeMatch ==
  ASSUME NEW s \in Texts, NEW p \in Texts, NEW n \in Texts, NEW a \in Nat, QuotedAt(p, a, n)
  PROVE  LET F == LikeFrom(s, p, <<"bs">>)
         IN  \A i \in 1..(Len(s) + 1) :
               i \in F[a + 1] <=>
                 /\ i + Len(n) <= Len(s) + 1 /\ \A m \in 1..Len(n) : s[i + m - 1] = n[m]
                 /\ i + Len(n) \in F[a + Len(Quote(n, Special)) + 1]
<1> DEFINE F == LikeFrom(s, p, <<"bs">>)
           q == QuoteLoop(n, Special)
           Q == Quote(n, Special)
           L == Len(n)
           N == Len(s)
           At(k, i) == /\ i + (L - k) <= N + 1 /\ \A m \in (k + 1)..L : s[i + m - 1 - k] = n[m]
                       /\ i + (L - k) \in F[a + Len(Q) + 1]
           Good(k) == \A i \in 1..(N + 1) : i \in F[a + Len(q[k]) + 1] <=> At(k, i)
           T == {d \in Nat : d <= L => Good(L - d)}
<1>0. L \in Nat /\ N \in Nat /\ Len(p) \in Nat /\ Len(Q) \in Nat
  BY QuoteType DEF Texts
<1>1. q[L] = Q
  BY DEF Quote
<1>2. q[0] = <<>> /\ Len(q[0]) = 0
  <2>1. n \in Seq(Chars) /\ 0 \in 0..Len(n)
    BY <1>0 DEF Texts
  <2>2. q[0] = <<>>
    BY <2>1, QuoteUnfolds
  <2> HIDE DEF q
  <2> QED BY <2>2
<1>3. \A k \in 1..L : F[a + Len(q[k - 1]) + 1] = {i \in 1..N : s[i] = n[k] /\ i + 1 \in F[a + Len(q[k]) + 1]}
  BY LikeChar
<1> HIDE DEF F, q, Q, L, N
<1>4. 0 \in T
  <2>1. L - 0 = L
    BY <1>0
  <2>2. Good(L)
    <3> SUFFICES ASSUME NEW i \in 1..(N + 1) PROVE i \in F[a + Len(q[L]) + 1] <=> At(L, i)
      OBVIOUS
    <3>1. i + (L - L) = i /\ (L + 1)..L = {} /\ i + (L - L) <= N + 1
      BY <1>0
    <3> QED BY <1>1, <3>1
  <2> HIDE DEF Good
  <2> QED BY <2>1, <2>2
<1>5. ASSUME NEW d \in Nat, d \in T PROVE d + 1 \in T
  <2> SUFFICES ASSUME d + 1 <= L PROVE Good(L - (d + 1))
    OBVIOUS
  <2> DEFINE k == L - d
             h == L - (d + 1)
  <2>1. k \in 1..L /\ h = k - 1 /\ d <= L /\ h + 1 = k /\ h \in Nat
    BY <1>0
  <2>2. Good(k)
    BY <1>5, <2>1
  <2> HIDE DEF k, h
  <2>3. F[a + Len(q[h]) + 1] = {i \in 1..N : s[i] = n[k] /\ i + 1 \in F[a + Len(q[k]) + 1]}
    BY <1>3, <2>1
  <2>4. ASSUME NEW i \in 1..(N + 1) PROVE i \in F[a + Len(q[h]) + 1] <=> At(h, i)
    <3>1. i \in F[a + Len(q[h]) + 1] <=> i \in 1..N /\ s[i] = n[k] /\ At(k, i + 1)
      <4>1. i \in 1..N => i + 1 \in 1..(N + 1)
        BY <1>0
      <4> HIDE DEF At
      <4> QED BY <2>2, <2>3, <4>1
    <3>2. i + 1 + (L - k) = i + (L - h)
      BY <1>0, <2>1
    <3>3. i + (L - h) <= N + 1 => i \in 1..N
      BY <1>0, <2>1
    <3>4. \A m \in (k + 1)..L : i + 1 + m - 1 - k = i + m - 1 - h
      BY <1>0, <2>1
    <3>5. \A m \in (h + 1)..L : m = k \/ m \in (k + 1)..L
      BY <1>0, <2>1
    <3>6. k \in (h + 1)..L /\ i + k - 1 - h = i /\ \A m \in (k + 1)..L : m \in (h + 1)..L
      BY <1>0, <2>1
    <3>7. (\A m \in (h + 1)..L : s[i + m - 1 - h] = n[m])
          <=> s[i] = n[k] /\ \A m \in (k + 1)..L : s[i + 1 + m - 1 - k] = n[m]
      BY <3>4, <3>5, <3>6
    <3> QED BY <3>1, <3>2, <3>3, <3>7
  <2>5. Good(h)
    BY <2>4
  <2> QED BY <2>5 DEF h
<1>6. \A d \in Nat : d \in T
  <2> HIDE DEF T
  <2> QED BY <1>4, <1>5, SetInduction
<1>7. Good(0)
  <2>1. L \in T
    <3> HIDE DEF T
    <3> QED BY <1>0, <1>6
  <2> HIDE DEF Good
  <2>2. L - L = 0 /\ L <= L
    BY <1>0
  <2>3. Good(L - L)
    BY <2>1, <2>2
  <2> QED BY <2>2, <2>3
<1>8. ASSUME NEW i \in 1..(N + 1)
      PROVE  i \in F[a + 1] <=> /\ i + L <= N + 1 /\ \A m \in 1..L : s[i + m - 1] = n[m]
                                /\ i + L \in F[a + Len(Q) + 1]
  <2>1. i \in F[a + Len(q[0]) + 1] <=> At(0, i)
    BY <1>7
  <2>2. a + Len(q[0]) + 1 = a + 1 /\ i + (L - 0) = i + L /\ (0 + 1)..L = 1..L
        /\ \A m \in 1..L : i + m - 1 - 0 = i + m - 1
    BY <1>0, <1>2
  <2> QED BY <2>1, <2>2
<1> QED BY <1>8 DEF F, Q, L, N

\* A part of a text equals another text iff it does so at each place.
LEMMA SubSeqIs ==
  ASSUME NEW s \in Texts, NEW n \in Texts, NEW k \in Nat, k + Len(n) <= Len(s)
  PROVE  SubSeq(s, k + 1, k + Len(n)) = n <=> \A m \in 1..Len(n) : s[k + m] = n[m]
<1> DEFINE u == SubSeq(s, k + 1, k + Len(n))
<1>0. Len(s) \in Nat /\ Len(n) \in Nat /\ s \in Seq(Chars) /\ n \in Seq(Chars)
  BY DEF Texts
<1>1. k + 1 \in 1..(Len(s) + 1) /\ k + Len(n) \in k..Len(s) /\ k + 1 <= k + Len(n) + 1
  BY <1>0
<1>3. u \in Seq(Chars) /\ Len(u) = Len(n) /\ \A m \in 1..Len(n) : u[m] = s[k + m]
  <2> DEFINE a == k + 1
             b == k + Len(n)
  <2>1. /\ a \in 1..(Len(s) + 1) /\ b \in (a - 1)..Len(s) /\ b - a + 1 = Len(n)
        /\ \A m \in 1..Len(n) : a + m - 1 = k + m
    BY <1>0, <1>1
  <2> HIDE DEF a, b
  <2>2. SubSeq(s, a, b) \in Seq(Chars) /\ Len(SubSeq(s, a, b)) = b - a + 1
    BY <1>0, <2>1
  <2>3. \A m \in 1..(b - a + 1) : SubSeq(s, a, b)[m] = s[a + m - 1]
    BY <1>0, <2>1
  <2> QED BY <2>1, <2>2, <2>3 DEF a, b, u
<1> HIDE DEF u
<1>4. u = n <=> \A m \in 1..Len(n) : u[m] = n[m]
  BY <1>0, <1>3
<1> QED BY <1>3, <1>4 DEF u

IsPrefixPattern(p, Q) ==
  p \in Texts /\ Len(p) = Len(Q) + 1 /\ p[Len(Q) + 1] = "%" /\ \A i \in 1..Len(Q) : p[i] = Q[i]

\* A pattern with a wildcard at its end.
LEMMA PrefixPattern ==
  ASSUME NEW Q \in Texts
  PROVE  IsPrefixPattern(<<>> \o Q \o <<"%">>, Q)
<1>0. Q \in Seq(Chars) /\ Len(Q) \in Nat
  BY DEF Texts
<1>1. "%" \in Chars
  BY DEF Chars
<1>2. <<>> \o Q = Q
  BY <1>0
<1> DEFINE p == Append(Q, "%")
<1>3. Q \o <<"%">> = p
  BY <1>0, <1>1
<1>4. p \in Texts /\ Len(p) = Len(Q) + 1 /\ p[Len(Q) + 1] = "%" /\ \A i \in 1..Len(Q) : p[i] = Q[i]
  BY <1>1, AppendFacts
<1> HIDE DEF p
<1> QED BY <1>2, <1>3, <1>4 DEF IsPrefixPattern

IsSuffixPattern(p, Q) ==
  p \in Texts /\ Len(p) = Len(Q) + 1 /\ p[1] = "%" /\ \A i \in 1..Len(Q) : p[1 + i] = Q[i]

\* A pattern with a wildcard at its start.
LEMMA SuffixPattern ==
  ASSUME NEW Q \in Texts
  PROVE  IsSuffixPattern(<<"%">> \o Q \o <<>>, Q)
<1>0. Q \in Seq(Chars) /\ Len(Q) \in Nat
  BY DEF Texts
<1>1. "%" \in Chars
  BY DEF Chars
<1> DEFINE r == <<"%">> \o Q
<1>2. r \in Seq(Chars) /\ Len(r) = Len(Q) + 1 /\ r[1] = "%" /\ \A i \in 1..Len(Q) : r[1 + i] = Q[i]
  BY <1>0, <1>1
<1> HIDE DEF r
<1>3. r \o <<>> = r
  BY <1>2
<1>4. IsSuffixPattern(r, Q)
  BY <1>2 DEF Texts, IsSuffixPattern
<1> QED BY <1>3, <1>4 DEF r

IsContainsPattern(p, Q) ==
  /\ p \in Texts /\ Len(p) = Len(Q) + 2 /\ p[1] = "%" /\ p[Len(Q) + 2] = "%"
  /\ \A i \in 1..Len(Q) : p[1 + i] = Q[i]

\* A pattern with a wildcard at both ends.
LEMMA ContainsPattern ==
  ASSUME NEW Q \in Texts
  PROVE  IsContainsPattern(<<"%">> \o Q \o <<"%">>, Q)
<1>0. Q \in Seq(Chars) /\ Len(Q) \in Nat
  BY DEF Texts
<1>1. "%" \in Chars
  BY DEF Chars
<1> DEFINE r == <<"%">> \o Q
           p == Append(r, "%")
<1>2. r \in Seq(Chars) /\ Len(r) = Len(Q) + 1 /\ r[1] = "%" /\ \A i \in 1..Len(Q) : r[1 + i] = Q[i]
  BY <1>0, <1>1
<1> HIDE DEF r
<1>3. r \o <<"%">> = p
  BY <1>1, <1>2
<1>4. p \in Texts /\ Len(p) = Len(r) + 1 /\ p[Len(r) + 1] = "%" /\ \A i \in 1..Len(r) : p[i] = r[i]
  BY <1>1, <1>2, AppendFacts DEF Texts
<1> HIDE DEF p
<1>5. 1 \in 1..Len(r) /\ Len(r) + 1 = Len(Q) + 2 /\ \A i \in 1..Len(Q) : 1 + i \in 1..Len(r)
  BY <1>0, <1>2
<1>6. /\ p \in Texts /\ Len(p) = Len(Q) + 2 /\ p[1] = "%" /\ p[Len(Q) + 2] = "%"
      /\ \A i \in 1..Len(Q) : p[1 + i] = Q[i]
  BY <1>2, <1>4, <1>5
<1>7. IsContainsPattern(p, Q)
  BY <1>6 DEF IsContainsPattern
<1> QED BY <1>3, <1>7 DEF r

\* The pattern that FuncArgToLikeString makes of a needle.
Pattern(func, n) ==
  (IF func = "prefix" THEN <<>> ELSE <<"%">>) \o EscapeNeedle(n)
  \o (IF func = "suffix" THEN <<>> ELSE <<"%">>)

\* prefix is LIKE with the escaped needle and a wildcard behind it.
LEMMA PrefixLike ==
  ASSUME NEW s \in Texts, NEW n \in Texts
  PROVE  Pattern("prefix", n) \in Texts /\ (Like(s, Pattern("prefix", n), <<"bs">>) <=> Prefix(s, n))
<1> DEFINE p == Pattern("prefix", n)
           Q == Quote(n, Special)
           F == LikeFrom(s, p, <<"bs">>)
           L == Len(n)
           N == Len(s)
<1>1. Q \in Texts /\ L \in Nat /\ N \in Nat /\ Len(Q) \in Nat
  BY QuoteType DEF Texts
<1>2. p = <<>> \o Q \o <<"%">>
  BY EscapeIsQuote DEF Pattern
<1>3. p \in Texts /\ Len(p) = Len(Q) + 1 /\ p[Len(Q) + 1] = "%" /\ \A i \in 1..Len(Q) : p[i] = Q[i]
  <2>1. IsPrefixPattern(p, Q)
    BY <1>1, <1>2, PrefixPattern
  <2> HIDE DEF p, Q
  <2> QED BY <2>1 DEF IsPrefixPattern
<1>4. Prefix(s, n) <=> 0 + L <= N /\ SubSeq(s, 0 + 1, 0 + L) = n
  BY <1>1 DEF Prefix
<1> HIDE DEF p
<1>5. QuotedAt(p, 0, n)
  BY <1>1, <1>3 DEF QuotedAt
<1>6. \A i \in 1..(N + 1) : i \in F[0 + 1] <=> /\ i + L <= N + 1 /\ \A m \in 1..L : s[i + m - 1] = n[m]
                                               /\ i + L \in F[0 + Len(Q) + 1]
  BY <1>3, <1>5, LikeMatch
<1>7. /\ F[Len(p) + 1] = {N + 1}
      /\ F[Len(Q) + 1] = {i \in 1..(N + 1) : \E m \in F[Len(Q) + 1 + 1] : i <= m}
  <2>1. Len(Q) + 1 \in 1..Len(p) /\ <<p[Len(Q) + 1]>> # <<"bs">>
    BY <1>1, <1>3
  <2> QED BY <1>3, <2>1, LikeFacts
<1>8. L <= N => (SubSeq(s, 0 + 1, 0 + L) = n <=> \A m \in 1..L : s[0 + m] = n[m])
  <2>1. ASSUME L <= N PROVE 0 \in Nat /\ 0 + L <= N
    BY <1>1, <2>1
  <2> QED BY <2>1, SubSeqIs
<1> HIDE DEF F, Q, L, N
<1>9. 1 + L <= N + 1 => 1 + L \in F[0 + Len(Q) + 1]
  <2>1. Len(Q) + 1 + 1 = Len(p) + 1 /\ 0 + Len(Q) + 1 = Len(Q) + 1
    BY <1>1, <1>3
  <2> QED BY <1>1, <1>7, <2>1
<1>10. 1 \in F[1] <=> L <= N /\ \A m \in 1..L : s[m] = n[m]
  <2>1. \A m \in 1..L : 1 + m - 1 = m
    BY <1>1
  <2>2. (1 + L <= N + 1 <=> L <= N) /\ 1 \in 1..(N + 1) /\ 0 + 1 = 1
    BY <1>1
  <2> QED BY <1>6, <1>9, <2>1, <2>2
<1>11. Like(s, p, <<"bs">>) <=> 1 \in F[1]
  BY DEF Like, F
<1>12. \A m \in 1..L : 0 + m = m
  BY <1>1
<1>13. 0 + L = L
  BY <1>1
<1> QED BY <1>3, <1>4, <1>10, <1>8, <1>11, <1>12, <1>13 DEF p

\* suffix is LIKE with the escaped needle and a wildcard before it.
LEMMA SuffixLike ==
  ASSUME NEW s \in Texts, NEW n \in Texts
  PROVE  Pattern("suffix", n) \in Texts /\ (Like(s, Pattern("suffix", n), <<"bs">>) <=> Suffix(s, n))
<1> DEFINE p == Pattern("suffix", n)
           Q == Quote(n, Special)
           F == LikeFrom(s, p, <<"bs">>)
           L == Len(n)
           N == Len(s)
<1>1. Q \in Texts /\ L \in Nat /\ N \in Nat /\ Len(Q) \in Nat
  BY QuoteType DEF Texts
<1>2. p = <<"%">> \o Q \o <<>>
  BY EscapeIsQuote DEF Pattern
<1>3. p \in Texts /\ Len(p) = Len(Q) + 1 /\ p[1] = "%" /\ \A i \in 1..Len(Q) : p[1 + i] = Q[i]
  <2>1. IsSuffixPattern(p, Q)
    BY <1>1, <1>2, SuffixPattern
  <2> HIDE DEF p, Q
  <2> QED BY <2>1 DEF IsSuffixPattern
<1> HIDE DEF p
<1>4. QuotedAt(p, 1, n)
  BY <1>1, <1>3 DEF QuotedAt
<1>5. \A i \in 1..(N + 1) : i \in F[1 + 1] <=> /\ i + L <= N + 1 /\ \A m \in 1..L : s[i + m - 1] = n[m]
                                               /\ i + L \in F[1 + Len(Q) + 1]
  BY <1>3, <1>4, LikeMatch
<1>6. /\ F[Len(p) + 1] = {N + 1}
      /\ F[1] = {i \in 1..(N + 1) : \E m \in F[1 + 1] : i <= m}
      /\ F[1 + 1] \in SUBSET (1..(N + 1))
  <2>1. 1 \in 1..Len(p) /\ <<p[1]>> # <<"bs">> /\ 1 + 1 \in 1..(Len(p) + 1)
    BY <1>1, <1>3
  <2> QED BY <1>3, <2>1, LikeFacts
<1>7. Like(s, p, <<"bs">>) <=> 1 \in F[1]
  BY DEF Like
<1>8. L <= N => (SubSeq(s, (N - L) + 1, (N - L) + L) = n <=> \A m \in 1..L : s[(N - L) + m] = n[m])
  <2>1. ASSUME L <= N PROVE N - L \in Nat /\ (N - L) + L <= N
    BY <1>1, <2>1
  <2> QED BY <2>1, SubSeqIs
<1> HIDE DEF F, Q, L, N
<1>9. 1 \in F[1] <=> \E i \in 1..(N + 1) : i \in F[1 + 1]
  <2>1. \A i \in 1..(N + 1) : 1 <= i
    OBVIOUS
  <2>2. 1 \in 1..(N + 1)
    BY <1>1
  <2> QED BY <1>6, <2>1, <2>2
<1>10. 1 + Len(Q) + 1 = Len(p) + 1
  BY <1>1, <1>3
<1>11. \A i \in 1..(N + 1) : i \in F[1 + 1] <=> i = N - L + 1 /\ L <= N /\ \A m \in 1..L : s[i + m - 1] = n[m]
  <2> TAKE i \in 1..(N + 1)
  <2>1. i + L \in F[1 + Len(Q) + 1] <=> i + L = N + 1
    BY <1>6, <1>10
  <2>2. (i + L <= N + 1 /\ i + L = N + 1) <=> (i = N - L + 1 /\ L <= N)
    BY <1>1
  <2> QED BY <1>5, <2>1, <2>2
<1>12. 1 \in F[1] <=> L <= N /\ \A m \in 1..L : s[(N - L) + 1 + m - 1] = n[m]
  <2>1. L <= N => N - L + 1 \in 1..(N + 1)
    BY <1>1
  <2> QED BY <1>9, <1>11, <2>1
<1>13. \A m \in 1..L : (N - L) + 1 + m - 1 = (N - L) + m
  BY <1>1
<1>14. Suffix(s, n) <=> L <= N /\ SubSeq(s, (N - L) + 1, N) = n
  BY DEF Suffix, L, N
<1>15. (N - L) + L = N
  BY <1>1
<1> QED BY <1>3, <1>7, <1>8, <1>12, <1>13, <1>14, <1>15 DEF p

\* contains is LIKE with the escaped needle between two wildcards.
LEMMA ContainsLike ==
  ASSUME NEW s \in Texts, NEW n \in Texts
  PROVE  Pattern("contains", n) \in Texts /\ (Like(s, Pattern("contains", n), <<"bs">>) <=> Contains(s, n))
<1> DEFINE p == Pattern("contains", n)
           Q == Quote(n, Special)
           F == LikeFrom(s, p, <<"bs">>)
           L == Len(n)
           N == Len(s)
<1>1. Q \in Texts /\ L \in Nat /\ N \in Nat /\ Len(Q) \in Nat
  BY QuoteType DEF Texts
<1>2. p = <<"%">> \o Q \o <<"%">>
  BY EscapeIsQuote DEF Pattern
<1>3. /\ p \in Texts /\ Len(p) = Len(Q) + 2 /\ p[1] = "%" /\ p[Len(Q) + 2] = "%"
      /\ \A i \in 1..Len(Q) : p[1 + i] = Q[i]
  <2>1. IsContainsPattern(p, Q)
    BY <1>1, <1>2, ContainsPattern
  <2> HIDE DEF p, Q
  <2> QED BY <2>1 DEF IsContainsPattern
<1> HIDE DEF p
<1>4. QuotedAt(p, 1, n)
  BY <1>1, <1>3 DEF QuotedAt
<1>5. \A i \in 1..(N + 1) : i \in F[1 + 1] <=> /\ i + L <= N + 1 /\ \A m \in 1..L : s[i + m - 1] = n[m]
                                               /\ i + L \in F[1 + Len(Q) + 1]
  BY <1>3, <1>4, LikeMatch
<1>6. /\ F[Len(p) + 1] = {N + 1}
      /\ F[1] = {i \in 1..(N + 1) : \E m \in F[1 + 1] : i <= m}
      /\ F[Len(Q) + 2] = {i \in 1..(N + 1) : \E m \in F[Len(Q) + 2 + 1] : i <= m}
      /\ F[1 + 1] \in SUBSET (1..(N + 1))
  <2>1. /\ 1 \in 1..Len(p) /\ <<p[1]>> # <<"bs">> /\ 1 + 1 \in 1..(Len(p) + 1)
        /\ Len(Q) + 2 \in 1..Len(p) /\ <<p[Len(Q) + 2]>> # <<"bs">>
    BY <1>1, <1>3
  <2> QED BY <1>3, <2>1, LikeFacts
<1>7. Like(s, p, <<"bs">>) <=> 1 \in F[1]
  BY DEF Like
<1>8. \A k \in 0..(N - L) : SubSeq(s, k + 1, k + L) = n <=> \A m \in 1..L : s[k + m] = n[m]
  <2>1. \A k \in 0..(N - L) : k \in Nat /\ k + L <= N
    BY <1>1
  <2> QED BY <2>1, SubSeqIs
<1>9. Contains(s, n) <=> \E k \in 0..(N - L) : SubSeq(s, k + 1, k + L) = n
  BY DEF Contains
<1> HIDE DEF F, Q, L, N
<1>10. 1 \in F[1] <=> \E i \in 1..(N + 1) : i \in F[1 + 1]
  <2>1. \A i \in 1..(N + 1) : 1 <= i
    OBVIOUS
  <2>2. 1 \in 1..(N + 1)
    BY <1>1
  <2> QED BY <1>6, <2>1, <2>2
<1>11. 1 + Len(Q) + 1 = Len(Q) + 2 /\ Len(Q) + 2 + 1 = Len(p) + 1
  BY <1>1, <1>3
<1>12. \A i \in 1..(N + 1) : i + L <= N + 1 => i + L \in F[Len(Q) + 2]
  <2> SUFFICES ASSUME NEW i \in 1..(N + 1), i + L <= N + 1 PROVE i + L \in F[Len(Q) + 2]
    OBVIOUS
  <2>1. i + L \in 1..(N + 1) /\ N + 1 \in F[Len(Q) + 2 + 1]
    BY <1>1, <1>6, <1>11
  <2> QED BY <1>6, <2>1
<1>13. \A i \in 1..(N + 1) : i \in F[1 + 1] <=> i + L <= N + 1 /\ \A m \in 1..L : s[i + m - 1] = n[m]
  BY <1>5, <1>11, <1>12
<1>14. ASSUME 1 \in F[1] PROVE \E k \in 0..(N - L) : \A m \in 1..L : s[k + m] = n[m]
  <2>1. PICK i \in 1..(N + 1) : i + L <= N + 1 /\ \A m \in 1..L : s[i + m - 1] = n[m]
    BY <1>10, <1>13, <1>14
  <2>2. i - 1 \in 0..(N - L) /\ \A m \in 1..L : i - 1 + m = i + m - 1
    BY <1>1, <2>1
  <2> QED BY <2>1, <2>2
<1>15. ASSUME NEW k \in 0..(N - L), \A m \in 1..L : s[k + m] = n[m] PROVE 1 \in F[1]
  <2>1. k + 1 \in 1..(N + 1) /\ k + 1 + L <= N + 1 /\ \A m \in 1..L : k + 1 + m - 1 = k + m
    BY <1>1
  <2>2. k + 1 \in F[1 + 1]
    BY <1>13, <1>15, <2>1
  <2> QED BY <1>10, <2>1, <2>2
<1>16. 1 \in F[1] <=> \E k \in 0..(N - L) : \A m \in 1..L : s[k + m] = n[m]
  BY <1>14, <1>15
<1> QED BY <1>3, <1>7, <1>8, <1>9, <1>16 DEF p

\* The escape character makes no difference to a pattern without it.
LEMMA LikeUnescaped ==
  ASSUME NEW s, NEW p \in Texts, "bs" \notin Range(p)
  PROVE  Like(s, p, <<"bs">>) <=> Like(s, p, <<>>)
<1> DEFINE F == LikeFrom(s, p, <<"bs">>)
           G == LikeFrom(s, p, <<>>)
           L == Len(p)
           T == {d \in Nat : d <= L => F[L + 1 - d] = G[L + 1 - d]}
<1>0. L \in Nat /\ \A k \in 1..L : p[k] # "bs"
  BY DEF Texts, Range
<1>1. \A k \in 1..(L + 2) : F[k] = LikeStep(s, p, <<"bs">>, k, F[k + 1], F[k + 2])
  BY LikeUnfolds
<1>2. \A k \in 1..(L + 2) : G[k] = LikeStep(s, p, <<>>, k, G[k + 1], G[k + 2])
  BY LikeUnfolds
<1>3. \A k \in 1..L : <<p[k]>> # <<"bs">> /\ <<p[k]>> # <<>>
  BY <1>0
<1> SUFFICES F[1] = G[1]
  BY DEF Like
<1> HIDE DEF F, G
<1>4. 0 \in T
  <2>1. L + 1 - 0 \in 1..(L + 2) /\ L + 1 - 0 > L
    BY <1>0
  <2>2. F[L + 1 - 0] = LikeStep(s, p, <<"bs">>, L + 1 - 0, F[L + 1 - 0 + 1], F[L + 1 - 0 + 2])
    BY <1>1, <2>1
  <2>3. G[L + 1 - 0] = LikeStep(s, p, <<>>, L + 1 - 0, G[L + 1 - 0 + 1], G[L + 1 - 0 + 2])
    BY <1>2, <2>1
  <2> QED BY <2>1, <2>2, <2>3 DEF LikeStep
<1>5. ASSUME NEW d \in Nat, d \in T PROVE d + 1 \in T
  <2> DEFINE k == L + 1 - (d + 1)
  <2> SUFFICES ASSUME d + 1 <= L PROVE F[k] = G[k]
    OBVIOUS
  <2>1. k \in 1..L /\ k \in 1..(L + 2) /\ ~(k > L) /\ k + 1 = L + 1 - d /\ d <= L
    BY <1>0
  <2>2. F[k + 1] = G[k + 1]
    BY <1>5, <2>1
  <2> HIDE DEF k
  <2> DEFINE one == F[k + 1]
             two == F[k + 2]
             duo == G[k + 2]
  <2>3. F[k] = LikeStep(s, p, <<"bs">>, k, one, two)
    BY <1>1, <2>1
  <2>4. G[k] = LikeStep(s, p, <<>>, k, one, duo)
    BY <1>2, <2>1, <2>2
  <2>5. <<p[k]>> # <<"bs">> /\ <<p[k]>> # <<>>
    BY <1>3, <2>1
  <2> HIDE DEF one, two, duo
  <2> QED BY <2>1, <2>3, <2>4, <2>5 DEF LikeStep
<1>6. \A d \in Nat : d \in T
  <2> HIDE DEF T
  <2> QED BY <1>4, <1>5, SetInduction
<1>7. L \in T /\ L <= L /\ L + 1 - L = 1
  BY <1>0, <1>6
<1> QED BY <1>7

-----------------------------------------------------------------------------
(* Evaluation: the types of the values *)

Logical == {"true", "false", Null}

\* The operators on truth values return truth values, and none is a text.
LEMMA LogicalTypes ==
  /\ Null # "true" /\ Null # "false" /\ Null \notin Texts
  /\ \A p : Truth(p) \in {"true", "false"} /\ Truth(p) \in Logical
  /\ \A a : Not3(a) \in Logical
  /\ \A S : And3(S) \in Logical
  /\ \A o, a, b, order : Compare(o, a, b, order) \in Logical
<1>1. Null # "true" /\ Null # "false" /\ Null \notin Texts
  BY NullAssumption
<1>2. \A p : Truth(p) \in {"true", "false"} /\ Truth(p) \in Logical
  BY DEF Truth, Logical
<1>3. \A a : Not3(a) \in Logical
  BY DEF Not3, Logical
<1>4. \A S : And3(S) \in Logical
  BY DEF And3, Logical
<1>5. \A o, a, b, order : Compare(o, a, b, order) \in Logical
  BY <1>2 DEF Compare, Logical
<1> QED BY <1>1, <1>2, <1>3, <1>4, <1>5

\* lower and upper return texts.
LEMMA CaseTypes ==
  ASSUME NEW s \in Texts
  PROVE  Lowered(s) \in Texts /\ Uppered(s) \in Texts
<1>1. s \in Seq(Chars) /\ Len(s) \in Nat /\ DOMAIN s = 1..Len(s) /\ \A i \in 1..Len(s) : s[i] \in Chars
  BY DEF Texts
<1>2. \A c \in Chars : LowerOf(c) \in Chars /\ UpperOf(c) \in Chars
  BY DEF LowerOf, UpperOf, Chars
<1>3. Lowered(s) \in [1..Len(s) -> Chars] /\ Uppered(s) \in [1..Len(s) -> Chars]
  BY <1>1, <1>2 DEF Lowered, Uppered
<1>4. \A f \in [1..Len(s) -> Chars] : f \in Seq(Chars)
  BY <1>1
<1> QED BY <1>3, <1>4 DEF Texts

\* EvalNode and WellTyped, operator by operator.
Strict == LikeFunctions \cup {"~~", "!~~", "lower", "upper", "regexp"}
OrderFor(x, db) == IF ReturnsText(x) THEN db.collation ELSE "boolean"
OrderOf(e, db) == OrderFor(e.args[1], db)
ValueOf(e, a, v, db, r) ==
  /\ e.op = "col" => r = v
  /\ e.op = "const" => r = e.val
  /\ e.op = "not" => r = Not3(a[1])
  /\ e.op = "isnull" => r = Truth(a[1] = Null)
  /\ e.op = "isnotnull" => r = Truth(a[1] # Null)
  /\ e.op \in Comparisons => r = Compare(e.op, a[1], a[2], OrderOf(e, db))
  /\ e.op = "between" =>
       r = And3({Compare(">=", a[1], a[2], OrderOf(e, db)), Compare("<", a[1], a[3], OrderOf(e, db))})
  /\ e.op = "and" => r = And3({a[i] : i \in DOMAIN a})
  /\ e.op = "or" => r = Not3(And3({Not3(a[i]) : i \in DOMAIN a}))
  /\ e.op \in Strict => r = IF \E i \in DOMAIN a : a[i] = Null THEN Null ELSE Apply(e.op, a, db)

\* EvalNode, one implication for each kind of node.
LEMMA EvalNodeIs ==
  ASSUME NEW e, NEW a, NEW v, NEW db
  PROVE  ValueOf(e, a, v, db, EvalNode(e, a, v, db))
BY DEF EvalNode, Comparisons, LikeFunctions, Strict, OrderFor, OrderOf, ValueOf

Typed(e) ==
  /\ e.op \in {"col", "const"} => Len(e.args) = 0
  /\ e.op \in {"lower", "upper"} => Len(e.args) = 1 /\ ReturnsText(e.args[1])
  /\ e.op = "not" => Len(e.args) = 1 /\ ~ReturnsText(e.args[1])
  /\ e.op \in {"isnull", "isnotnull", "regexp"} => Len(e.args) = 1
  /\ e.op \in Comparisons =>
       Len(e.args) = 2 /\ (ReturnsText(e.args[2]) <=> ReturnsText(e.args[1]))
  /\ e.op = "between" =>
       /\ Len(e.args) = 3
       /\ \A i \in {2, 3} : ReturnsText(e.args[i]) <=> ReturnsText(e.args[1])
  /\ e.op \in {"and", "or"} => Len(e.args) > 0 /\ \A i \in 1..Len(e.args) : ~ReturnsText(e.args[i])
  /\ e.op \in {"like_escape", "ilike_escape"} => Len(e.args) = 3 /\ ReturnsText(e.args[2]) /\ ReturnsText(e.args[3])
  /\ e.op \in {"contains", "prefix", "suffix", "~~", "!~~"} => Len(e.args) = 2 /\ ReturnsText(e.args[2])

\* WellTyped, one implication for each kind of node.
LEMMA WellTypedIs ==
  ASSUME NEW e, e.op \in Ops
  PROVE  WellTyped(e) <=> Typed(e)
<1> DEFINE n == Len(e.args)
           text(i) == ReturnsText(e.args[i])
<1>1. CASE e.op \in {"col", "const", "lower", "upper", "not", "isnull", "isnotnull", "regexp", "and", "or"}
  BY <1>1 DEF WellTyped, Typed, Comparisons
<1>2. CASE e.op \in Comparisons
  <2>1. WellTyped(e) <=> n = 2 /\ \A i \in 2..n : text(i) <=> text(1)
    BY <1>2 DEF WellTyped, Comparisons
  <2>2. n = 2 => 2..n = {2}
    OBVIOUS
  <2>3. Typed(e) <=> n = 2 /\ (text(2) <=> text(1))
    BY <1>2 DEF Typed, Comparisons
  <2> HIDE DEF n, text
  <2> QED BY <2>1, <2>2, <2>3
<1>3. CASE e.op = "between"
  <2>1. WellTyped(e) <=> n = 3 /\ \A i \in 2..n : text(i) <=> text(1)
    BY <1>3 DEF WellTyped, Comparisons
  <2>2. n = 3 => 2..n = {2, 3}
    OBVIOUS
  <2>3. Typed(e) <=> n = 3 /\ \A i \in {2, 3} : text(i) <=> text(1)
    BY <1>3 DEF Typed, Comparisons
  <2> HIDE DEF n, text
  <2> QED BY <2>1, <2>2, <2>3
<1>4. CASE e.op \in LikeFunctions \cup {"~~", "!~~"}
  BY <1>4 DEF WellTyped, Typed, Comparisons, LikeFunctions
<1> QED BY <1>1, <1>2, <1>3, <1>4 DEF Ops

\* Apply, one equation for each function.
LEMMA ApplyIs ==
  ASSUME NEW a, NEW db
  PROVE  /\ Apply("contains", a, db) = Truth(Contains(a[1], a[2]))
         /\ Apply("prefix", a, db) = Truth(Prefix(a[1], a[2]))
         /\ Apply("suffix", a, db) = Truth(Suffix(a[1], a[2]))
         /\ Apply("like_escape", a, db) = Truth(Like(a[1], a[2], a[3]))
         /\ Apply("ilike_escape", a, db) = Truth(Like(Lowered(a[1]), Lowered(a[2]), a[3]))
         /\ Apply("~~", a, db) = Truth(Like(a[1], a[2], db.escape))
         /\ Apply("!~~", a, db) = Truth(~Like(a[1], a[2], db.escape))
         /\ Apply("lower", a, db) = Lowered(a[1])
         /\ Apply("upper", a, db) = Uppered(a[1])
         /\ Apply("regexp", a, db) = Truth(a[1] = <<>>)
BY DEF Apply

\* A condition has a truth value.
LEMMA EvalLogical ==
  ASSUME NEW e \in Condition, NEW v, NEW db, ~ReturnsText(e)
  PROVE  Eval(e, v, db) \in Logical
<1> DEFINE a == [i \in DOMAIN e.args |-> Eval(e.args[i], v, db)]
           r == EvalNode(e, a, v, db)
<1>1. Eval(e, v, db) = r
  BY EvalUnfolds
<1>2. e.op \in Ops
  <2>1. CondDepth \in 0..CondDepth
    BY DepthFacts
  <2> QED BY <2>1, ExprArgs DEF Condition
<1>v. ValueOf(e, a, v, db, r)
  BY EvalNodeIs
<1> HIDE DEF a, r
<1>3. CASE e.op \in LikeFunctions \cup {"~~", "!~~", "regexp"}
  <2>1. r = IF \E i \in DOMAIN a : a[i] = Null THEN Null ELSE Apply(e.op, a, db)
    BY <1>v, <1>3 DEF ValueOf, Strict
  <2>2. Apply(e.op, a, db) \in Logical
    <3>1. \A p : Truth(p) \in Logical
      BY LogicalTypes
    <3> QED BY <1>3, <3>1, ApplyIs DEF LikeFunctions
  <2>3. Null \in Logical
    BY DEF Logical
  <2> QED BY <1>1, <2>1, <2>2, <2>3
<1>4. CASE e.op \notin LikeFunctions \cup {"~~", "!~~", "regexp"}
  <2>1. e.op \in {"not", "isnull", "isnotnull", "between", "and", "or"} \cup Comparisons
    BY <1>2, <1>4 DEF Ops, ReturnsText
  <2>2. r \in Logical
    BY <1>v, <2>1, LogicalTypes DEF ValueOf
  <2> QED BY <1>1, <2>2
<1> QED BY <1>3, <1>4

\* An expression that returns text has a text or NULL.
LEMMA EvalText ==
  ASSUME NEW v \in Values, NEW db
  PROVE  \A e \in Condition : ReturnsText(e) => Eval(e, v, db) \in Values
<1> DEFINE G == {e \in Condition : ReturnsText(e) => Eval(e, v, db) \in Values}
<1>0. CondDepth \in 0..CondDepth
  BY DepthFacts
<1>1. ASSUME NEW e \in Condition, \A i \in DOMAIN e.args : e.args[i] \in G, ReturnsText(e)
      PROVE  Eval(e, v, db) \in Values
  <2> DEFINE a == [i \in DOMAIN e.args |-> Eval(e.args[i], v, db)]
             r == EvalNode(e, a, v, db)
  <2>1. Eval(e, v, db) = r
    BY EvalUnfolds
  <2>2. e.op \in Ops /\ e.val \in Values /\ WellTyped(e) /\ DOMAIN e.args = 1..Len(e.args)
    BY <1>0, ExprArgs DEF Condition
  <2>v. ValueOf(e, a, v, db, r)
    BY EvalNodeIs
  <2>t. Typed(e)
    BY <2>2, WellTypedIs
  <2> HIDE DEF r
  <2>3. CASE e.op \in {"col", "const"}
    <3>1. r = v \/ r = e.val
      BY <2>v, <2>3 DEF ValueOf
    <3> QED BY <2>1, <2>2, <3>1
  <2>4. CASE e.op \in {"lower", "upper"}
    <3>1. Len(e.args) = 1 /\ ReturnsText(e.args[1])
      BY <2>t, <2>4 DEF Typed
    <3>2. 1 \in DOMAIN e.args
      BY <2>2, <3>1
    <3>3. a[1] \in Values
      BY <1>1, <3>1, <3>2
    <3>4. 1 \in DOMAIN a
      BY <3>2
    <3> HIDE DEF a
    <3>5. r = IF \E i \in DOMAIN a : a[i] = Null THEN Null ELSE Apply(e.op, a, db)
      BY <2>v, <2>4 DEF ValueOf, Strict
    <3>6. Apply(e.op, a, db) \in {Lowered(a[1]), Uppered(a[1])}
      BY <2>4, ApplyIs
    <3>7. a[1] # Null => Lowered(a[1]) \in Texts /\ Uppered(a[1]) \in Texts
      BY <3>3, CaseTypes DEF Values
    <3> QED BY <2>1, <3>4, <3>5, <3>6, <3>7 DEF Values
  <2> QED BY <1>1, <2>3, <2>4 DEF ReturnsText
<1>2. \A e \in ExprsUpTo[CondDepth] : e \in G
  <2>1. \A e \in ExprsUpTo[CondDepth] : (\A i \in DOMAIN e.args : e.args[i] \in G) => e \in G
    BY <1>1 DEF Condition
  <2> HIDE DEF G
  <2> QED BY <1>0, <2>1, ExprInduction
<1> QED BY <1>2 DEF Condition

\* The value of a condition in terms of the values of its arguments.
LEMMA EvalIs ==
  ASSUME NEW e \in Condition, NEW v, NEW db, NEW a, a = [i \in DOMAIN e.args |-> Eval(e.args[i], v, db)]
  PROVE  ValueOf(e, a, v, db, Eval(e, v, db))
<1>1. Eval(e, v, db) = EvalNode(e, a, v, db)
  BY EvalUnfolds
<1> QED BY <1>1, EvalNodeIs

\* A constant has its value.
LEMMA EvalConst ==
  ASSUME NEW e \in Condition, NEW v, NEW db, e.op = "const"
  PROVE  Eval(e, v, db) = e.val
<1> DEFINE a == [i \in DOMAIN e.args |-> Eval(e.args[i], v, db)]
<1>1. ValueOf(e, a, v, db, Eval(e, v, db))
  BY EvalIs
<1> HIDE DEF a
<1> QED BY <1>1 DEF ValueOf

-----------------------------------------------------------------------------
(* Where Postgres and DuckDB evaluate a tree alike *)

\* The expressions DuckDB asks for are among the conditions Postgres may parse.
LEMMA DepthsOf ==
  /\ MaxDepth \in 0..CondDepth /\ CondDepth \in 0..CondDepth /\ CondDepth \in MaxDepth..CondDepth
  /\ Expr \subseteq Condition
<1>1. MaxDepth \in 0..CondDepth /\ CondDepth \in 0..CondDepth /\ CondDepth \in MaxDepth..CondDepth
  BY DepthFacts
<1> QED BY <1>1, ExprGrows DEF Expr, Condition

\* The parts of an expression, and its arguments.
LEMMA ExprIsTyped ==
  ASSUME NEW e \in Expr
  PROVE  /\ e \in Condition /\ e.op \in Ops /\ e.val \in Values /\ Typed(e) /\ DOMAIN e.args = 1..Len(e.args)
         /\ Len(e.args) \in Nat /\ \A i \in DOMAIN e.args : e.args[i] \in Expr
<1>1. /\ e.op \in Ops /\ e.val \in Values /\ WellTyped(e) /\ DOMAIN e.args = 1..Len(e.args)
      /\ \A i \in DOMAIN e.args : e.args[i] \in Expr
  BY DepthsOf, ExprArgs DEF Expr
<1>2. e \in Condition
  BY DepthsOf
<1>3. Len(e.args) \in Nat
  <2>1. e.args \in Seq(ExprsUpTo[MaxDepth - 1])
    BY DepthsOf, ExprArgs DEF Expr
  <2> QED BY <2>1
<1> QED BY <1>1, <1>2, <1>3, WellTypedIs

\* The nodes of an expression include those of its arguments.
LEMMA NodesFacts ==
  ASSUME NEW e \in Expr
  PROVE  e \in Nodes(e) /\ \A i \in DOMAIN e.args : Nodes(e.args[i]) \subseteq Nodes(e)
<1> DEFINE below == [i \in DOMAIN e.args |-> Nodes(e.args[i])]
<1>1. Nodes(e) = {e} \cup UNION Range(below)
  BY NodesUnfold DEF NodesOf
<1>2. \A i \in DOMAIN e.args : Nodes(e.args[i]) \in Range(below)
  BY DEF Range
<1> HIDE DEF below
<1> QED BY <1>1, <1>2

\* Equality does not depend on the collation.
LEMMA CompareOrder ==
  ASSUME NEW o, NEW a, NEW b, NEW order, o \in {"=", "<>", "distinct", "notdistinct"}
  PROVE  Compare(o, a, b, order) = Compare(o, a, b, "C")
BY DEF Compare

\* The two databases give a node the same value, for the same values of its arguments.
LEMMA NodeAgrees ==
  ASSUME NEW e \in Expr, NEW a, NEW v, NEW c, ~NodeDiffers(e, c), DOMAIN a = DOMAIN e.args,
         e.op \in {"~~", "!~~"} /\ e.args[2].op = "const" => a[2] = e.args[2].val
  PROVE  EvalNode(e, a, v, PostgresWith(c)) = EvalNode(e, a, v, DuckDB)
<1> DEFINE P == PostgresWith(c)
           p == EvalNode(e, a, v, P)
           d == EvalNode(e, a, v, DuckDB)
<1>1. ValueOf(e, a, v, P, p) /\ ValueOf(e, a, v, DuckDB, d)
  BY EvalNodeIs
<1>2. e.op \in Ops /\ Typed(e) /\ DOMAIN e.args = 1..Len(e.args) /\ \A i \in DOMAIN e.args : e.args[i] \in Expr
  BY ExprIsTyped
<1>3. P.escape = <<"bs">> /\ P.collation = c /\ DuckDB.escape = <<>> /\ DuckDB.collation = "C"
  BY DEF PostgresWith, DuckDB
<1> HIDE DEF P, p, d
<1> SUFFICES p = d
  BY DEF P, p, d
<1>4. CASE e.op \in {"col", "const", "not", "isnull", "isnotnull", "and", "or"}
  BY <1>1, <1>4 DEF ValueOf
<1>5. CASE e.op \in {"=", "<>", "distinct", "notdistinct"}
  <2>1. p = Compare(e.op, a[1], a[2], OrderOf(e, P)) /\ d = Compare(e.op, a[1], a[2], OrderOf(e, DuckDB))
    BY <1>1, <1>5 DEF ValueOf, Comparisons
  <2> QED BY <1>5, <2>1, CompareOrder
<1>6. CASE e.op \in {"<", ">=", "between"}
  <2>1. OrderOf(e, P) = OrderOf(e, DuckDB)
    BY <1>3, <1>6 DEF OrderOf, OrderFor, NodeDiffers
  <2> QED BY <1>1, <1>6, <2>1 DEF ValueOf, Comparisons
<1>7. CASE e.op \in LikeFunctions \cup {"lower", "upper", "regexp"}
  <2>1. Apply(e.op, a, P) = Apply(e.op, a, DuckDB)
    BY <1>7, ApplyIs DEF LikeFunctions
  <2> QED BY <1>1, <1>7, <2>1 DEF ValueOf, Strict
<1>8. CASE e.op \in {"~~", "!~~"}
  <2>1. e.args[2].op = "const" /\ (e.args[2].val = Null \/ "bs" \notin Range(e.args[2].val))
    BY <1>8 DEF NodeDiffers
  <2>2. 2 \in DOMAIN e.args
    BY <1>2, <1>8 DEF Typed
  <2>3. a[2] = e.args[2].val /\ a[2] \in Values
    <3>1. e.args[2].val \in Values
      BY <1>2, <2>2, ExprIsTyped
    <3> QED BY <1>8, <2>1, <3>1
  <2>4. CASE a[2] = Null
    <3>1. \E i \in DOMAIN a : a[i] = Null
      BY <2>2, <2>4
    <3> QED BY <1>1, <1>8, <3>1 DEF ValueOf, Strict
  <2>5. CASE a[2] # Null
    <3>1. a[2] \in Texts /\ "bs" \notin Range(a[2])
      BY <2>1, <2>3, <2>5 DEF Values
    <3>2. Like(a[1], a[2], <<"bs">>) <=> Like(a[1], a[2], <<>>)
      BY <3>1, LikeUnescaped
    <3>3. Apply(e.op, a, P) = Apply(e.op, a, DuckDB)
      BY <1>3, <1>8, <3>2, ApplyIs DEF Truth
    <3> QED BY <1>1, <1>8, <3>3 DEF ValueOf, Strict
  <2> QED BY <2>4, <2>5
<1> QED BY <1>2, <1>4, <1>5, <1>6, <1>7, <1>8 DEF Ops, Comparisons

\* A tree without a known difference has one value in both.
LEMMA EvalAgrees ==
  ASSUME NEW v, NEW c
  PROVE  \A e \in Expr : ~Differs(e, c) => Eval(e, v, PostgresWith(c)) = Eval(e, v, DuckDB)
<1> DEFINE P == PostgresWith(c)
           G == {e \in Expr : ~Differs(e, c) => Eval(e, v, P) = Eval(e, v, DuckDB)}
<1>1. ASSUME NEW e \in Expr, \A i \in DOMAIN e.args : e.args[i] \in G, ~Differs(e, c)
      PROVE  Eval(e, v, P) = Eval(e, v, DuckDB)
  <2> DEFINE a == [i \in DOMAIN e.args |-> Eval(e.args[i], v, P)]
             b == [i \in DOMAIN e.args |-> Eval(e.args[i], v, DuckDB)]
  <2>0. /\ e \in Condition /\ e.op \in Ops /\ Typed(e) /\ DOMAIN e.args = 1..Len(e.args)
        /\ \A i \in DOMAIN e.args : e.args[i] \in Expr
    BY ExprIsTyped
  <2>1. Eval(e, v, P) = EvalNode(e, a, v, P) /\ Eval(e, v, DuckDB) = EvalNode(e, b, v, DuckDB)
    BY <2>0, EvalUnfolds
  <2>2. ~NodeDiffers(e, c) /\ \A i \in DOMAIN e.args : ~Differs(e.args[i], c)
    BY <1>1, NodesFacts DEF Differs
  <2>3. \A i \in DOMAIN e.args : Eval(e.args[i], v, P) = Eval(e.args[i], v, DuckDB)
    BY <1>1, <2>2
  <2>4. a = b
    <3> HIDE DEF P
    <3> QED BY <2>3
  <2>5. ASSUME e.op \in {"~~", "!~~"}, e.args[2].op = "const" PROVE a[2] = e.args[2].val
    <3> DEFINE x == e.args[2]
    <3>1. 2 \in DOMAIN e.args
      BY <2>0, <2>5 DEF Typed
    <3>2. x \in Condition
      BY <2>0, <3>1, ExprIsTyped
    <3>3. x.op = "const"
      BY <2>5
    <3>4. a[2] = Eval(x, v, P)
      BY <3>1
    <3>5. Eval(x, v, P) = x.val
      BY <3>2, <3>3, EvalConst
    <3> QED BY <3>4, <3>5
  <2>6. DOMAIN a = DOMAIN e.args
    OBVIOUS
  <2> HIDE DEF a, b
  <2>7. EvalNode(e, a, v, P) = EvalNode(e, a, v, DuckDB)
    BY <2>2, <2>5, <2>6, NodeAgrees
  <2> QED BY <2>1, <2>4, <2>7
<1>2. \A e \in ExprsUpTo[MaxDepth] : e \in G
  <2>1. \A e \in ExprsUpTo[MaxDepth] : (\A i \in DOMAIN e.args : e.args[i] \in G) => e \in G
    BY <1>1 DEF Expr
  <2> HIDE DEF G
  <2> QED BY DepthsOf, <2>1, ExprInduction
<1> QED BY <1>2 DEF Expr

-----------------------------------------------------------------------------
(* ExpressionToString: the tree that Postgres parses *)

\* t is a tree of up to n levels that can stand where e does.
FitsFor(e, t, n) ==
  /\ t \in ExprsUpTo[n] /\ (ReturnsText(t) <=> ReturnsText(e))
  /\ e.op = "not" => t.op = "not"

\* Short sequences, element by element.
LEMMA Tuples ==
  ASSUME NEW S
  PROVE  /\ \A a \in S : <<a>> \in Seq(S) /\ Len(<<a>>) = 1 /\ <<a>>[1] = a
         /\ \A a, b \in S : <<a, b>> \in Seq(S) /\ Len(<<a, b>>) = 2 /\ <<a, b>>[1] = a /\ <<a, b>>[2] = b
         /\ \A a, b, c \in S :
              /\ <<a, b, c>> \in Seq(S) /\ Len(<<a, b, c>>) = 3
              /\ <<a, b, c>>[1] = a /\ <<a, b, c>>[2] = b /\ <<a, b, c>>[3] = c
OBVIOUS

\* An operator on trees of a depth is one of the next depth.
LEMMA OpIs ==
  ASSUME NEW n \in Nat, n + 1 <= CondDepth, NEW op \in Ops, NEW args \in Seq(ExprsUpTo[n]), Typed(Op(op, args))
  PROVE  Op(op, args) \in ExprsUpTo[n + 1]
<1> DEFINE j == n + 1
<1>1. j \in 0..CondDepth /\ j # 0 /\ j - 1 = n
  BY DepthFacts
<1>2. args \in Seq(ExprsUpTo[j - 1])
  BY <1>1
<1>3. Null \in Values
  BY DEF Values
<1>4. Op(op, args) = [op |-> op, args |-> args, val |-> Null] /\ Op(op, args).op \in Ops
  BY DEF Op
<1>5. WellTyped(Op(op, args))
  BY <1>4, WellTypedIs
<1>6. WellTyped([op |-> op, args |-> args, val |-> Null])
  BY <1>4, <1>5
<1> HIDE DEF j
<1>7. [op |-> op, args |-> args, val |-> Null] \in ExprsUpTo[j]
  BY <1>1, <1>2, <1>3, <1>6, ExprIs
<1> QED BY <1>4, <1>7 DEF j

\* A constant is an expression of every depth.
LEMMA ConstIs ==
  ASSUME NEW val \in Values, NEW n \in 1..CondDepth
  PROVE  Const(val) \in ExprsUpTo[n] /\ ReturnsText(Const(val)) /\ Const(val).op = "const" /\ Const(val).val = val
<1> DEFINE t == [op |-> "const", args |-> <<>>, val |-> val]
<1>1. n \in 0..CondDepth /\ n # 0 /\ "const" \in Ops /\ <<>> \in Seq(ExprsUpTo[n - 1])
  BY DepthFacts DEF Ops
<1>2. t.op \in Ops /\ Typed(t)
  BY DEF Typed, Ops, Comparisons
<1>3. WellTyped(t)
  BY <1>2, WellTypedIs
<1>4. t \in ExprsUpTo[n]
  BY <1>1, <1>3, ExprIs
<1> QED BY <1>4 DEF Const, ReturnsText

\* A comparison that Comparison writes.
LEMMA ComparisonFits ==
  ASSUME NEW n \in Nat, n + 2 <= CondDepth, NEW op \in Comparisons, NEW e, NEW left, NEW right,
         left \in ExprsUpTo[n], right \in ExprsUpTo[n], ReturnsText(right) <=> ReturnsText(left),
         e.args[1].op = "not" => /\ left.args[1] \in ExprsUpTo[n] /\ ~ReturnsText(left.args[1]) /\ ~ReturnsText(left)
  PROVE  LET t == Comparison(op, e, left, right) IN
         t \in ExprsUpTo[n + 2] /\ ~ReturnsText(t)
<1>0. n \in 0..CondDepth /\ n + 1 \in 0..CondDepth /\ n + 2 \in (n + 1)..CondDepth /\ n + 1 <= CondDepth /\ n + 1 + 1 = n + 2
      /\ n + 1 \in Nat
  BY DepthFacts
<1>1. op \in Ops /\ op \notin {"col", "const", "lower", "upper", "not"} /\ "not" \in Ops
  BY DEF Ops, Comparisons
<1>2. ASSUME NEW l \in ExprsUpTo[n], ReturnsText(right) <=> ReturnsText(l)
      PROVE  Op(op, <<l, right>>) \in ExprsUpTo[n + 1] /\ ~ReturnsText(Op(op, <<l, right>>))
  <2> DEFINE args == <<l, right>>
  <2>1. args \in Seq(ExprsUpTo[n]) /\ Len(args) = 2 /\ args[1] = l /\ args[2] = right
    BY Tuples
  <2> HIDE DEF args
  <2>2. Op(op, args).op = op /\ Op(op, args).args = args
    BY DEF Op
  <2>3. Typed(Op(op, args))
    BY <1>2, <2>1, <2>2 DEF Typed, Comparisons
  <2>4. Op(op, args) \in ExprsUpTo[n + 1]
    BY <1>0, <1>1, <2>1, <2>3, OpIs
  <2>5. ~ReturnsText(Op(op, args))
    BY <1>1, <2>2 DEF ReturnsText
  <2> QED BY <2>4, <2>5 DEF args
<1>3. CASE e.args[1].op # "not"
  <2>1. Comparison(op, e, left, right) = Op(op, <<left, right>>) /\ Op(op, <<left, right>>).op = op
    BY <1>3 DEF Comparison, Op
  <2>2. ExprsUpTo[n + 1] \subseteq ExprsUpTo[n + 2]
    BY <1>0, ExprGrows
  <2> QED BY <1>1, <1>2, <2>1, <2>2
<1>4. CASE e.args[1].op = "not"
  <2> DEFINE x == Op(op, <<left.args[1], right>>)
             args == <<x>>
  <2>1. x \in ExprsUpTo[n + 1] /\ ~ReturnsText(x)
    BY <1>2, <1>4
  <2>2. Comparison(op, e, left, right) = Op("not", args)
    BY <1>4 DEF Comparison
  <2> HIDE DEF x
  <2>3. args \in Seq(ExprsUpTo[n + 1]) /\ Len(args) = 1 /\ args[1] = x
    BY <2>1, Tuples
  <2> HIDE DEF args
  <2>4. Op("not", args).op = "not" /\ Op("not", args).args = args
    BY DEF Op
  <2>5. Typed(Op("not", args))
    BY <2>1, <2>3, <2>4 DEF Typed, Comparisons
  <2>6. Op("not", args) \in ExprsUpTo[n + 1 + 1]
    BY <1>0, <1>1, <2>3, <2>5, OpIs
  <2>7. ~ReturnsText(Op("not", args))
    BY <2>4 DEF ReturnsText
  <2> QED BY <1>0, <2>2, <2>6, <2>7
<1> QED BY <1>3, <1>4

\* NodeToString, operator by operator, where it does not fail.
Needle(e) == Const(IF e.args[2].val = Null THEN Null ELSE Pattern(e.op, e.args[2].val))
Mapped == {"not", "isnull", "isnotnull", "and", "or", "lower", "upper"}
StringIs(e, arg, t) ==
  /\ e.op # "regexp"
  /\ e.op \notin LikeFunctions => \A i \in DOMAIN arg : arg[i] # Unsupported
  /\ e.op \in {"col", "const"} => t = e
  /\ e.op \in Comparisons => t = Comparison(e.op, e, arg[1], arg[2])
  /\ e.op = "between" =>
       t = Op("and", <<Comparison(">=", e, arg[1], arg[2]), Comparison("<", e, arg[1], arg[3])>>)
  /\ e.op \in Mapped => t = Op(e.op, arg)
  /\ e.op \in {"~~", "!~~"} => ReturnsText(e.args[1]) /\ t = Op(e.op, arg)
  /\ e.op \in LikeFunctions => ReturnsText(e.args[1]) /\ arg[1] # Unsupported
  /\ e.op \in {"like_escape", "ilike_escape"} =>
       arg[2] # Unsupported /\ arg[3] # Unsupported /\ t = Op(e.op, <<arg[1], arg[2], arg[3]>>)
  /\ e.op \in {"contains", "prefix", "suffix"} =>
       e.args[2].op = "const" /\ t = Op("like_escape", <<arg[1], Needle(e), Const(<<"bs">>)>>)

\* NodeToString, one implication for each kind of node.
LEMMA NodeStringIs ==
  ASSUME NEW e, e.op \in Ops, Typed(e), NEW arg, NEW t, t = NodeToString(e, arg), t # Unsupported
  PROVE  StringIs(e, arg, t)
<1>1. CASE e.op \in {"like_escape", "ilike_escape"}
  <2>1. t = FuncToLikeString(e, arg)
    BY <1>1 DEF NodeToString, LikeFunctions
  <2>2. Len(e.args) = 3
    BY <1>1 DEF Typed
  <2>3. ReturnsText(e.args[1]) /\ arg[1] # Unsupported /\ arg[2] # Unsupported /\ arg[3] # Unsupported
    BY <1>1, <2>1, <2>2 DEF FuncToLikeString
  <2>4. t = Op(e.op, <<arg[1], arg[2], arg[3]>>)
    BY <1>1, <2>1, <2>2, <2>3 DEF FuncToLikeString
  <2> QED BY <1>1, <2>3, <2>4 DEF StringIs, LikeFunctions, Comparisons, Mapped
<1>2. CASE e.op \in {"contains", "prefix", "suffix"}
  <2>1. t = FuncToLikeString(e, arg)
    BY <1>2 DEF NodeToString, LikeFunctions
  <2>2. Len(e.args) = 2
    BY <1>2 DEF Typed
  <2> DEFINE needle == FuncArgToLikeString(e.op, e.args[2])
  <2>3. ReturnsText(e.args[1]) /\ arg[1] # Unsupported /\ needle # Unsupported
    BY <1>2, <2>1, <2>2 DEF FuncToLikeString
  <2>4. t = Op("like_escape", <<arg[1], needle, Const(<<"bs">>)>>)
    BY <1>2, <2>1, <2>2, <2>3 DEF FuncToLikeString
  <2>5. e.args[2].op = "const"
    BY <2>3 DEF FuncArgToLikeString
  <2>6. needle = Needle(e)
    BY <2>5 DEF FuncArgToLikeString, Needle, Pattern
  <2> HIDE DEF needle
  <2> QED BY <1>2, <2>3, <2>4, <2>5, <2>6 DEF StringIs, LikeFunctions, Comparisons, Mapped
<1>3. CASE e.op \notin LikeFunctions
  <2>1. \A i \in DOMAIN arg : arg[i] # Unsupported
    BY <1>3 DEF NodeToString
  <2>2. CASE e.op \in {"col", "const"} \cup Mapped
    BY <1>3, <2>1, <2>2 DEF NodeToString, StringIs, LikeFunctions, Comparisons, Mapped
  <2>3. CASE e.op \in Comparisons \cup {"between"}
    BY <1>3, <2>1, <2>3 DEF NodeToString, StringIs, LikeFunctions, Comparisons, Mapped
  <2>4. CASE e.op \in {"~~", "!~~", "regexp"}
    BY <1>3, <2>1, <2>4 DEF NodeToString, StringIs, LikeFunctions, Comparisons, Mapped
  <2> QED BY <1>3, <2>2, <2>3, <2>4 DEF Ops, Mapped
<1> QED BY <1>1, <1>2, <1>3 DEF LikeFunctions

\* Arguments that fit make the operator fit.
LEMMA TypedMap ==
  ASSUME NEW e, Typed(e), NEW arg, DOMAIN e.args = 1..Len(e.args), Len(e.args) \in Nat, Len(arg) = Len(e.args),
         \A i \in DOMAIN e.args : ReturnsText(arg[i]) <=> ReturnsText(e.args[i]),
         e.op \in Mapped \cup {"~~", "!~~"}
  PROVE  Typed(Op(e.op, arg))
<1>1. Op(e.op, arg).op = e.op /\ Op(e.op, arg).args = arg
  BY DEF Op
<1>2. CASE e.op \in {"and", "or"}
  BY <1>1, <1>2 DEF Typed, Comparisons
<1>3. CASE e.op \in {"not", "lower", "upper", "isnull", "isnotnull"}
  <2>1. Len(e.args) = 1
    BY <1>3 DEF Typed
  <2>2. 1 \in DOMAIN e.args
    BY <2>1
  <2> QED BY <1>1, <1>3, <2>1, <2>2 DEF Typed, Comparisons
<1>4. CASE e.op \in {"~~", "!~~"}
  <2>1. Len(e.args) = 2
    BY <1>4 DEF Typed
  <2>2. 2 \in DOMAIN e.args
    BY <2>1
  <2> QED BY <1>1, <1>4, <2>1, <2>2 DEF Typed, Comparisons
<1> QED BY <1>2, <1>3, <1>4 DEF Mapped

\* The pattern made of a needle is a text.
LEMMA PatternType ==
  ASSUME NEW e, e.op \in {"contains", "prefix", "suffix"}, e.args[2].val \in Values
  PROVE  IF e.args[2].val = Null THEN TRUE ELSE Pattern(e.op, e.args[2].val) \in Texts
<1>1. <<>> \in Texts
  BY DEF Texts
<1>2. e.args[2].val # Null => e.args[2].val \in Texts
  BY DEF Values
<1> QED BY <1>1, <1>2, PrefixLike, SuffixLike, ContainsLike

\* What NodeToString writes can stand where the node does, at most three levels deeper.
LEMMA StringFits ==
  ASSUME NEW k \in Nat, k + 3 <= CondDepth, NEW e \in Expr, e \in ExprsUpTo[k + 3],
         NEW arg, DOMAIN arg = DOMAIN e.args, arg = [i \in DOMAIN e.args |-> arg[i]],
         \A i \in DOMAIN e.args : arg[i] # Unsupported => FitsFor(e.args[i], arg[i], k),
         NEW t, t = NodeToString(e, arg), t # Unsupported
  PROVE  FitsFor(e, t, k + 3)
<1>0. /\ e.op \in Ops /\ e.val \in Values /\ Typed(e) /\ DOMAIN e.args = 1..Len(e.args) /\ Len(e.args) \in Nat
      /\ \A i \in DOMAIN e.args : e.args[i] \in Expr
  BY ExprIsTyped
<1>1. StringIs(e, arg, t)
  BY <1>0, NodeStringIs
<1>2. k \in 0..CondDepth /\ k + 1 \in 0..CondDepth /\ k + 3 \in (k + 1)..CondDepth /\ k + 1 <= CondDepth
      /\ k + 3 \in k..CondDepth /\ k + 2 <= CondDepth /\ k + 2 \in 0..CondDepth /\ k + 2 \in Nat /\ k + 2 + 1 = k + 3
      /\ k + 3 \in (k + 2)..CondDepth
  BY DepthFacts
<1>3. ExprsUpTo[k + 1] \subseteq ExprsUpTo[k + 3] /\ ExprsUpTo[k + 2] \subseteq ExprsUpTo[k + 3]
  BY <1>2, ExprGrows
<1>4. CASE e.op \in {"col", "const"}
  BY <1>1, <1>4 DEF StringIs, FitsFor
<1>5. CASE e.op \in Mapped \cup {"~~", "!~~"}
  <2>1. \A i \in DOMAIN e.args : FitsFor(e.args[i], arg[i], k)
    BY <1>1, <1>5 DEF StringIs, LikeFunctions, Mapped
  <2>2. arg \in Seq(ExprsUpTo[k]) /\ Len(arg) = Len(e.args)
    <3>1. \A i \in 1..Len(e.args) : arg[i] \in ExprsUpTo[k]
      BY <1>0, <2>1 DEF FitsFor
    <3>2. arg = [i \in 1..Len(e.args) |-> arg[i]]
      BY <1>0
    <3>3. arg \in [1..Len(e.args) -> ExprsUpTo[k]]
      BY <3>1, <3>2
    <3> QED BY <1>0, <3>3
  <2>3. Typed(Op(e.op, arg))
    BY <1>0, <1>5, <2>1, <2>2, TypedMap DEF FitsFor
  <2>4. Op(e.op, arg) \in ExprsUpTo[k + 1]
    BY <1>0, <1>2, <2>2, <2>3, OpIs
  <2>5. t = Op(e.op, arg) /\ t.op = e.op
    BY <1>1, <1>5 DEF StringIs, Op
  <2> QED BY <1>3, <2>4, <2>5 DEF FitsFor, ReturnsText
<1>6. ASSUME e.op \in Comparisons \cup {"between"}, NEW j \in DOMAIN e.args, j # 1, NEW op \in Comparisons
      PROVE  LET u == Comparison(op, e, arg[1], arg[j]) IN
             u \in ExprsUpTo[k + 2] /\ ~ReturnsText(u)
  <2>1. 1 \in DOMAIN e.args /\ j \in {2, 3} /\ (e.op # "between" => j = 2)
    BY <1>0, <1>6 DEF Typed
  <2>2. ReturnsText(e.args[j]) <=> ReturnsText(e.args[1])
    BY <1>0, <1>6, <2>1 DEF Typed
  <2>3. FitsFor(e.args[1], arg[1], k) /\ FitsFor(e.args[j], arg[j], k)
    BY <1>1, <1>6, <2>1 DEF StringIs, LikeFunctions, Comparisons
  <2> DEFINE left == arg[1]
             right == arg[j]
  <2>4. /\ left \in ExprsUpTo[k] /\ right \in ExprsUpTo[k] /\ (ReturnsText(right) <=> ReturnsText(left))
    BY <2>2, <2>3 DEF FitsFor
  <2>5. ASSUME e.args[1].op = "not"
        PROVE  left.args[1] \in ExprsUpTo[k] /\ ~ReturnsText(left.args[1]) /\ ~ReturnsText(left)
    <3>1. left.op = "not"
      BY <2>3, <2>5 DEF FitsFor
    <3>2. left.op \in Ops /\ WellTyped(left) /\ DOMAIN left.args = 1..Len(left.args)
          /\ \A i \in DOMAIN left.args : left.args[i] \in ExprsUpTo[k]
      BY <1>2, <2>4, ExprArgs
    <3> HIDE DEF left
    <3>3. Len(left.args) = 1 /\ ~ReturnsText(left.args[1])
      BY <3>1, <3>2, WellTypedIs DEF Typed
    <3>4. 1 \in DOMAIN left.args
      BY <3>2, <3>3
    <3> QED BY <3>1, <3>2, <3>3, <3>4 DEF ReturnsText
  <2> HIDE DEF left, right
  <2>6. Comparison(op, e, left, right) \in ExprsUpTo[k + 2] /\ ~ReturnsText(Comparison(op, e, left, right))
    BY <1>2, <2>4, <2>5, ComparisonFits
  <2> QED BY <2>6 DEF left, right
<1>7. CASE e.op \in Comparisons
  <2>1. 2 \in DOMAIN e.args
    BY <1>0, <1>7 DEF Typed
  <2>2. t = Comparison(e.op, e, arg[1], arg[2])
    BY <1>1, <1>7 DEF StringIs
  <2>3. ~ReturnsText(e) /\ e.op # "not"
    BY <1>7 DEF ReturnsText, Comparisons
  <2>4. t \in ExprsUpTo[k + 2] /\ ~ReturnsText(t)
    BY <1>6, <1>7, <2>1, <2>2
  <2> QED BY <1>3, <2>3, <2>4 DEF FitsFor
<1>8. CASE e.op = "between"
  <2> DEFINE x == Comparison(">=", e, arg[1], arg[2])
             y == Comparison("<", e, arg[1], arg[3])
             args == <<x, y>>
  <2>1. 2 \in DOMAIN e.args /\ 3 \in DOMAIN e.args
    BY <1>0, <1>8 DEF Typed
  <2>2. t = Op("and", args)
    BY <1>1, <1>8 DEF StringIs
  <2>3. ">=" \in Comparisons /\ "<" \in Comparisons
    BY DEF Comparisons
  <2>4. x \in ExprsUpTo[k + 2] /\ ~ReturnsText(x) /\ y \in ExprsUpTo[k + 2] /\ ~ReturnsText(y)
    BY <1>6, <1>8, <2>1, <2>3
  <2> HIDE DEF x, y
  <2>5. args \in Seq(ExprsUpTo[k + 2]) /\ Len(args) = 2 /\ args[1] = x /\ args[2] = y
    BY <2>4, Tuples
  <2> HIDE DEF args
  <2>6. Op("and", args).op = "and" /\ Op("and", args).args = args
    BY DEF Op
  <2>7. \A i \in 1..2 : i = 1 \/ i = 2
    OBVIOUS
  <2>8. Typed(Op("and", args))
    BY <2>4, <2>5, <2>6, <2>7 DEF Typed, Comparisons
  <2>9. Op("and", args) \in ExprsUpTo[k + 2 + 1]
    BY <1>2, <2>5, <2>8, OpIs DEF Ops
  <2> QED BY <1>2, <1>8, <2>2, <2>6, <2>9 DEF FitsFor, ReturnsText
<1>9. ASSUME e.op \in LikeFunctions, NEW op \in {"like_escape", "ilike_escape"}, NEW b, NEW d,
             b \in ExprsUpTo[k + 1], ReturnsText(b), d \in ExprsUpTo[k + 1], ReturnsText(d),
             t = Op(op, <<arg[1], b, d>>)
      PROVE  FitsFor(e, t, k + 3)
  <2> DEFINE x == arg[1]
             args == <<x, b, d>>
  <2>1. 1 \in DOMAIN e.args
    BY <1>0, <1>9 DEF Typed, LikeFunctions
  <2>2. x \in ExprsUpTo[k]
    BY <1>1, <1>9, <2>1 DEF StringIs, FitsFor
  <2>3. x \in ExprsUpTo[k + 1]
    <3>1. k + 1 \in k..CondDepth
      BY <1>2
    <3> QED BY <1>2, <2>2, <3>1, ExprGrows
  <2>4. t = Op(op, args)
    BY <1>9
  <2> HIDE DEF x
  <2>5. args \in Seq(ExprsUpTo[k + 1]) /\ Len(args) = 3 /\ args[2] = b /\ args[3] = d
    BY <1>9, <2>3, Tuples
  <2> HIDE DEF args
  <2>6. Op(op, args).op = op /\ Op(op, args).args = args
    BY DEF Op
  <2>7. Typed(Op(op, args))
    BY <1>9, <2>5, <2>6 DEF Typed, Comparisons
  <2>8. op \in Ops /\ k + 1 \in Nat /\ k + 1 + 1 <= CondDepth /\ k + 1 + 1 = k + 2
    BY <1>2 DEF Ops, LikeFunctions
  <2>9. Op(op, args) \in ExprsUpTo[k + 1 + 1]
    BY <2>5, <2>7, <2>8, OpIs
  <2>10. ~ReturnsText(e) /\ e.op # "not" /\ ~ReturnsText(Op(op, args))
    BY <1>9, <2>6 DEF ReturnsText, LikeFunctions
  <2> QED BY <1>3, <2>4, <2>6, <2>8, <2>9, <2>10 DEF FitsFor
<1>10. CASE e.op \in {"like_escape", "ilike_escape"}
  <2>1. 2 \in DOMAIN e.args /\ 3 \in DOMAIN e.args /\ ReturnsText(e.args[2]) /\ ReturnsText(e.args[3])
    BY <1>0, <1>10 DEF Typed
  <2>2. arg[2] # Unsupported /\ arg[3] # Unsupported /\ t = Op(e.op, <<arg[1], arg[2], arg[3]>>)
    BY <1>1, <1>10 DEF StringIs
  <2>3. k + 1 \in k..CondDepth
    BY <1>2
  <2>4. ExprsUpTo[k] \subseteq ExprsUpTo[k + 1]
    BY <1>2, <2>3, ExprGrows
  <2>5. arg[2] \in ExprsUpTo[k + 1] /\ ReturnsText(arg[2]) /\ arg[3] \in ExprsUpTo[k + 1] /\ ReturnsText(arg[3])
    BY <2>1, <2>2, <2>4 DEF FitsFor
  <2>6. e.op \in LikeFunctions
    BY <1>10 DEF LikeFunctions
  <2> QED BY <1>9, <1>10, <2>2, <2>5, <2>6
<1>11. CASE e.op \in {"contains", "prefix", "suffix"}
  <2>1. t = Op("like_escape", <<arg[1], Needle(e), Const(<<"bs">>)>>) /\ 2 \in DOMAIN e.args
    BY <1>0, <1>1, <1>11 DEF StringIs, Typed
  <2>2. e.args[2].val \in Values
    BY <1>0, <2>1, ExprIsTyped
  <2>3. <<"bs">> \in Values
    <3>1. "bs" \in Chars
      BY DEF Chars
    <3>2. <<"bs">> \in Seq(Chars)
      BY <3>1, Tuples
    <3> QED BY <3>2 DEF Values, Texts
  <2>4. (IF e.args[2].val = Null THEN Null ELSE Pattern(e.op, e.args[2].val)) \in Values
    BY <1>11, <2>2, PatternType DEF Values
  <2>5. k + 1 \in 1..CondDepth
    BY <1>2
  <2>6. Needle(e) \in ExprsUpTo[k + 1] /\ ReturnsText(Needle(e))
    BY <2>4, <2>5, ConstIs DEF Needle
  <2>7. Const(<<"bs">>) \in ExprsUpTo[k + 1] /\ ReturnsText(Const(<<"bs">>))
    BY <2>3, <2>5, ConstIs
  <2>8. e.op \in LikeFunctions
    BY <1>11 DEF LikeFunctions
  <2> QED BY <1>9, <2>1, <2>6, <2>7, <2>8
<1> QED BY <1>0, <1>1, <1>4, <1>5, <1>7, <1>8, <1>10, <1>11 DEF Ops, Mapped, LikeFunctions, StringIs

\* The text of an expression is a tree that Postgres can parse.
LEMMA StringLevels ==
  \A n \in 0..MaxDepth : \A e \in ExprsUpTo[n] :
    ExpressionToString(e) # Unsupported => FitsFor(e, ExpressionToString(e), 3 * n)
<1> DEFINE Good(n) == \A e \in ExprsUpTo[n] : ExpressionToString(e) # Unsupported => FitsFor(e, ExpressionToString(e), 3 * n)
           T == {n \in Nat : n <= MaxDepth => Good(n)}
<1>1. 0 \in T
  BY ExprFacts
<1>2. ASSUME NEW n \in Nat, n \in T PROVE n + 1 \in T
  <2> SUFFICES ASSUME n + 1 <= MaxDepth, NEW e \in ExprsUpTo[n + 1], ExpressionToString(e) # Unsupported
               PROVE  FitsFor(e, ExpressionToString(e), 3 * (n + 1))
    OBVIOUS
  <2> DEFINE k == 3 * n
             arg == [i \in DOMAIN e.args |-> ExpressionToString(e.args[i])]
  <2>1. /\ k \in Nat /\ k + 3 = 3 * (n + 1) /\ k + 3 <= CondDepth /\ n + 1 \in 0..CondDepth /\ n + 1 - 1 = n
        /\ MaxDepth \in (n + 1)..CondDepth /\ k + 3 \in (n + 1)..CondDepth /\ n <= MaxDepth
    BY DepthFacts
  <2>2. e \in Expr /\ e \in ExprsUpTo[k + 3]
    BY <2>1, ExprGrows DEF Expr
  <2>3. \A i \in DOMAIN e.args : e.args[i] \in ExprsUpTo[n]
    <3> DEFINE m == n + 1
    <3>0. m \in 0..CondDepth /\ e \in ExprsUpTo[m] /\ m - 1 = n
      BY <2>1
    <3> HIDE DEF m
    <3>1. \A i \in DOMAIN e.args : e.args[i] \in ExprsUpTo[m - 1]
      BY <3>0, ExprArgs
    <3> QED BY <3>0, <3>1
  <2>4. Good(n)
    BY <1>2, <2>1
  <2>5. \A i \in DOMAIN e.args : arg[i] # Unsupported => FitsFor(e.args[i], arg[i], k)
    BY <2>3, <2>4
  <2>6. ExpressionToString(e) = NodeToString(e, arg)
    BY <2>2, StringUnfolds
  <2>7. DOMAIN arg = DOMAIN e.args /\ arg = [i \in DOMAIN e.args |-> arg[i]]
    OBVIOUS
  <2> HIDE DEF arg, k
  <2>8. FitsFor(e, ExpressionToString(e), k + 3)
    BY <2>1, <2>2, <2>5, <2>6, <2>7, StringFits
  <2> QED BY <2>1, <2>8
<1>3. \A n \in Nat : n \in T
  <2> HIDE DEF T
  <2> QED BY <1>1, <1>2, SetInduction
<1> QED BY <1>3

\* What ExpressionToString writes is a condition of the type of the expression.
LEMMA StringType ==
  ASSUME NEW e \in Expr, ExpressionToString(e) # Unsupported
  PROVE  /\ FitsFor(e, ExpressionToString(e), 3 * MaxDepth) /\ ExpressionToString(e) \in Condition
         /\ FitsFor(e, ExpressionToString(e), CondDepth)
<1>1. MaxDepth \in 0..MaxDepth /\ 3 * MaxDepth \in 0..CondDepth /\ CondDepth \in (3 * MaxDepth)..CondDepth
  BY DepthFacts
<1>2. FitsFor(e, ExpressionToString(e), 3 * MaxDepth)
  BY <1>1, StringLevels DEF Expr
<1>3. ExprsUpTo[3 * MaxDepth] \subseteq ExprsUpTo[CondDepth]
  BY <1>1, ExprGrows
<1> QED BY <1>2, <1>3 DEF FitsFor, Condition

-----------------------------------------------------------------------------
(* ExpressionToString: its value *)

\* The arguments of a tree of Postgres.
LEMMA ConditionArgs ==
  ASSUME NEW t \in Condition
  PROVE  /\ t.op \in Ops /\ Typed(t) /\ DOMAIN t.args = 1..Len(t.args)
         /\ \A i \in DOMAIN t.args : t.args[i] \in Condition
<1>1. /\ t.op \in Ops /\ WellTyped(t) /\ DOMAIN t.args = 1..Len(t.args)
      /\ \A i \in DOMAIN t.args : t.args[i] \in Condition
  BY DepthsOf, ExprArgs DEF Condition
<1> QED BY <1>1, WellTypedIs

\* The value of a negation.
LEMMA EvalNot ==
  ASSUME NEW t \in Condition, t.op = "not", NEW v, NEW db
  PROVE  /\ t.args[1] \in Condition /\ ~ReturnsText(t.args[1])
         /\ Eval(t, v, db) = Not3(Eval(t.args[1], v, db))
<1> DEFINE a == [i \in DOMAIN t.args |-> Eval(t.args[i], v, db)]
<1>1. /\ Typed(t) /\ DOMAIN t.args = 1..Len(t.args) /\ \A i \in DOMAIN t.args : t.args[i] \in Condition
  BY ConditionArgs
<1>2. ValueOf(t, a, v, db, Eval(t, v, db))
  BY EvalIs
<1>3. Len(t.args) = 1 /\ ~ReturnsText(t.args[1])
  BY <1>1 DEF Typed
<1>4. 1 \in DOMAIN t.args
  BY <1>1, <1>3
<1>5. a[1] = Eval(t.args[1], v, db)
  BY <1>4
<1> HIDE DEF a
<1> QED BY <1>1, <1>2, <1>3, <1>4, <1>5 DEF ValueOf

\* The value of a comparison.
LEMMA EvalCompare ==
  ASSUME NEW t \in Condition, t.op \in Comparisons, NEW v, NEW db
  PROVE  /\ t.args[1] \in Condition /\ t.args[2] \in Condition
         /\ Eval(t, v, db) = Compare(t.op, Eval(t.args[1], v, db), Eval(t.args[2], v, db), OrderFor(t.args[1], db))
<1> DEFINE a == [i \in DOMAIN t.args |-> Eval(t.args[i], v, db)]
<1>1. /\ Typed(t) /\ DOMAIN t.args = 1..Len(t.args) /\ \A i \in DOMAIN t.args : t.args[i] \in Condition
  BY ConditionArgs
<1>2. ValueOf(t, a, v, db, Eval(t, v, db))
  BY EvalIs
<1>3. Len(t.args) = 2
  BY <1>1 DEF Typed
<1>4. 1 \in DOMAIN t.args /\ 2 \in DOMAIN t.args
  BY <1>1, <1>3
<1>5. a[1] = Eval(t.args[1], v, db) /\ a[2] = Eval(t.args[2], v, db)
  BY <1>4
<1> HIDE DEF a
<1>6. Eval(t, v, db) = Compare(t.op, a[1], a[2], OrderOf(t, db))
  BY <1>2 DEF ValueOf
<1> QED BY <1>1, <1>4, <1>5, <1>6 DEF OrderOf

Both(p, q) == And3({p, q})
LikeValue(op, s, p, esc) ==
  IF Null \in {s, p, esc} THEN Null
  ELSE IF op = "like_escape" THEN Truth(Like(s, p, esc)) ELSE Truth(Like(Lowered(s), Lowered(p), esc))

\* The value of an AND of two.
LEMMA EvalBoth ==
  ASSUME NEW t \in Condition, t.op = "and", Len(t.args) = 2, NEW v, NEW db
  PROVE  Eval(t, v, db) = Both(Eval(t.args[1], v, db), Eval(t.args[2], v, db))
<1> DEFINE a == [i \in DOMAIN t.args |-> Eval(t.args[i], v, db)]
<1>1. /\ Typed(t) /\ DOMAIN t.args = 1..Len(t.args) /\ \A i \in DOMAIN t.args : t.args[i] \in Condition
  BY ConditionArgs
<1>2. ValueOf(t, a, v, db, Eval(t, v, db))
  BY EvalIs
<1>3. 1 \in DOMAIN t.args /\ 2 \in DOMAIN t.args /\ \A i \in DOMAIN t.args : i = 1 \/ i = 2
  BY <1>1
<1>4. a[1] = Eval(t.args[1], v, db) /\ a[2] = Eval(t.args[2], v, db) /\ DOMAIN a = DOMAIN t.args
  BY <1>3
<1> HIDE DEF a
<1>5. {a[i] : i \in DOMAIN a} = {a[1], a[2]}
  BY <1>3, <1>4
<1>6. Eval(t, v, db) = And3({a[i] : i \in DOMAIN a})
  BY <1>2 DEF ValueOf
<1> QED BY <1>4, <1>5, <1>6 DEF Both

\* The value of a LIKE with an escape.
LEMMA EvalLike ==
  ASSUME NEW t \in Condition, t.op \in {"like_escape", "ilike_escape"}, NEW v, NEW db
  PROVE  /\ t.args[1] \in Condition /\ t.args[2] \in Condition /\ t.args[3] \in Condition
         /\ Eval(t, v, db) = LikeValue(t.op, Eval(t.args[1], v, db), Eval(t.args[2], v, db), Eval(t.args[3], v, db))
<1> DEFINE a == [i \in DOMAIN t.args |-> Eval(t.args[i], v, db)]
<1>1. /\ Typed(t) /\ DOMAIN t.args = 1..Len(t.args) /\ \A i \in DOMAIN t.args : t.args[i] \in Condition
  BY ConditionArgs
<1>2. ValueOf(t, a, v, db, Eval(t, v, db))
  BY EvalIs
<1>3. Len(t.args) = 3
  BY <1>1 DEF Typed
<1>4. 1 \in DOMAIN t.args /\ 2 \in DOMAIN t.args /\ 3 \in DOMAIN t.args /\ \A i \in DOMAIN t.args : i = 1 \/ i = 2 \/ i = 3
  BY <1>1, <1>3
<1> DEFINE x == Eval(t.args[1], v, db)
           y == Eval(t.args[2], v, db)
           z == Eval(t.args[3], v, db)
<1>5. a[1] = x /\ a[2] = y /\ a[3] = z /\ DOMAIN a = DOMAIN t.args
  BY <1>4
<1> HIDE DEF a, x, y, z
<1>6. (\E i \in DOMAIN a : a[i] = Null) <=> Null \in {x, y, z}
  BY <1>4, <1>5
<1>7. Eval(t, v, db) = IF \E i \in DOMAIN a : a[i] = Null THEN Null ELSE Apply(t.op, a, db)
  BY <1>2 DEF ValueOf, Strict, LikeFunctions
<1>8. /\ t.op = "like_escape" => Apply(t.op, a, db) = Truth(Like(x, y, z))
      /\ t.op = "ilike_escape" => Apply(t.op, a, db) = Truth(Like(Lowered(x), Lowered(y), z))
  BY <1>5, ApplyIs
<1>9. t.args[1] \in Condition /\ t.args[2] \in Condition /\ t.args[3] \in Condition
  BY <1>1, <1>4
<1>10. Eval(t, v, db) = LikeValue(t.op, x, y, z)
  BY <1>6, <1>7, <1>8 DEF LikeValue
<1> QED BY <1>9, <1>10 DEF x, y, z

\* Negating the left side of an equality negates it.
LEMMA NotCompare ==
  ASSUME NEW o \in {"=", "<>"}, NEW x \in Logical, NEW y \in Logical, NEW order
  PROVE  Not3(Compare(o, x, y, order)) = Compare(o, Not3(x), y, order)
BY NullAssumption DEF Not3, Compare, Truth, Logical

\* A comparison that Comparison writes has the value of the comparison, NOT on
\* the left or not, if negating its left side negates it.
LEMMA EvalComparison ==
  ASSUME NEW op \in Comparisons, NEW e, NEW left \in Condition, NEW right \in Condition, NEW v, NEW db,
         Comparison(op, e, left, right) \in Condition, ReturnsText(right) <=> ReturnsText(left),
         e.args[1].op = "not" => op \in {"=", "<>"} /\ left.op = "not"
  PROVE  Eval(Comparison(op, e, left, right), v, db) =
           Compare(op, Eval(left, v, db), Eval(right, v, db), OrderFor(left, db))
<1> DEFINE t == Comparison(op, e, left, right)
<1>1. CASE e.args[1].op # "not"
  <2>1. t.op = op /\ t.args[1] = left /\ t.args[2] = right
    BY <1>1 DEF Comparison, Op
  <2> HIDE DEF t
  <2>2. Eval(t, v, db) = Compare(t.op, Eval(t.args[1], v, db), Eval(t.args[2], v, db), OrderFor(t.args[1], db))
    BY <2>1, EvalCompare DEF t
  <2> QED BY <2>1, <2>2 DEF t
<1>2. CASE e.args[1].op = "not"
  <2> DEFINE x == left.args[1]
             u == Op(op, <<x, right>>)
             z == Eval(x, v, db)
             y == Eval(right, v, db)
  <2>1. t.op = "not" /\ t.args[1] = u
    BY <1>2 DEF Comparison, Op
  <2>2. u.op = op /\ u.args[1] = x /\ u.args[2] = right
    BY DEF Op
  <2>3. left.op = "not" /\ op \in {"=", "<>"}
    BY <1>2
  <2>4. x \in Condition /\ ~ReturnsText(x) /\ Eval(left, v, db) = Not3(z)
    BY <2>3, EvalNot
  <2>5. ~ReturnsText(left)
    BY <2>3 DEF ReturnsText
  <2>6. z \in Logical /\ y \in Logical
    BY <2>4, <2>5, EvalLogical
  <2> HIDE DEF t, x, u
  <2>7. u \in Condition /\ Eval(t, v, db) = Not3(Eval(u, v, db))
    BY <2>1, EvalNot DEF t
  <2>8. Eval(u, v, db) = Compare(op, z, y, OrderFor(x, db))
    BY <2>2, <2>7, EvalCompare
  <2>9. OrderFor(x, db) = "boolean" /\ OrderFor(left, db) = "boolean"
    BY <2>4, <2>5 DEF OrderFor
  <2> HIDE DEF z, y
  <2>10. Not3(Compare(op, z, y, "boolean")) = Compare(op, Not3(z), y, "boolean")
    BY <2>3, <2>6, NotCompare
  <2>11. Eval(t, v, db) = Compare(op, Eval(left, v, db), y, OrderFor(left, db))
    BY <2>4, <2>7, <2>8, <2>9, <2>10
  <2> QED BY <2>11 DEF t, y
<1> QED BY <1>1, <1>2

\* One node: what NodeToString writes has the value of the node, if what the
\* arguments are written as has theirs.
LEMMA StringNodeValue ==
  ASSUME NEW e \in Expr, NEW v \in Values, NEW db, NEW c, ~NodeDiffers(e, c),
         NEW arg, DOMAIN arg = DOMAIN e.args,
         \A i \in DOMAIN e.args : arg[i] # Unsupported =>
           FitsFor(e.args[i], arg[i], CondDepth) /\ Eval(arg[i], v, db) = Eval(e.args[i], v, db),
         NEW t \in Condition, StringIs(e, arg, t)
  PROVE  Eval(t, v, db) = Eval(e, v, db)
<1> DEFINE a == [i \in DOMAIN e.args |-> Eval(e.args[i], v, db)]
           r == Eval(e, v, db)
<1>0. /\ e \in Condition /\ e.op \in Ops /\ Typed(e) /\ DOMAIN e.args = 1..Len(e.args)
      /\ \A i \in DOMAIN e.args : e.args[i] \in Expr
  BY ExprIsTyped
<1>1. ValueOf(e, a, v, db, r)
  BY <1>0, EvalIs
<1>2. \A i \in DOMAIN e.args : a[i] = Eval(e.args[i], v, db)
  OBVIOUS
<1>3. DOMAIN a = DOMAIN e.args
  OBVIOUS
<1> HIDE DEF a
<1>4. CASE e.op \in {"col", "const"}
  BY <1>4 DEF StringIs
<1>5. CASE e.op \in Mapped \cup {"~~", "!~~"}
  <2> DEFINE b == [i \in DOMAIN t.args |-> Eval(t.args[i], v, db)]
  <2>1. \A i \in DOMAIN e.args : arg[i] # Unsupported
    BY <1>5 DEF StringIs, LikeFunctions, Mapped
  <2>2. t.op = e.op /\ t.args = arg
    BY <1>5 DEF StringIs, Op
  <2>3. b = a
    <3>1. b = [i \in DOMAIN e.args |-> Eval(arg[i], v, db)]
      BY <2>2
    <3>2. \A i \in DOMAIN e.args : Eval(arg[i], v, db) = Eval(e.args[i], v, db)
      BY <2>1
    <3> QED BY <3>1, <3>2 DEF a
  <2>4. ValueOf(t, b, v, db, Eval(t, v, db))
    BY EvalIs
  <2> HIDE DEF b, r
  <2>5. ValueOf(t, a, v, db, Eval(t, v, db))
    BY <2>3, <2>4
  <2>6. Eval(t, v, db) = r
    BY <1>1, <1>5, <2>2, <2>5 DEF ValueOf, Mapped, Strict
  <2> QED BY <2>6 DEF r
<1>6. ASSUME e.op \in Comparisons \cup {"between"}, NEW j \in DOMAIN e.args, j # 1, NEW op \in Comparisons,
             Comparison(op, e, arg[1], arg[j]) \in Condition, e.args[1].op = "not" => op \in {"=", "<>"}
      PROVE  Eval(Comparison(op, e, arg[1], arg[j]), v, db) = Compare(op, a[1], a[j], OrderOf(e, db))
  <2> DEFINE left == arg[1]
             right == arg[j]
  <2>1. 1 \in DOMAIN e.args /\ j \in {2, 3} /\ (e.op # "between" => j = 2)
    BY <1>0, <1>6 DEF Typed
  <2>2. ReturnsText(e.args[j]) <=> ReturnsText(e.args[1])
    BY <1>0, <1>6, <2>1 DEF Typed
  <2>3. left # Unsupported /\ right # Unsupported
    BY <1>6, <2>1 DEF StringIs, LikeFunctions, Comparisons
  <2>4. FitsFor(e.args[1], left, CondDepth) /\ FitsFor(e.args[j], right, CondDepth)
    BY <2>1, <2>3
  <2>5. Eval(left, v, db) = a[1] /\ Eval(right, v, db) = a[j]
    BY <1>2, <2>1, <2>3
  <2>6. Comparison(op, e, left, right) \in Condition
    BY <1>6
  <2> HIDE DEF left, right
  <2>7. left \in Condition /\ right \in Condition /\ (ReturnsText(right) <=> ReturnsText(left))
        /\ (e.args[1].op = "not" => left.op = "not") /\ (ReturnsText(left) <=> ReturnsText(e.args[1]))
    BY <2>2, <2>4 DEF FitsFor, Condition
  <2>8. Eval(Comparison(op, e, left, right), v, db) =
          Compare(op, Eval(left, v, db), Eval(right, v, db), OrderFor(left, db))
    BY <1>6, <2>6, <2>7, EvalComparison
  <2>9. OrderFor(left, db) = OrderOf(e, db)
    BY <2>7 DEF OrderOf, OrderFor
  <2> QED BY <2>5, <2>8, <2>9 DEF left, right
<1>7. CASE e.op \in Comparisons
  <2>1. 2 \in DOMAIN e.args
    BY <1>0, <1>7 DEF Typed
  <2>2. t = Comparison(e.op, e, arg[1], arg[2])
    BY <1>7 DEF StringIs
  <2>3. e.args[1].op = "not" => e.op \in {"=", "<>"}
    BY <1>7 DEF NodeDiffers, Comparisons
  <2>4. Eval(t, v, db) = Compare(e.op, a[1], a[2], OrderOf(e, db))
    BY <1>6, <1>7, <2>1, <2>2, <2>3
  <2> HIDE DEF r
  <2>5. r = Compare(e.op, a[1], a[2], OrderOf(e, db))
    BY <1>1, <1>7 DEF ValueOf
  <2> QED BY <2>4, <2>5 DEF r
<1>8. CASE e.op = "between"
  <2> DEFINE x == Comparison(">=", e, arg[1], arg[2])
             y == Comparison("<", e, arg[1], arg[3])
             p == Compare(">=", a[1], a[2], OrderOf(e, db))
             q == Compare("<", a[1], a[3], OrderOf(e, db))
  <2>1. 2 \in DOMAIN e.args /\ 3 \in DOMAIN e.args /\ 2 # 1 /\ 3 # 1
    BY <1>0, <1>8 DEF Typed
  <2>2. t.op = "and" /\ t.args = <<x, y>>
    BY <1>8 DEF StringIs, Op
  <2>3. Len(t.args) = 2 /\ t.args[1] = x /\ t.args[2] = y
    <3> HIDE DEF x, y
    <3> QED BY <2>2
  <2>4. e.args[1].op # "not" /\ ">=" \in Comparisons /\ "<" \in Comparisons
    BY <1>8 DEF NodeDiffers, Comparisons
  <2>5. x \in Condition /\ y \in Condition
    <3>1. 1 \in DOMAIN t.args /\ 2 \in DOMAIN t.args
      <4>1. DOMAIN t.args = 1..Len(t.args)
        BY ConditionArgs
      <4> QED BY <2>3, <4>1
    <3> QED BY <2>3, <3>1, ConditionArgs
  <2>6. Eval(x, v, db) = p /\ Eval(y, v, db) = q
    BY <1>6, <1>8, <2>1, <2>4, <2>5
  <2>7. Eval(t, v, db) = Both(Eval(t.args[1], v, db), Eval(t.args[2], v, db))
    BY <2>2, <2>3, EvalBoth
  <2>8. r = Both(p, q)
    <3> HIDE DEF r
    <3> QED BY <1>1, <1>8 DEF ValueOf, Both
  <2> HIDE DEF r, x, y, p, q
  <2> QED BY <2>3, <2>6, <2>7, <2>8 DEF r
<1>9. CASE e.op \in {"like_escape", "ilike_escape"}
  <2>1. 1 \in DOMAIN e.args /\ 2 \in DOMAIN e.args /\ 3 \in DOMAIN e.args
    BY <1>0, <1>9 DEF Typed
  <2>2. arg[1] # Unsupported /\ arg[2] # Unsupported /\ arg[3] # Unsupported
    BY <1>9 DEF StringIs, LikeFunctions
  <2>3. t.op = e.op /\ t.args[1] = arg[1] /\ t.args[2] = arg[2] /\ t.args[3] = arg[3]
    BY <1>9 DEF StringIs, Op
  <2>4. /\ Eval(e.args[1], v, db) = Eval(t.args[1], v, db) /\ Eval(e.args[2], v, db) = Eval(t.args[2], v, db)
        /\ Eval(e.args[3], v, db) = Eval(t.args[3], v, db)
    BY <2>1, <2>2, <2>3
  <2>5. t.op \in {"like_escape", "ilike_escape"}
    BY <1>9, <2>3
  <2>6. /\ Eval(t, v, db) = LikeValue(t.op, Eval(t.args[1], v, db), Eval(t.args[2], v, db), Eval(t.args[3], v, db))
        /\ Eval(e, v, db) = LikeValue(e.op, Eval(e.args[1], v, db), Eval(e.args[2], v, db), Eval(e.args[3], v, db))
    BY <1>0, <1>9, <2>5, EvalLike
  <2> QED BY <2>3, <2>4, <2>6
<1>10. CASE e.op \in {"contains", "prefix", "suffix"}
  <2> DEFINE s == a[1]
             n == e.args[2].val
             p == IF n = Null THEN Null ELSE Pattern(e.op, n)
  <2>1. /\ Len(e.args) = 2 /\ 1 \in DOMAIN e.args /\ 2 \in DOMAIN e.args /\ e.args[2].op = "const"
        /\ ReturnsText(e.args[1]) /\ arg[1] # Unsupported
        /\ t = Op("like_escape", <<arg[1], Needle(e), Const(<<"bs">>)>>)
    BY <1>0, <1>10 DEF Typed, StringIs, LikeFunctions
  <2>2. t.op = "like_escape" /\ t.args[1] = arg[1] /\ t.args[2] = Needle(e) /\ t.args[3] = Const(<<"bs">>)
    BY <2>1 DEF Op
  <2>3. s \in Values /\ n \in Values /\ a[2] = n
    <3>1. s = Eval(e.args[1], v, db) /\ e.args[1] \in Condition
      BY <1>0, <1>2, <2>1, ExprIsTyped
    <3>2. a[2] = Eval(e.args[2], v, db) /\ e.args[2] \in Condition /\ n \in Values
      BY <1>0, <1>2, <2>1, ExprIsTyped
    <3>3. s \in Values
      BY <2>1, <3>1, EvalText
    <3> QED BY <2>1, <3>2, <3>3, EvalConst
  <2>4. Eval(t.args[1], v, db) = s
    BY <1>2, <2>1, <2>2
  <2>5. t.args[2] \in Condition /\ t.args[3] \in Condition
    BY <2>2, EvalLike
  <2>6. t.args[2].op = "const" /\ t.args[2].val = p /\ t.args[3].op = "const" /\ t.args[3].val = <<"bs">>
    BY <2>2 DEF Needle, Const
  <2>7. Eval(t.args[2], v, db) = p /\ Eval(t.args[3], v, db) = <<"bs">>
    <3>1. Eval(t.args[2], v, db) = t.args[2].val
      BY <2>5, <2>6, EvalConst
    <3>2. Eval(t.args[3], v, db) = t.args[3].val
      BY <2>5, <2>6, EvalConst
    <3> HIDE DEF p
    <3> QED BY <2>6, <3>1, <3>2
  <2>8. <<"bs">> # Null
    <3>1. "bs" \in Chars
      BY DEF Chars
    <3>2. <<"bs">> \in Texts
      BY <3>1, Tuples DEF Texts
    <3> QED BY <3>2, LogicalTypes
  <2> HIDE DEF r, s, n, p
  <2>9. /\ s = Null \/ p = Null => Eval(t, v, db) = Null
        /\ s # Null /\ p # Null => Eval(t, v, db) = Truth(Like(s, p, <<"bs">>))
    <3>1. Eval(t, v, db) = LikeValue(t.op, Eval(t.args[1], v, db), Eval(t.args[2], v, db), Eval(t.args[3], v, db))
      BY <2>2, EvalLike
    <3>2. Eval(t, v, db) = LikeValue("like_escape", s, p, <<"bs">>)
      BY <2>2, <2>4, <2>7, <3>1
    <3> QED BY <2>8, <3>2 DEF LikeValue
  <2>10. r = IF \E i \in DOMAIN a : a[i] = Null THEN Null ELSE Apply(e.op, a, db)
    BY <1>1, <1>10 DEF ValueOf, Strict, LikeFunctions
  <2>11. (\E i \in DOMAIN a : a[i] = Null) <=> s = Null \/ n = Null
    <3>1. \A i \in DOMAIN e.args : i = 1 \/ i = 2
      BY <1>0, <2>1
    <3> QED BY <1>3, <2>1, <2>3, <3>1 DEF s
  <2>12. ASSUME s # Null, n # Null PROVE Apply(e.op, a, db) = Truth(Like(s, p, <<"bs">>)) /\ p # Null
    <3>1. s \in Texts /\ n \in Texts /\ p = Pattern(e.op, n)
      BY <2>3, <2>12 DEF Values, p
    <3>2. p \in Texts
      BY <1>10, <3>1, PrefixLike, SuffixLike, ContainsLike
    <3>3. /\ e.op = "prefix" => Apply(e.op, a, db) = Truth(Prefix(s, n))
          /\ e.op = "suffix" => Apply(e.op, a, db) = Truth(Suffix(s, n))
          /\ e.op = "contains" => Apply(e.op, a, db) = Truth(Contains(s, n))
      BY <2>3, ApplyIs DEF s
    <3>4. /\ e.op = "prefix" => (Like(s, p, <<"bs">>) <=> Prefix(s, n))
          /\ e.op = "suffix" => (Like(s, p, <<"bs">>) <=> Suffix(s, n))
          /\ e.op = "contains" => (Like(s, p, <<"bs">>) <=> Contains(s, n))
      BY <3>1, PrefixLike, SuffixLike, ContainsLike
    <3>5. p # Null
      BY <3>2, LogicalTypes
    <3> QED BY <1>10, <3>3, <3>4, <3>5 DEF Truth
  <2>13. n = Null => p = Null
    BY DEF p
  <2>14. CASE s = Null \/ n = Null
    BY <2>9, <2>10, <2>11, <2>13, <2>14 DEF r
  <2>15. CASE s # Null /\ n # Null
    BY <2>8, <2>9, <2>10, <2>11, <2>12, <2>15 DEF r
  <2> QED BY <2>14, <2>15
<1> QED BY <1>0, <1>4, <1>5, <1>7, <1>8, <1>9, <1>10 DEF Ops, Mapped, LikeFunctions, StringIs

\* What ExpressionToString writes has the value of the expression, in either database.
LEMMA StringValue ==
  ASSUME NEW v \in Values, NEW db, NEW c
  PROVE  \A e \in Expr : ~Differs(e, c) /\ ExpressionToString(e) # Unsupported =>
           Eval(ExpressionToString(e), v, db) = Eval(e, v, db)
<1> DEFINE G == {e \in Expr : ~Differs(e, c) /\ ExpressionToString(e) # Unsupported =>
                                Eval(ExpressionToString(e), v, db) = Eval(e, v, db)}
<1>1. ASSUME NEW e \in Expr, \A i \in DOMAIN e.args : e.args[i] \in G, ~Differs(e, c),
             ExpressionToString(e) # Unsupported
      PROVE  Eval(ExpressionToString(e), v, db) = Eval(e, v, db)
  <2> DEFINE arg == [i \in DOMAIN e.args |-> ExpressionToString(e.args[i])]
             t == ExpressionToString(e)
  <2>0. e.op \in Ops /\ Typed(e) /\ \A i \in DOMAIN e.args : e.args[i] \in Expr
    BY ExprIsTyped
  <2>1. ~NodeDiffers(e, c) /\ \A i \in DOMAIN e.args : ~Differs(e.args[i], c)
    BY <1>1, NodesFacts DEF Differs
  <2>2. \A i \in DOMAIN e.args : arg[i] # Unsupported =>
          FitsFor(e.args[i], arg[i], CondDepth) /\ Eval(arg[i], v, db) = Eval(e.args[i], v, db)
    BY <1>1, <2>0, <2>1, StringType
  <2>3. t = NodeToString(e, arg) /\ t \in Condition
    BY <1>1, StringUnfolds, StringType
  <2>4. DOMAIN arg = DOMAIN e.args
    OBVIOUS
  <2> HIDE DEF arg, t
  <2>5. StringIs(e, arg, t)
    BY <1>1, <2>0, <2>3, NodeStringIs DEF t
  <2>6. Eval(t, v, db) = Eval(e, v, db)
    BY <2>1, <2>2, <2>3, <2>4, <2>5, StringNodeValue
  <2> QED BY <2>6 DEF t
<1>2. \A e \in ExprsUpTo[MaxDepth] : e \in G
  <2>1. \A e \in ExprsUpTo[MaxDepth] : (\A i \in DOMAIN e.args : e.args[i] \in G) => e \in G
    BY <1>1 DEF Expr
  <2> HIDE DEF G
  <2> QED BY DepthsOf, <2>1, ExprInduction
<1> QED BY <1>2 DEF Expr

-----------------------------------------------------------------------------
(* Filters *)

\* The parts of a filter, and its children.
LEMMA FilterIsFormed ==
  ASSUME NEW f \in TableFilter
  PROVE  /\ f.type \in FilterTypes /\ f.expr \in Expr \cup {None} /\ DOMAIN f.kids = 1..Len(f.kids) /\ Len(f.kids) \in Nat
         /\ \A i \in DOMAIN f.kids : f.kids[i] \in TableFilter
         /\ f.type \in {"and", "or"} => Len(f.kids) > 0
         /\ f.type = "optional" => Len(f.kids) = 1
         /\ f.type \notin {"and", "or", "optional"} => f.expr \in Expr /\ f.expr # None /\ ~ReturnsText(f.expr)
         /\ f.type = "expression" => ExpressionToString(f.expr) # Unsupported
<1>0. MaxDepth + 1 \in 0..(MaxDepth + 1)
  BY DepthFacts
<1>1. /\ f.type \in FilterTypes /\ f.expr \in Expr \cup {None} /\ DOMAIN f.kids = 1..Len(f.kids)
      /\ \A i \in DOMAIN f.kids : f.kids[i] \in TableFilter
      /\ WellFormed(f)
  BY <1>0, FilterKids DEF TableFilter
<1>2. Len(f.kids) \in Nat
  <2> DEFINE m == MaxDepth + 1
  <2>1. m \in 0..(MaxDepth + 1) /\ f \in FiltersUpTo[m]
    BY <1>0 DEF TableFilter
  <2> HIDE DEF m
  <2>2. f.kids \in Seq(FiltersUpTo[m - 1])
    BY <2>1, FilterKids
  <2> QED BY <2>2
<1>3. /\ f.type \in {"and", "or"} => Len(f.kids) > 0
      /\ f.type = "optional" => Len(f.kids) = 1
      /\ f.type \notin {"and", "or", "optional"} => f.expr # None /\ ~ReturnsText(f.expr)
      /\ f.type = "expression" => PostgresScanPushdownExpression(f.expr)
  BY <1>1 DEF WellFormed
<1> QED BY <1>1, <1>2, <1>3 DEF PostgresScanPushdownExpression

\* Holds, one equivalence for each kind of filter.
LEMMA HoldsIs ==
  ASSUME NEW f \in TableFilter, NEW v, NEW scope
  PROVE  /\ f.type = "and" =>
              (Holds(f, v, scope) = "true" <=> \A i \in DOMAIN f.kids : Holds(f.kids[i], v, scope) = "true")
         /\ f.type = "or" =>
              (Holds(f, v, scope) = "true" <=> \E i \in DOMAIN f.kids : Holds(f.kids[i], v, scope) = "true")
         /\ f.type = "optional" =>
              (Holds(f, v, scope) = "true" <=> scope = "required" \/ Holds(f.kids[1], v, scope) = "true")
         /\ f.type \notin {"and", "or", "optional"} =>
              (Holds(f, v, scope) = "true" <=> Eval(f.expr, v, DuckDB) = "true")
<1> DEFINE h == [i \in DOMAIN f.kids |-> Holds(f.kids[i], v, scope)]
<1>1. Holds(f, v, scope) = HoldsNode(f, h, v, scope)
  BY HoldsUnfolds
<1>2. DOMAIN h = DOMAIN f.kids /\ \A i \in DOMAIN f.kids : h[i] = Holds(f.kids[i], v, scope)
  OBVIOUS
<1>3. f.type = "optional" => 1 \in DOMAIN f.kids
  BY FilterIsFormed
<1> HIDE DEF h
<1>4. \A p : Truth(p) = "true" <=> p
  BY DEF Truth
<1>5. CASE f.type = "and"
  BY <1>1, <1>2, <1>5 DEF HoldsNode, Truth
<1>6. CASE f.type = "or"
  BY <1>1, <1>2, <1>6 DEF HoldsNode, Truth
<1>7. CASE f.type = "optional"
  BY <1>1, <1>2, <1>3, <1>7 DEF HoldsNode, Truth
<1>8. CASE f.type \notin {"and", "or", "optional"}
  BY <1>1, <1>8 DEF HoldsNode, Truth
<1> QED BY <1>5, <1>6, <1>7, <1>8

\* The parts of a filter include those of its children, unless they are optional.
LEMMA PartsFacts ==
  ASSUME NEW f \in TableFilter, NEW scope
  PROVE  /\ f \in Parts(f, scope)
         /\ f.type # "optional" \/ scope # "required" =>
              \A i \in DOMAIN f.kids : Parts(f.kids[i], scope) \subseteq Parts(f, scope)
<1> DEFINE below == [i \in DOMAIN f.kids |-> Parts(f.kids[i], scope)]
<1>1. Parts(f, scope) = PartsOf(f, below, scope)
  BY PartsUnfold
<1>2. \A i \in DOMAIN f.kids : Parts(f.kids[i], scope) \in Range(below)
  BY DEF Range
<1> HIDE DEF below
<1> QED BY <1>1, <1>2 DEF PartsOf

\* The conditions of the children that are kept.
KeptConds(kids, k) == {kids[i].cond : i \in {j \in 1..k : kids[j].count > 0}}

\* The loop of Join after k children.
Joined(type, kids, k, s) ==
  /\ s.ended \in {"no", "failed", "dropped"}
  /\ s.conds \in Seq(KeptConds(kids, k))
  /\ s.ended = "no" => /\ KeptConds(kids, k) \subseteq Range(s.conds)
                       /\ \A i \in 1..k : kids[i].count >= 0 /\ (kids[i].count = 0 => type # "or")
  /\ s.ended = "failed" => \E i \in 1..k : kids[i].count < 0
  /\ s.ended = "dropped" => type = "or" /\ \E i \in 1..k : kids[i].count = 0

\* The elements of a sequence that grows.
LEMMA AppendRange ==
  ASSUME NEW S, NEW s \in Seq(S), NEW x \in S
  PROVE  Append(s, x) \in Seq(S) /\ Range(s) \subseteq Range(Append(s, x)) /\ x \in Range(Append(s, x))
<1>1. /\ Append(s, x) \in Seq(S) /\ DOMAIN s = 1..Len(s) /\ DOMAIN Append(s, x) = 1..(Len(s) + 1) /\ Len(s) \in Nat
      /\ Append(s, x)[Len(s) + 1] = x /\ \A i \in 1..Len(s) : Append(s, x)[i] = s[i]
  OBVIOUS
<1>2. Len(s) + 1 \in 1..(Len(s) + 1) /\ \A i \in 1..Len(s) : i \in 1..(Len(s) + 1)
  BY <1>1
<1> DEFINE t == Append(s, x)
<1> HIDE DEF t
<1> QED BY <1>1, <1>2 DEF Range

\* The conditions kept, one child more.
LEMMA KeptGrows ==
  ASSUME NEW kids, NEW k \in Nat
  PROVE  /\ KeptConds(kids, k) \subseteq KeptConds(kids, k + 1)
         /\ kids[k + 1].count > 0 => kids[k + 1].cond \in KeptConds(kids, k + 1)
         /\ ~(kids[k + 1].count > 0) => KeptConds(kids, k + 1) = KeptConds(kids, k)
         /\ KeptConds(kids, k + 1) \subseteq KeptConds(kids, k) \cup {kids[k + 1].cond}
<1>1. \A j \in 1..k : j \in 1..(k + 1)
  OBVIOUS
<1>2. \A j \in 1..(k + 1) : j = k + 1 \/ j \in 1..k
  OBVIOUS
<1>3. k + 1 \in 1..(k + 1)
  OBVIOUS
<1> QED BY <1>1, <1>2, <1>3 DEF KeptConds

\* One round of the loop over the children.
LEMMA JoinLoopStep ==
  ASSUME NEW type \in {"and", "or"}, NEW kids, NEW k \in Nat, NEW s, Joined(type, kids, k, s),
         s = [ended |-> s.ended, conds |-> s.conds], kids[k + 1].count \in Int
  PROVE  Joined(type, kids, k + 1, JoinStep(type, s, kids[k + 1]))
         /\ JoinStep(type, s, kids[k + 1]) =
              [ended |-> JoinStep(type, s, kids[k + 1]).ended, conds |-> JoinStep(type, s, kids[k + 1]).conds]
<1> DEFINE kid == kids[k + 1]
           S == KeptConds(kids, k)
           W == KeptConds(kids, k + 1)
           t == JoinStep(type, s, kid)
<1>1. k + 1 \in 1..(k + 1) /\ \A i \in 1..k : i \in 1..(k + 1)
  OBVIOUS
<1>2. \A i \in 1..(k + 1) : i = k + 1 \/ i \in 1..k
  OBVIOUS
<1>3. S \subseteq W /\ (kid.count > 0 => kid.cond \in W) /\ (~(kid.count > 0) => W = S) /\ W \subseteq S \cup {kid.cond}
  BY KeptGrows
<1>4. s.conds \in Seq(S) /\ s.conds \in Seq(W)
  BY <1>3 DEF Joined
<1> HIDE DEF S, W
<1>5. CASE s.ended # "no"
  <2>1. t = s
    BY <1>5 DEF JoinStep
  <2> QED BY <1>1, <1>4, <1>5, <2>1 DEF Joined, W
<1>6. CASE s.ended = "no" /\ kid.count < 0
  <2>1. t = [ended |-> "failed", conds |-> s.conds]
    BY <1>6 DEF JoinStep
  <2> QED BY <1>1, <1>4, <1>6, <2>1 DEF Joined, W
<1>7. CASE s.ended = "no" /\ kid.count > 0
  <2> DEFINE cs == Append(s.conds, kid.cond)
  <2>0. t = [s EXCEPT !.conds = cs]
    <3>1. ~(kid.count < 0)
      BY <1>7
    <3> QED BY <1>7, <3>1 DEF JoinStep
  <2>1. t = [ended |-> "no", conds |-> cs]
    <3> HIDE DEF cs, t
    <3> QED BY <1>7, <2>0
  <2>2. cs \in Seq(W) /\ Range(s.conds) \subseteq Range(cs) /\ kid.cond \in Range(cs)
    BY <1>3, <1>4, <1>7, AppendRange
  <2>3. S \subseteq Range(s.conds) /\ \A i \in 1..k : kids[i].count >= 0 /\ (kids[i].count = 0 => type # "or")
    BY <1>7 DEF Joined, S
  <2> HIDE DEF cs
  <2>4. W \subseteq Range(cs)
    BY <1>3, <2>2, <2>3
  <2>5. \A i \in 1..(k + 1) : kids[i].count >= 0 /\ (kids[i].count = 0 => type # "or")
    BY <1>2, <1>7, <2>3
  <2>6. t.ended = "no" /\ t.conds = cs /\ t = [ended |-> "no", conds |-> cs]
    <3> HIDE DEF t
    <3> QED BY <2>1
  <2> HIDE DEF t
  <2>7. Joined(type, kids, k + 1, t)
    BY <2>2, <2>4, <2>5, <2>6 DEF Joined, W
  <2> QED BY <2>6, <2>7 DEF t
<1>8. CASE s.ended = "no" /\ kid.count = 0 /\ type = "or"
  <2>1. t = [ended |-> "dropped", conds |-> s.conds]
    BY <1>8 DEF JoinStep
  <2> QED BY <1>1, <1>4, <1>8, <2>1 DEF Joined, W
<1>9. CASE s.ended = "no" /\ kid.count = 0 /\ type # "or"
  <2>1. t = s
    BY <1>9 DEF JoinStep
  <2>2. \A i \in 1..(k + 1) : kids[i].count >= 0 /\ (kids[i].count = 0 => type # "or")
    BY <1>2, <1>9 DEF Joined
  <2>3. W = S
    BY <1>3, <1>9
  <2>4. Joined(type, kids, k + 1, s)
    BY <1>4, <1>9, <2>2, <2>3 DEF Joined, W, S
  <2> QED BY <2>1, <2>4
<1> QED BY <1>5, <1>6, <1>7, <1>8, <1>9

\* What Join returns: an error, nothing, or all the conditions that were kept.
LEMMA JoinIs ==
  ASSUME NEW type \in {"and", "or"}, NEW W, NEW kids \in Seq(W), Len(kids) > 0, \A i \in 1..Len(kids) : kids[i].count \in Int
  PROVE  \/ Join(type, kids) = Failed /\ \E i \in 1..Len(kids) : kids[i].count < 0
         \/ /\ Join(type, kids) = Dropped
            /\ \/ type = "or" /\ \E i \in 1..Len(kids) : kids[i].count = 0
               \/ type = "and" /\ \A i \in 1..Len(kids) : kids[i].count = 0
         \/ \E cs \in Seq(KeptConds(kids, Len(kids))) :
              /\ Len(cs) > 0 /\ KeptConds(kids, Len(kids)) \subseteq Range(cs)
              /\ Join(type, kids) = [count |-> Len(cs), cond |-> Op(type, cs)]
              /\ \A i \in 1..Len(kids) : kids[i].count >= 0 /\ (type = "or" => kids[i].count > 0)
<1> DEFINE L == Len(kids)
           loop == JoinLoop(type, kids)
           Good(k) == Joined(type, kids, k, loop[k]) /\ loop[k] = [ended |-> loop[k].ended, conds |-> loop[k].conds]
           T == {k \in Nat : k <= L => Good(k)}
<1>0. L \in Nat
  OBVIOUS
<1>1. \A k \in 0..L : loop[k] = IF k = 0 THEN [ended |-> "no", conds |-> <<>>] ELSE JoinStep(type, loop[k - 1], kids[k])
  BY JoinUnfolds
<1>x. Join(type, kids) = IF loop[L].ended = "failed" THEN Failed
                         ELSE IF loop[L].ended = "dropped" \/ loop[L].conds = <<>> THEN Dropped
                         ELSE [count |-> Len(loop[L].conds), cond |-> Op(type, loop[L].conds)]
  BY DEF Join
<1> HIDE DEF loop
<1>2. 0 \in T
  <2>1. loop[0] = [ended |-> "no", conds |-> <<>>]
    BY <1>0, <1>1
  <2>2. KeptConds(kids, 0) = {}
    BY DEF KeptConds
  <2>3. Good(0)
    BY <2>1, <2>2 DEF Joined
  <2> HIDE DEF Good
  <2> QED BY <2>3
<1>3. ASSUME NEW k \in Nat, k \in T PROVE k + 1 \in T
  <2> SUFFICES ASSUME k + 1 <= L PROVE Good(k + 1)
    OBVIOUS
  <2>1. k + 1 \in 0..L /\ k + 1 # 0 /\ k + 1 - 1 = k /\ k <= L /\ k + 1 \in 1..L
    BY <1>0
  <2>2. loop[k + 1] = JoinStep(type, loop[k], kids[k + 1])
    BY <1>1, <2>1
  <2>3. Good(k)
    BY <1>3, <2>1
  <2>4. kids[k + 1].count \in Int
    BY <2>1
  <2> QED BY <2>2, <2>3, <2>4, JoinLoopStep
<1>4. \A k \in Nat : k \in T
  <2> HIDE DEF T
  <2> QED BY <1>2, <1>3, SetInduction
<1>5. Good(L)
  <2>1. L \in T /\ L <= L
    <3> HIDE DEF T
    <3> QED BY <1>0, <1>4
  <2> HIDE DEF Good
  <2> QED BY <2>1
<1> DEFINE cs == loop[L].conds
           S == KeptConds(kids, L)
<1>6. /\ loop[L].ended \in {"no", "failed", "dropped"} /\ cs \in Seq(S)
      /\ loop[L].ended = "no" => S \subseteq Range(cs) /\ \A i \in 1..L : kids[i].count >= 0 /\ (kids[i].count = 0 => type # "or")
      /\ loop[L].ended = "failed" => \E i \in 1..L : kids[i].count < 0
      /\ loop[L].ended = "dropped" => type = "or" /\ \E i \in 1..L : kids[i].count = 0
  BY <1>5 DEF Joined
<1> HIDE DEF cs, S
<1>7. CASE loop[L].ended = "failed"
  BY <1>6, <1>7, <1>x
<1>8. CASE loop[L].ended = "dropped"
  BY <1>6, <1>8, <1>x
<1>9. CASE loop[L].ended = "no" /\ cs = <<>>
  <2>1. Join(type, kids) = Dropped
    BY <1>9, <1>x DEF cs
  <2>2. S = {}
    <3>1. Range(cs) = {}
      BY <1>9 DEF Range
    <3> QED BY <1>6, <1>9, <3>1
  <2>3. \A i \in 1..L : ~(kids[i].count > 0)
    BY <2>2 DEF S, KeptConds
  <2>4. \A i \in 1..L : kids[i].count = 0
    BY <1>6, <1>9, <2>3
  <2>5. 1 \in 1..L
    BY <1>0
  <2> QED BY <2>1, <2>4, <2>5
<1>10. CASE loop[L].ended = "no" /\ cs # <<>>
  <2>1. Join(type, kids) = [count |-> Len(cs), cond |-> Op(type, cs)]
    BY <1>10, <1>x DEF cs
  <2>2. Len(cs) > 0
    BY <1>6, <1>10
  <2>3. \A i \in 1..L : kids[i].count >= 0 /\ (type = "or" => kids[i].count > 0)
    BY <1>6, <1>10
  <2> QED BY <1>6, <1>10, <2>1, <2>2, <2>3 DEF S
<1> QED BY <1>6, <1>7, <1>8, <1>9, <1>10


-----------------------------------------------------------------------------
(* Extraction *)

\* An AND is true iff all its arguments are.
LEMMA EvalAnd ==
  ASSUME NEW t \in Condition, t.op = "and", NEW v, NEW db
  PROVE  Eval(t, v, db) = "true" <=> \A i \in DOMAIN t.args : Eval(t.args[i], v, db) = "true"
<1> DEFINE a == [i \in DOMAIN t.args |-> Eval(t.args[i], v, db)]
<1>1. Eval(t, v, db) = And3({a[i] : i \in DOMAIN a})
  <2>1. ValueOf(t, a, v, db, Eval(t, v, db))
    BY EvalIs
  <2> HIDE DEF a
  <2> QED BY <2>1 DEF ValueOf
<1>2. DOMAIN a = DOMAIN t.args /\ \A i \in DOMAIN t.args : a[i] = Eval(t.args[i], v, db)
  OBVIOUS
<1>3. \A i \in DOMAIN t.args : a[i] \in Logical
  <2> SUFFICES ASSUME NEW i \in DOMAIN t.args PROVE Eval(t.args[i], v, db) \in Logical
    OBVIOUS
  <2>1. t.args[i] \in Condition /\ ~ReturnsText(t.args[i])
    BY ConditionArgs DEF Typed
  <2> QED BY <2>1, EvalLogical
<1> HIDE DEF a
<1> DEFINE S == {a[i] : i \in DOMAIN a}
<1>4. And3(S) = "true" <=> "false" \notin S /\ Null \notin S
  BY LogicalTypes DEF And3
<1>5. "false" \notin S /\ Null \notin S <=> \A i \in DOMAIN t.args : a[i] = "true"
  BY <1>2, <1>3, LogicalTypes DEF Logical
<1> QED BY <1>1, <1>2, <1>4, <1>5

\* An OR is true iff one of its arguments is.
LEMMA EvalOr ==
  ASSUME NEW t \in Condition, t.op = "or", NEW v, NEW db
  PROVE  Eval(t, v, db) = "true" <=> \E i \in DOMAIN t.args : Eval(t.args[i], v, db) = "true"
<1> DEFINE a == [i \in DOMAIN t.args |-> Eval(t.args[i], v, db)]
<1>1. Eval(t, v, db) = Not3(And3({Not3(a[i]) : i \in DOMAIN a}))
  <2>1. ValueOf(t, a, v, db, Eval(t, v, db))
    BY EvalIs
  <2> HIDE DEF a
  <2> QED BY <2>1 DEF ValueOf
<1>2. DOMAIN a = DOMAIN t.args /\ \A i \in DOMAIN t.args : a[i] = Eval(t.args[i], v, db)
  OBVIOUS
<1> HIDE DEF a
<1> DEFINE S == {Not3(a[i]) : i \in DOMAIN a}
<1>3. Not3(And3(S)) = "true" <=> "false" \in S
  BY LogicalTypes DEF And3, Not3
<1>4. \A x : Not3(x) = "false" <=> x = "true"
  BY LogicalTypes DEF Not3
<1>5. "false" \in S <=> \E i \in DOMAIN t.args : a[i] = "true"
  BY <1>2, <1>4
<1> QED BY <1>1, <1>2, <1>3, <1>5

\* What Extract leaves of a filter: nothing, an error, or a condition.
Kept(x, m) == x.count \in Nat \ {0} /\ x.cond \in ExprsUpTo[m] /\ ~ReturnsText(x.cond)
Shape(x, m) == x = Failed \/ x = Dropped \/ Kept(x, m)
HasCause(f, x, p) == x = Failed => p = "required" /\ \E g \in Parts(f, "required") : g.type \in Refused
NoDifference(f, c) == \A g \in Parts(f, "all") : g.expr # None => ~Differs(g.expr, c)
\* The condition is no stricter than the filter, and no laxer than what is not optional of it.
Means(f, x, p, v, c) ==
  /\ x.count > 0 /\ Holds(f, v, "all") = "true" => Eval(x.cond, v, PostgresWith(c)) = "true"
  /\ p = "required" /\ x.count > 0 /\ Eval(x.cond, v, PostgresWith(c)) = "true" => Holds(f, v, "required") = "true"
  /\ p = "required" /\ x.count = 0 => Holds(f, v, "required") = "true"
MeansAll(f, x, p) == \A v \in Values : \A c : NoDifference(f, c) => Means(f, x, p, v, c)
Extracted(f, x, p, m) == Shape(x, m) /\ HasCause(f, x, p) /\ MeansAll(f, x, p)

\* ExtractQueryFilters in terms of what it returns for the children.
LEMMA ExtractIs ==
  ASSUME NEW f \in TableFilter, NEW p \in Places
  PROVE  ExtractQueryFilters(f, p) =
           ExtractNode(f, [i \in DOMAIN f.kids |-> ExtractQueryFilters(f.kids[i], InsideOptional(f, p))], p)
<1>1. ExtractAtPlaces(f) = AtPlaces(f, [i \in DOMAIN f.kids |-> ExtractAtPlaces(f.kids[i])])
  BY ExtractUnfolds
<1> DEFINE k == [i \in DOMAIN f.kids |-> ExtractAtPlaces(f.kids[i])]
           a == [i \in DOMAIN k |-> k[i][InsideOptional(f, p)]]
<1>2. AtPlaces(f, k)[p] = ExtractNode(f, a, p)
  BY DEF AtPlaces
<1>3. a = [i \in DOMAIN f.kids |-> ExtractQueryFilters(f.kids[i], InsideOptional(f, p))]
  BY DEF ExtractQueryFilters
<1>4. ExtractQueryFilters(f, p) = AtPlaces(f, k)[p]
  BY <1>1 DEF ExtractQueryFilters
<1> HIDE DEF k, a
<1> QED BY <1>2, <1>3, <1>4

\* A filter without a known difference has none in its children.
LEMMA NoDifferenceKid ==
  ASSUME NEW f \in TableFilter, NEW c, NoDifference(f, c), NEW i \in DOMAIN f.kids
  PROVE  NoDifference(f.kids[i], c)
<1>1. Parts(f.kids[i], "all") \subseteq Parts(f, "all")
  BY PartsFacts
<1> QED BY <1>1 DEF NoDifference

\* A filter without children.
LEMMA LeafExtracted ==
  ASSUME NEW f \in TableFilter, f.type \notin {"and", "or", "optional"}, NEW p \in Places,
         NEW m \in Nat, 3 * MaxDepth <= m, m <= CondDepth
  PROVE  Extracted(f, ExtractQueryFilters(f, p), p, m)
<1> DEFINE x == ExtractQueryFilters(f, p)
           kids == [i \in DOMAIN f.kids |-> ExtractQueryFilters(f.kids[i], InsideOptional(f, p))]
<1>1. x = ExtractNode(f, kids, p)
  BY ExtractIs
<1> HIDE DEF x, kids
<1>2. f.type \in Plain \cup Refused \cup {"expression"}
  BY FilterIsFormed DEF FilterTypes
<1>3. f.expr \in Expr /\ f.expr # None /\ ~ReturnsText(f.expr)
  BY FilterIsFormed
<1>4. \A n \in 0..CondDepth : n <= m => ExprsUpTo[n] \subseteq ExprsUpTo[m]
  <2> SUFFICES ASSUME NEW n \in 0..CondDepth, n <= m PROVE ExprsUpTo[n] \subseteq ExprsUpTo[m]
    OBVIOUS
  <2>1. m \in n..CondDepth
    BY DepthFacts
  <2> QED BY <2>1, ExprGrows
<1>5. MaxDepth \in 0..CondDepth /\ MaxDepth <= m /\ 3 * MaxDepth \in 0..CondDepth
  BY DepthFacts
<1>6. \A v, scope : Holds(f, v, scope) = "true" <=> Eval(f.expr, v, DuckDB) = "true"
  BY HoldsIs
<1>7. f \in Parts(f, "required") /\ f \in Parts(f, "all")
  BY PartsFacts
<1>8. CASE f.type \in Refused
  <2>1. x = IF p = "optional" THEN Dropped ELSE Failed
    BY <1>1, <1>8 DEF ExtractNode, Plain, Refused
  <2>2. p # "optional" => p = "required"
    BY DEF Places
  <2>3. Shape(x, m) /\ HasCause(f, x, p)
    BY <1>7, <1>8, <2>1, <2>2 DEF Shape, HasCause, Dropped, Failed
  <2>4. MeansAll(f, x, p)
    BY <2>1 DEF MeansAll, Means, Dropped, Failed
  <2> QED BY <2>3, <2>4 DEF Extracted, x
<1> DEFINE t == x.cond
<1>9. ASSUME x = One(t), t \in ExprsUpTo[m], ~ReturnsText(t),
             \A v \in Values : \A c : ~Differs(f.expr, c) => Eval(t, v, PostgresWith(c)) = Eval(f.expr, v, DuckDB)
      PROVE  Extracted(f, x, p, m)
  <2>1. x.count = 1 /\ x # Failed
    BY <1>9 DEF One, Failed
  <2>2. Shape(x, m) /\ HasCause(f, x, p)
    BY <1>9, <2>1 DEF Shape, Kept, HasCause
  <2>3. MeansAll(f, x, p)
    <3> SUFFICES ASSUME NEW v \in Values, NEW c, NoDifference(f, c) PROVE Means(f, x, p, v, c)
      BY DEF MeansAll
    <3>1. ~Differs(f.expr, c)
      BY <1>3, <1>7 DEF NoDifference
    <3>2. Eval(t, v, PostgresWith(c)) = Eval(f.expr, v, DuckDB)
      BY <1>9, <3>1
    <3> QED BY <1>6, <2>1, <3>2 DEF Means
  <2> QED BY <2>2, <2>3 DEF Extracted
<1>10. CASE f.type \in Plain
  <2>1. x = One(f.expr) /\ x.cond = f.expr
    BY <1>1, <1>10 DEF ExtractNode, Plain, One
  <2>2. \A v \in Values : \A c : ~Differs(f.expr, c) => Eval(f.expr, v, PostgresWith(c)) = Eval(f.expr, v, DuckDB)
    BY <1>3, EvalAgrees
  <2>3. f.expr \in ExprsUpTo[m]
    BY <1>3, <1>4, <1>5 DEF Expr
  <2> QED BY <1>3, <1>9, <2>1, <2>2, <2>3 DEF x
<1>11. CASE f.type = "expression"
  <2> DEFINE s == ExpressionToString(f.expr)
  <2>0. s # Unsupported
    BY <1>11, FilterIsFormed
  <2>1. x = One(s) /\ x.cond = s
    BY <1>1, <1>11 DEF ExtractNode, Plain, One
  <2>2. ASSUME NEW v \in Values, NEW c, ~Differs(f.expr, c)
        PROVE  Eval(s, v, PostgresWith(c)) = Eval(f.expr, v, DuckDB)
    <3>1. Eval(s, v, PostgresWith(c)) = Eval(f.expr, v, PostgresWith(c))
      BY <1>3, <2>0, <2>2, StringValue
    <3>2. Eval(f.expr, v, PostgresWith(c)) = Eval(f.expr, v, DuckDB)
      BY <1>3, <2>2, EvalAgrees
    <3> QED BY <3>1, <3>2
  <2>3. FitsFor(f.expr, s, 3 * MaxDepth)
    BY <1>3, <2>0, StringType
  <2>4. s \in ExprsUpTo[m] /\ ~ReturnsText(s)
    BY <1>3, <1>4, <1>5, <2>3 DEF FitsFor
  <2> HIDE DEF s
  <2> QED BY <1>9, <2>1, <2>2, <2>4 DEF x
<1> QED BY <1>2, <1>8, <1>10, <1>11

\* An optional filter, whose child is extracted as optional.
LEMMA OptionalExtracted ==
  ASSUME NEW f \in TableFilter, f.type = "optional", NEW p \in Places, NEW m,
         Extracted(f.kids[1], ExtractQueryFilters(f.kids[1], "optional"), "optional", m)
  PROVE  Extracted(f, ExtractQueryFilters(f, p), p, m)
<1> DEFINE x == ExtractQueryFilters(f, p)
           g == f.kids[1]
           kids == [i \in DOMAIN f.kids |-> ExtractQueryFilters(f.kids[i], InsideOptional(f, p))]
<1>0. 1 \in DOMAIN f.kids
  BY FilterIsFormed
<1>1. x = ExtractNode(f, kids, p)
  BY ExtractIs
<1>2. kids[1] = ExtractQueryFilters(g, "optional")
  BY <1>0 DEF InsideOptional
<1>3. ExtractNode(f, kids, p) = kids[1]
  <2> HIDE DEF kids
  <2> QED BY DEF ExtractNode, Plain
<1> HIDE DEF kids
<1>4. x = ExtractQueryFilters(g, "optional")
  BY <1>1, <1>2, <1>3
<1>5. Extracted(g, x, "optional", m)
  BY <1>4
<1> HIDE DEF x
<1>6. Shape(x, m) /\ x # Failed
  BY <1>5 DEF Extracted, HasCause
<1>7. MeansAll(f, x, p)
  <2> SUFFICES ASSUME NEW v \in Values, NEW c, NoDifference(f, c) PROVE Means(f, x, p, v, c)
    BY DEF MeansAll
  <2>1. NoDifference(g, c)
    BY <1>0, NoDifferenceKid
  <2>2. Means(g, x, "optional", v, c)
    BY <1>5, <2>1 DEF Extracted, MeansAll
  <2>3. Holds(f, v, "required") = "true" /\ (Holds(f, v, "all") = "true" => Holds(g, v, "all") = "true")
    BY HoldsIs
  <2> QED BY <2>2, <2>3 DEF Means
<1> QED BY <1>6, <1>7 DEF Extracted, HasCause, x

\* The children, at the place of their parent, were extracted into kids.
KidsExtracted(f, kids, p, n) ==
  /\ DOMAIN kids = DOMAIN f.kids
  /\ \A i \in DOMAIN f.kids : Extracted(f.kids[i], kids[i], p, n)

\* What the count says of the condition.
LEMMA ShapeCount ==
  ASSUME NEW x, NEW n, Shape(x, n)
  PROVE  /\ x.count \in Int /\ (x.count < 0 => x = Failed)
         /\ x.count > 0 => x.cond \in ExprsUpTo[n] /\ ~ReturnsText(x.cond)
<1>1. CASE x = Failed
  BY <1>1 DEF Failed
<1>2. CASE x = Dropped
  BY <1>2 DEF Dropped
<1>3. CASE Kept(x, n)
  BY <1>3 DEF Kept
<1> QED BY <1>1, <1>2, <1>3 DEF Shape

\* An AND or an OR of what was kept is neither stricter nor laxer than the filter may be.
LEMMA JoinedMeans ==
  ASSUME NEW f \in TableFilter, f.type \in {"and", "or"}, NEW p \in Places, NEW n, NEW kids, KidsExtracted(f, kids, p, n),
         NEW cs, Range(cs) = KeptConds(kids, Len(f.kids)), NEW t \in Condition, t.op = f.type, t.args = cs,
         \A i \in DOMAIN f.kids : kids[i].count >= 0 /\ (f.type = "or" => kids[i].count > 0),
         NEW v \in Values, NEW c, NoDifference(f, c)
  PROVE  /\ Holds(f, v, "all") = "true" => Eval(t, v, PostgresWith(c)) = "true"
         /\ p = "required" /\ Eval(t, v, PostgresWith(c)) = "true" => Holds(f, v, "required") = "true"
<1> DEFINE True(e) == Eval(e, v, PostgresWith(c)) = "true"
           H(g, scope) == Holds(g, v, scope) = "true"
<1>1. DOMAIN f.kids = 1..Len(f.kids)
  BY FilterIsFormed
<1>2. \A i \in DOMAIN f.kids : Means(f.kids[i], kids[i], p, v, c) /\ kids[i].count \in Int
  <2> SUFFICES ASSUME NEW i \in DOMAIN f.kids PROVE Means(f.kids[i], kids[i], p, v, c) /\ kids[i].count \in Int
    OBVIOUS
  <2>1. Extracted(f.kids[i], kids[i], p, n)
    BY DEF KidsExtracted
  <2>2. NoDifference(f.kids[i], c)
    BY NoDifferenceKid
  <2> QED BY <2>1, <2>2, ShapeCount DEF Extracted, MeansAll
<1>3. \A i \in DOMAIN f.kids :
         /\ kids[i].count > 0 /\ H(f.kids[i], "all") => True(kids[i].cond)
         /\ p = "required" /\ kids[i].count > 0 /\ True(kids[i].cond) => H(f.kids[i], "required")
         /\ p = "required" /\ kids[i].count = 0 => H(f.kids[i], "required")
  BY <1>2 DEF Means
<1> DEFINE S == KeptConds(kids, Len(f.kids))
<1>x. /\ \A i \in DOMAIN f.kids : kids[i].count > 0 => kids[i].cond \in S
      /\ \A e \in S : \E i \in DOMAIN f.kids : kids[i].count > 0 /\ e = kids[i].cond
  BY <1>1 DEF KeptConds
<1>y. \A e : e \in S <=> \E j \in DOMAIN cs : cs[j] = e
  <2> HIDE DEF S
  <2>1. S = Range(cs)
    BY DEF S
  <2> QED BY <2>1 DEF Range
<1> HIDE DEF S
<1>4. \A i \in DOMAIN f.kids : kids[i].count > 0 => \E j \in DOMAIN cs : cs[j] = kids[i].cond
  BY <1>x, <1>y
<1>5. \A j \in DOMAIN cs : \E i \in DOMAIN f.kids : kids[i].count > 0 /\ cs[j] = kids[i].cond
  BY <1>x, <1>y
<1>6. \A i \in DOMAIN f.kids : kids[i].count > 0 \/ (kids[i].count = 0 /\ f.type # "or")
  BY <1>2
<1>7. CASE f.type = "and"
  <2>1. True(t) <=> \A j \in DOMAIN cs : True(cs[j])
    BY <1>7, EvalAnd
  <2>2. \A scope : H(f, scope) <=> \A i \in DOMAIN f.kids : H(f.kids[i], scope)
    BY <1>7, HoldsIs
  <2> HIDE DEF True, H
  <2>3. H(f, "all") => True(t)
    BY <1>3, <1>5, <2>1, <2>2
  <2>4. p = "required" /\ True(t) => H(f, "required")
    BY <1>3, <1>4, <1>6, <2>1, <2>2
  <2> QED BY <2>3, <2>4 DEF True, H
<1>8. CASE f.type = "or"
  <2>1. True(t) <=> \E j \in DOMAIN cs : True(cs[j])
    BY <1>8, EvalOr
  <2>2. \A scope : H(f, scope) <=> \E i \in DOMAIN f.kids : H(f.kids[i], scope)
    BY <1>8, HoldsIs
  <2> HIDE DEF True, H
  <2>3. H(f, "all") => True(t)
    BY <1>3, <1>4, <1>6, <1>8, <2>1, <2>2
  <2>4. p = "required" /\ True(t) => H(f, "required")
    BY <1>3, <1>5, <2>1, <2>2
  <2> QED BY <2>3, <2>4 DEF True, H
<1> QED BY <1>7, <1>8

\* An AND or an OR of conditions is a condition.
LEMMA JoinedIs ==
  ASSUME NEW n \in Nat, n + 1 <= CondDepth, NEW type \in {"and", "or"}, NEW S, NEW cs \in Seq(S), Len(cs) > 0,
         \A e \in S : e \in ExprsUpTo[n] /\ ~ReturnsText(e)
  PROVE  /\ Op(type, cs) \in ExprsUpTo[n + 1] /\ Op(type, cs).op = type /\ Op(type, cs).args = cs
         /\ ~ReturnsText(Op(type, cs))
<1>1. cs \in Seq(ExprsUpTo[n]) /\ \A i \in 1..Len(cs) : ~ReturnsText(cs[i])
  OBVIOUS
<1>2. Op(type, cs).op = type /\ Op(type, cs).args = cs
  BY DEF Op
<1> DEFINE t == Op(type, cs)
<1>3. Typed(t)
  <2> HIDE DEF t
  <2>1. t.op = type /\ t.args = cs
    BY <1>2 DEF t
  <2> QED BY <1>1, <2>1 DEF Typed, Comparisons
<1>4. type \in Ops
  BY DEF Ops
<1>5. t \in ExprsUpTo[n + 1]
  BY <1>1, <1>3, <1>4, OpIs
<1> QED BY <1>2, <1>5 DEF ReturnsText

\* An AND or an OR filter, whose children were extracted at the same place.
LEMMA JoinExtracted ==
  ASSUME NEW f \in TableFilter, f.type \in {"and", "or"}, NEW p \in Places, NEW n \in Nat, n + 1 <= CondDepth,
         NEW kids, KidsExtracted(f, kids, p, n), kids = [i \in DOMAIN f.kids |-> kids[i]],
         NEW x, x = Join(f.type, kids)
  PROVE  Extracted(f, x, p, n + 1)
<1>1. /\ DOMAIN f.kids = 1..Len(f.kids) /\ Len(f.kids) \in Nat /\ Len(f.kids) > 0
      /\ \A i \in DOMAIN f.kids : f.kids[i] \in TableFilter
  BY FilterIsFormed
<1> DEFINE W == {kids[i] : i \in DOMAIN f.kids}
           L == Len(f.kids)
<1>2. kids \in Seq(W) /\ Len(kids) = L /\ DOMAIN kids = DOMAIN f.kids
  BY <1>1
<1>3. \A i \in 1..L : Shape(kids[i], n) /\ HasCause(f.kids[i], kids[i], p) /\ MeansAll(f.kids[i], kids[i], p)
  BY <1>1 DEF KidsExtracted, Extracted
<1>4. \A i \in 1..L : /\ kids[i].count \in Int /\ (kids[i].count < 0 => kids[i] = Failed)
                      /\ kids[i].count > 0 => kids[i].cond \in ExprsUpTo[n] /\ ~ReturnsText(kids[i].cond)
  BY <1>3, ShapeCount
<1> HIDE DEF W, L
<1>5. \/ x = Failed /\ \E i \in 1..L : kids[i].count < 0
      \/ /\ x = Dropped
         /\ \/ f.type = "or" /\ \E i \in 1..L : kids[i].count = 0
            \/ f.type = "and" /\ \A i \in 1..L : kids[i].count = 0
      \/ \E cs \in Seq(KeptConds(kids, L)) :
           /\ Len(cs) > 0 /\ KeptConds(kids, L) \subseteq Range(cs)
           /\ x = [count |-> Len(cs), cond |-> Op(f.type, cs)]
           /\ \A i \in 1..L : kids[i].count >= 0 /\ (f.type = "or" => kids[i].count > 0)
  <2>1. Len(kids) > 0 /\ \A i \in 1..Len(kids) : kids[i].count \in Int
    BY <1>1, <1>2, <1>4 DEF L
  <2> QED BY <1>2, <2>1, JoinIs
<1>6. CASE x = Failed /\ \E i \in 1..L : kids[i].count < 0
  <2>1. PICK i \in 1..L : kids[i].count < 0
    BY <1>6
  <2>2. p = "required" /\ \E g \in Parts(f.kids[i], "required") : g.type \in Refused
    BY <1>3, <1>4, <2>1 DEF HasCause
  <2>3. Parts(f.kids[i], "required") \subseteq Parts(f, "required")
    BY <1>1, PartsFacts DEF L
  <2>4. HasCause(f, x, p)
    BY <2>2, <2>3 DEF HasCause
  <2>5. x.count = -1
    BY <1>6 DEF Failed
  <2>6. MeansAll(f, x, p)
    BY <2>5 DEF MeansAll, Means
  <2> QED BY <1>6, <2>4, <2>6 DEF Extracted, Shape
<1>7. CASE /\ x = Dropped
           /\ \/ f.type = "or" /\ \E i \in 1..L : kids[i].count = 0
              \/ f.type = "and" /\ \A i \in 1..L : kids[i].count = 0
  <2>1. x.count = 0 /\ x # Failed
    BY <1>7 DEF Dropped, Failed
  <2>2. MeansAll(f, x, p)
    <3> SUFFICES ASSUME NEW v \in Values, NEW c, NoDifference(f, c), p = "required"
                 PROVE  Holds(f, v, "required") = "true"
      BY <2>1 DEF MeansAll, Means
    <3>1. \A i \in DOMAIN f.kids : NoDifference(f.kids[i], c)
      BY NoDifferenceKid
    <3>2. \A i \in DOMAIN f.kids : Means(f.kids[i], kids[i], p, v, c)
      BY <1>1, <1>3, <3>1 DEF MeansAll, L
    <3>3. \A i \in DOMAIN f.kids : kids[i].count = 0 => Holds(f.kids[i], v, "required") = "true"
      BY <3>2 DEF Means
    <3> QED BY <1>1, <1>7, <3>3, HoldsIs DEF L
  <2> QED BY <1>7, <2>1, <2>2 DEF Extracted, Shape, HasCause
<1>8. ASSUME NEW cs \in Seq(KeptConds(kids, L)), Len(cs) > 0, KeptConds(kids, L) \subseteq Range(cs),
             x = [count |-> Len(cs), cond |-> Op(f.type, cs)],
             \A i \in 1..L : kids[i].count >= 0 /\ (f.type = "or" => kids[i].count > 0)
      PROVE  Extracted(f, x, p, n + 1)
  <2> DEFINE t == Op(f.type, cs)
  <2>1. \A e \in KeptConds(kids, L) : e \in ExprsUpTo[n] /\ ~ReturnsText(e)
    BY <1>4 DEF KeptConds
  <2>2. t \in ExprsUpTo[n + 1] /\ t.op = f.type /\ t.args = cs /\ ~ReturnsText(t)
    BY <1>8, <2>1, JoinedIs
  <2>3. x.cond = t /\ x.count = Len(cs) /\ x.count \in Nat \ {0}
    BY <1>8
  <2>4. x # Failed
    BY <2>3 DEF Failed
  <2>5. t \in Condition
    <3> DEFINE k == n + 1
    <3>1. k \in 0..CondDepth /\ CondDepth \in k..CondDepth
      BY DepthFacts
    <3>2. t \in ExprsUpTo[k]
      BY <2>2
    <3> HIDE DEF k, t
    <3> QED BY <3>1, <3>2, ExprGrows DEF Condition
  <2>6. Range(cs) = KeptConds(kids, L)
    <3>1. Range(cs) \subseteq KeptConds(kids, L)
      BY DEF Range
    <3> QED BY <1>8, <3>1
  <2> HIDE DEF t
  <2>7. MeansAll(f, x, p)
    <3> SUFFICES ASSUME NEW v \in Values, NEW c, NoDifference(f, c) PROVE Means(f, x, p, v, c)
      BY DEF MeansAll
    <3>1. \A i \in DOMAIN f.kids : kids[i].count >= 0 /\ (f.type = "or" => kids[i].count > 0)
      BY <1>1, <1>8 DEF L
    <3>2. /\ Holds(f, v, "all") = "true" => Eval(t, v, PostgresWith(c)) = "true"
          /\ p = "required" /\ Eval(t, v, PostgresWith(c)) = "true" => Holds(f, v, "required") = "true"
      BY <2>2, <2>5, <2>6, <3>1, JoinedMeans DEF L
    <3> QED BY <2>3, <3>2 DEF Means
  <2> QED BY <2>2, <2>3, <2>4, <2>7 DEF Extracted, Shape, Kept, HasCause
<1> QED BY <1>5, <1>6, <1>7, <1>8

\* Induction over the depth of the filter.
LEMMA ExtractLevels ==
  \A n \in 0..(MaxDepth + 1) : \A f \in FiltersUpTo[n] : \A p \in Places :
    Extracted(f, ExtractQueryFilters(f, p), p, 3 * MaxDepth + n)
<1> DEFINE Good(n) == \A f \in FiltersUpTo[n] : \A p \in Places : Extracted(f, ExtractQueryFilters(f, p), p, 3 * MaxDepth + n)
           T == {n \in Nat : n <= MaxDepth + 1 => Good(n)}
<1>1. 0 \in T
  BY FilterFacts
<1>2. ASSUME NEW k \in Nat, k \in T PROVE k + 1 \in T
  <2> SUFFICES ASSUME k + 1 <= MaxDepth + 1, NEW f \in FiltersUpTo[k + 1], NEW p \in Places
               PROVE  Extracted(f, ExtractQueryFilters(f, p), p, 3 * MaxDepth + (k + 1))
    OBVIOUS
  <2> DEFINE m == 3 * MaxDepth + k
  <2>1. /\ MaxDepth \in Nat /\ m \in Nat /\ m + 1 \in Nat /\ 3 * MaxDepth + (k + 1) = m + 1 /\ m + 1 <= CondDepth
        /\ 3 * MaxDepth <= m + 1 /\ k <= MaxDepth + 1
    BY DepthFacts DEF CondDepth
  <2>2. Good(k)
    BY <1>2, <2>1
  <2>3. \A g \in FiltersUpTo[k] : \A q \in Places : Extracted(g, ExtractQueryFilters(g, q), q, m)
    BY <2>2
  <2> HIDE DEF m, Good
  <2>4. f \in TableFilter /\ \A i \in DOMAIN f.kids : f.kids[i] \in FiltersUpTo[k]
    <3> DEFINE j == k + 1
    <3>1. j \in 0..(MaxDepth + 1) /\ MaxDepth + 1 \in j..(MaxDepth + 1) /\ j - 1 = k
      BY <2>1
    <3>2. f \in FiltersUpTo[j]
      OBVIOUS
    <3> HIDE DEF j
    <3>3. f \in TableFilter
      BY <3>1, <3>2, FilterGrows DEF TableFilter
    <3>4. \A i \in DOMAIN f.kids : f.kids[i] \in FiltersUpTo[j - 1]
      BY <3>1, <3>2, FilterKids
    <3> QED BY <3>1, <3>3, <3>4
  <2>5. CASE f.type \notin {"and", "or", "optional"}
    <3>1. Extracted(f, ExtractQueryFilters(f, p), p, m + 1)
      BY <2>1, <2>4, <2>5, LeafExtracted
    <3> QED BY <2>1, <3>1
  <2>6. CASE f.type = "optional"
    <3>1. 1 \in DOMAIN f.kids /\ "optional" \in Places
      BY <2>4, <2>6, FilterIsFormed DEF Places
    <3>2. Extracted(f.kids[1], ExtractQueryFilters(f.kids[1], "optional"), "optional", m)
      BY <2>3, <2>4, <3>1
    <3>3. Extracted(f, ExtractQueryFilters(f, p), p, m)
      BY <2>4, <2>6, <3>2, OptionalExtracted
    <3>4. ExprsUpTo[m] \subseteq ExprsUpTo[m + 1]
      <4>1. m \in 0..CondDepth /\ m + 1 \in m..CondDepth
        BY <2>1, DepthFacts
      <4> QED BY <4>1, ExprGrows
    <3>5. Extracted(f, ExtractQueryFilters(f, p), p, m + 1)
      BY <3>3, <3>4 DEF Extracted, Shape, Kept
    <3> QED BY <2>1, <3>5
  <2>7. CASE f.type \in {"and", "or"}
    <3> DEFINE kids == [i \in DOMAIN f.kids |-> ExtractQueryFilters(f.kids[i], InsideOptional(f, p))]
    <3>1. InsideOptional(f, p) = p
      BY <2>7 DEF InsideOptional
    <3>2. KidsExtracted(f, kids, p, m) /\ kids = [i \in DOMAIN f.kids |-> kids[i]]
      BY <2>3, <2>4, <3>1 DEF KidsExtracted
    <3>3. ExtractQueryFilters(f, p) = ExtractNode(f, kids, p)
      BY <2>4, ExtractIs
    <3> HIDE DEF kids
    <3>4. ExtractNode(f, kids, p) = Join(f.type, kids)
      BY <2>7 DEF ExtractNode, Plain
    <3>5. Extracted(f, ExtractQueryFilters(f, p), p, m + 1)
      BY <2>1, <2>4, <2>7, <3>2, <3>3, <3>4, JoinExtracted
    <3> QED BY <2>1, <3>5
  <2> QED BY <2>5, <2>6, <2>7
<1>3. \A n \in Nat : n \in T
  <2> HIDE DEF T
  <2> QED BY <1>1, <1>2, SetInduction
<1>4. ASSUME NEW n \in 0..(MaxDepth + 1) PROVE Good(n)
  <2>1. n \in Nat /\ n <= MaxDepth + 1
    BY DepthFacts
  <2>2. n \in T
    <3> HIDE DEF T
    <3> QED BY <1>3, <2>1
  <2> HIDE DEF Good
  <2> QED BY <2>1, <2>2
<1> QED BY <1>4

\* What is extracted from a filter, of any shape and depth.
LEMMA ExtractMeans ==
  ASSUME NEW f \in TableFilter, NEW p \in Places
  PROVE  Extracted(f, ExtractQueryFilters(f, p), p, CondDepth)
<1> DEFINE k == MaxDepth + 1
           m == 3 * MaxDepth + k
<1>1. k \in 0..(MaxDepth + 1) /\ m = CondDepth
  BY DepthFacts DEF CondDepth
<1>2. f \in FiltersUpTo[k]
  BY DEF TableFilter
<1>3. Extracted(f, ExtractQueryFilters(f, p), p, m)
  <2> HIDE DEF k
  <2> QED BY <1>1, <1>2, ExtractLevels
<1> HIDE DEF m
<1> QED BY <1>1, <1>3

-----------------------------------------------------------------------------
(* The scan *)

\* What becomes of the filter on the i-th column.
Part(i) == IF filters[i] = None THEN Dropped ELSE ExtractQueryFilters(filters[i], "required")
Where == {<<input.columns[i], Part(i).cond>> : i \in {j \in DOMAIN filters : Part(j).count > 0}}
Accepts(r) == \A c \in Where : Eval(c[2], table[r][c[1]], Postgres) = "true"

ScanTypeOK ==
  /\ stage \in {"optimize", "init", "scan", "raised", "refused"}
  /\ input \in Inputs /\ table \in Tables(input)
  /\ filters \in [DOMAIN input.columns -> TableFilter \cup {None}]
  /\ stage = "optimize" => filters \in [DOMAIN input.columns -> FiltersUpTo[MaxDepth] \cup {None}]
  /\ next \in 0..Len(table) /\ sent \in Seq(1..next) /\ out \in Seq(Seq(Values))
QueryIs ==
  IF stage \in {"scan", "refused"}
  THEN /\ query = [count |-> input.columns = <<>>, select |-> OutputColumns(input), where |-> Where]
       /\ \A i \in DOMAIN filters : Part(i) # Failed
  ELSE query = None /\ next = 0
SentIs == Misread \/ \A r \in 1..next : r \in Range(sent) <=> Accepts(r)
RaisedIs ==
  /\ stage = "raised" => \E i \in DOMAIN filters : Part(i) = Failed
  /\ stage = "refused" => Misread

\* The inductive invariant.
ScanInv == ScanTypeOK /\ QueryIs /\ SentIs /\ RaisedIs /\ OutputAligned

\* What the assumption says of the input at hand.
LEMMA InputIs ==
  ASSUME ScanTypeOK
  PROVE  /\ input.columns \in Seq(Nat) /\ DOMAIN input.columns = 1..Len(input.columns)
         /\ input.projection # None => input.projection \in Seq(DOMAIN input.columns)
         /\ input.filters \in [DOMAIN input.columns -> FiltersUpTo[MaxDepth] \cup {None}]
         /\ input.expr # None => input.expr \in Expr /\ ~ReturnsText(input.expr) /\ 1 \in DOMAIN input.columns
         /\ table \in Seq(Seq(Values))
         /\ \A r \in DOMAIN table : \A i \in DOMAIN input.columns : table[r][input.columns[i]] \in Values
<1> DEFINE cols == input.columns
<1>1. /\ cols \in Seq(Nat)
      /\ input.projection # None => input.projection \in Seq(DOMAIN cols)
      /\ input.filters \in [DOMAIN cols -> FiltersUpTo[MaxDepth] \cup {None}]
      /\ input.expr # None => input.expr \in Expr /\ ~ReturnsText(input.expr) /\ Len(cols) > 0
      /\ table \in Seq(Seq(Values)) /\ \A r \in DOMAIN table : Range(cols) \subseteq DOMAIN table[r]
  BY InputAssumption DEF ScanTypeOK
<1> HIDE DEF cols
<1>2. DOMAIN cols = 1..Len(cols) /\ (Len(cols) > 0 => 1 \in DOMAIN cols)
  BY <1>1
<1>3. ASSUME NEW r \in DOMAIN table, NEW i \in DOMAIN cols PROVE table[r][cols[i]] \in Values
  <2>1. cols[i] \in DOMAIN table[r]
    BY <1>1 DEF Range
  <2>2. table[r] \in Seq(Values)
    BY <1>1
  <2> QED BY <2>1, <2>2
<1> QED BY <1>1, <1>2, <1>3 DEF cols

\* What is extracted from the filter of a column.
LEMMA PartIs ==
  ASSUME ScanTypeOK, NEW i \in DOMAIN filters
  PROVE  /\ filters[i] # None => filters[i] \in TableFilter /\ Extracted(filters[i], Part(i), "required", CondDepth)
         /\ filters[i] = None => Part(i) = Dropped
         /\ Shape(Part(i), CondDepth)
<1>1. filters[i] # None => filters[i] \in TableFilter
  BY DEF ScanTypeOK
<1>2. filters[i] # None => Extracted(filters[i], Part(i), "required", CondDepth)
  <2> SUFFICES ASSUME filters[i] # None PROVE Extracted(filters[i], Part(i), "required", CondDepth)
    OBVIOUS
  <2>1. Part(i) = ExtractQueryFilters(filters[i], "required")
    BY DEF Part
  <2>2. "required" \in Places
    BY DEF Places
  <2> QED BY <1>1, <2>1, <2>2, ExtractMeans
<1>3. filters[i] = None => Part(i) = Dropped
  BY DEF Part
<1> QED BY <1>1, <1>2, <1>3 DEF Extracted, Shape

\* The filter for the expression that the optimizer hands to the scan.
LEMMA PushedFilter ==
  ASSUME ScanTypeOK, stage = "optimize", input.expr # None, PostgresScanPushdownExpression(input.expr), NEW old,
         old \in FiltersUpTo[MaxDepth] \cup {None}
  PROVE  (IF old = None THEN Filter("expression", <<>>, input.expr)
          ELSE Filter("and", <<old, Filter("expression", <<>>, input.expr)>>, None)) \in TableFilter
<1> DEFINE e == Filter("expression", <<>>, input.expr)
<1>1. input.expr \in Expr /\ ~ReturnsText(input.expr)
  BY InputIs
<1>2. MaxDepth # 0
  BY <1>1, ExprFacts DEF Expr
<1>3. MaxDepth \in Nat /\ MaxDepth \in 0..(MaxDepth + 1) /\ MaxDepth + 1 \in MaxDepth..(MaxDepth + 1)
      /\ MaxDepth + 1 \in 0..(MaxDepth + 1) /\ MaxDepth + 1 - 1 = MaxDepth /\ MaxDepth + 1 # 0
  BY DepthFacts
<1>4. input.expr # None
  OBVIOUS
<1>5. e \in FiltersUpTo[MaxDepth]
  <2>1. WellFormed(e)
    BY <1>1 DEF WellFormed, Filter
  <2>2. "expression" \in FilterTypes
    BY DEF FilterTypes
  <2>3. <<>> \in Seq(FiltersUpTo[MaxDepth - 1])
    OBVIOUS
  <2> QED BY <1>1, <1>2, <1>3, <2>1, <2>2, <2>3, FilterIs DEF Filter
<1>6. e \in TableFilter
  BY <1>3, <1>5, FilterGrows DEF TableFilter
<1> HIDE DEF e
<1>7. ASSUME old # None PROVE Filter("and", <<old, e>>, None) \in TableFilter
  <2> DEFINE m == MaxDepth + 1
             kids == <<old, e>>
  <2>1. kids \in Seq(FiltersUpTo[MaxDepth]) /\ Len(kids) = 2
    <3>1. old \in FiltersUpTo[MaxDepth]
      BY <1>7
    <3> QED BY <1>5, <3>1, Tuples
  <2>2. WellFormed([type |-> "and", kids |-> kids, expr |-> None])
    <3> HIDE DEF kids
    <3> DEFINE g == [type |-> "and", kids |-> kids, expr |-> None]
    <3>1. g.type = "and" /\ g.kids = kids /\ g.expr = None /\ Len(kids) > 0
      BY <2>1
    <3> HIDE DEF g
    <3>2. WellFormed(g)
      BY <3>1 DEF WellFormed
    <3> QED BY <3>2 DEF g
  <2>3. "and" \in FilterTypes
    BY DEF FilterTypes
  <2>4. m \in 0..(MaxDepth + 1) /\ m # 0 /\ m - 1 = MaxDepth
    BY <1>3
  <2> HIDE DEF m, kids
  <2>5. [type |-> "and", kids |-> kids, expr |-> None] \in FiltersUpTo[m]
    BY <2>1, <2>2, <2>3, <2>4, FilterIs
  <2> QED BY <2>5 DEF Filter, TableFilter, m, kids
<1> QED BY <1>6, <1>7 DEF e

\* The tuple that InsertTupleIntoChunk puts out, and the one that DuckDB wants.
Tuple(i, row) == IF i.columns = <<>> THEN <<>> ELSE [k \in DOMAIN OutputColumns(i) |-> row[OutputColumns(i)[k]]]
WantedTuple(i, row) ==
  LET wanted == IF i.projection = None THEN [j \in DOMAIN i.columns |-> j] ELSE i.projection
  IN  [j \in DOMAIN wanted |-> row[i.columns[wanted[j]]]]

\* OutputAligned in terms of the wanted tuple, before and after a step.
LEMMA AlignedIs ==
  /\ OutputAligned <=>
       Len(out) = Len(sent) /\ \A k \in DOMAIN out : out[k] = WantedTuple(input, table[sent[k]])
  /\ OutputAligned' <=>
       Len(out') = Len(sent') /\ \A k \in DOMAIN out' : out'[k] = WantedTuple(input', table'[sent'[k]])
<1>1. OutputAligned <=>
        Len(out) = Len(sent) /\ \A k \in DOMAIN out : out[k] = WantedTuple(input, table[sent[k]])
  BY DEF OutputAligned, WantedTuple
<1>2. OutputAligned' <=>
        Len(out') = Len(sent') /\ \A k \in DOMAIN out' : out'[k] = WantedTuple(input', table'[sent'[k]])
  BY DEF OutputAligned, WantedTuple
<1> QED BY <1>1, <1>2

\* The invariant holds at the start.
LEMMA InitScan == Init => ScanInv
<1> SUFFICES ASSUME Init PROVE ScanInv
  OBVIOUS
<1>1. input.filters \in [DOMAIN input.columns -> FiltersUpTo[MaxDepth] \cup {None}]
  BY InputAssumption DEF Init
<1>2. FiltersUpTo[MaxDepth] \subseteq TableFilter
  <2>1. MaxDepth \in 0..(MaxDepth + 1) /\ MaxDepth + 1 \in MaxDepth..(MaxDepth + 1)
    BY DepthFacts
  <2> QED BY <2>1, FilterGrows DEF TableFilter
<1>3. sent \in Seq(1..next) /\ out \in Seq(Seq(Values)) /\ next \in Nat /\ 1..next = {}
  BY DEF Init
<1>4. ScanTypeOK
  BY <1>1, <1>2, <1>3 DEF Init, ScanTypeOK
<1>5. QueryIs /\ SentIs /\ RaisedIs
  BY <1>3 DEF Init, QueryIs, SentIs, RaisedIs
<1>6. OutputAligned
  BY DEF Init, OutputAligned
<1> QED BY <1>4, <1>5, <1>6 DEF ScanInv

\* The optimizer keeps the invariant.
LEMMA OptimizeScan == ScanInv /\ Optimize => ScanInv'
<1> SUFFICES ASSUME ScanInv, Optimize PROVE ScanInv'
  OBVIOUS
<1>1. ScanTypeOK /\ stage = "optimize" /\ query = None /\ next = 0
  BY DEF ScanInv, QueryIs, Optimize
<1>2. stage' = "init" /\ UNCHANGED <<input, table, collation, query, next, sent, out>>
  BY DEF Optimize
<1>3. filters' \in [DOMAIN input.columns -> TableFilter \cup {None}]
  <2>1. filters \in [DOMAIN input.columns -> FiltersUpTo[MaxDepth] \cup {None}]
    BY <1>1 DEF ScanTypeOK
  <2>2. CASE input.expr # None /\ PostgresScanPushdownExpression(input.expr)
    <3> DEFINE e == Filter("expression", <<>>, input.expr)
               new == IF filters[1] = None THEN e ELSE Filter("and", <<filters[1], e>>, None)
    <3>1. filters' = [filters EXCEPT ![1] = new]
      BY <2>2 DEF Optimize
    <3>2. 1 \in DOMAIN input.columns
      BY <1>1, <2>2, InputIs
    <3>3. new \in TableFilter
      BY <1>1, <2>1, <2>2, <3>2, PushedFilter
    <3> HIDE DEF new
    <3>4. filters \in [DOMAIN input.columns -> TableFilter \cup {None}]
      BY <1>1 DEF ScanTypeOK
    <3> QED BY <3>1, <3>3, <3>4
  <2>3. CASE ~(input.expr # None /\ PostgresScanPushdownExpression(input.expr))
    BY <1>1, <2>3 DEF Optimize, ScanTypeOK
  <2> QED BY <2>2, <2>3
<1>4. ScanTypeOK'
  BY <1>1, <1>2, <1>3 DEF ScanTypeOK
<1>5. QueryIs' /\ RaisedIs'
  BY <1>1, <1>2 DEF QueryIs, RaisedIs
<1>6. SentIs'
  BY <1>1, <1>2 DEF SentIs
<1>7. OutputAligned'
  BY <1>2, AlignedIs DEF ScanInv
<1> QED BY <1>4, <1>5, <1>6, <1>7 DEF ScanInv

\* Making the query keeps the invariant.
LEMMA ConstructScan == ScanInv /\ ConstructTableScanQuery => ScanInv'
<1> SUFFICES ASSUME ScanInv, ConstructTableScanQuery PROVE ScanInv'
  OBVIOUS
<1>1. ScanTypeOK /\ stage = "init" /\ query = None /\ next = 0
  BY DEF ScanInv, QueryIs, ConstructTableScanQuery
<1>2. UNCHANGED <<input, table, collation, filters, residual, next, sent, out>>
  BY DEF ConstructTableScanQuery
<1> DEFINE parts == [i \in DOMAIN filters |->
                       IF filters[i] = None THEN Dropped ELSE ExtractQueryFilters(filters[i], "required")]
           conds == {<<input.columns[i], parts[i].cond>> : i \in {i \in DOMAIN parts : parts[i].count > 0}}
<1>3. DOMAIN parts = DOMAIN filters /\ \A i \in DOMAIN filters : parts[i] = Part(i)
  BY DEF Part
<1>4. conds = Where
  <2> HIDE DEF parts
  <2> QED BY <1>3 DEF Where
<1>5. IF \E i \in DOMAIN parts : parts[i] = Failed
      THEN stage' = "raised" /\ UNCHANGED query
      ELSE stage' = "scan" /\ query' = [count |-> input.columns = <<>>, select |-> OutputColumns(input), where |-> conds]
  BY DEF ConstructTableScanQuery
<1> HIDE DEF parts, conds
<1>6. \A i : Part(i)' = Part(i)
  BY <1>2 DEF Part
<1>7. Where' = Where
  BY <1>2, <1>6 DEF Where
<1>8. IF \E i \in DOMAIN filters : Part(i) = Failed
      THEN stage' = "raised" /\ query' = None
      ELSE stage' = "scan" /\ query' = [count |-> input.columns = <<>>, select |-> OutputColumns(input), where |-> Where]
  BY <1>1, <1>3, <1>4, <1>5
<1>9. ScanTypeOK'
  BY <1>1, <1>2, <1>8 DEF ScanTypeOK
<1>10. QueryIs' /\ RaisedIs'
  <2>1. CASE \E i \in DOMAIN filters : Part(i) = Failed
    BY <1>1, <1>2, <1>6, <1>8, <2>1 DEF QueryIs, RaisedIs
  <2>2. CASE ~\E i \in DOMAIN filters : Part(i) = Failed
    <3>1. OutputColumns(input)' = OutputColumns(input)
      BY <1>2 DEF OutputColumns
    <3> QED BY <1>2, <1>6, <1>7, <1>8, <2>2, <3>1 DEF QueryIs, RaisedIs
  <2> QED BY <2>1, <2>2
<1>11. SentIs'
  BY <1>1, <1>2 DEF SentIs
<1>12. OutputAligned'
  BY <1>2, AlignedIs DEF ScanInv
<1> QED BY <1>9, <1>10, <1>11, <1>12 DEF ScanInv

\* The tuple put out is the one that DuckDB wants.
LEMMA TupleIsWanted ==
  ASSUME ScanTypeOK, NEW row
  PROVE  Tuple(input, row) = WantedTuple(input, row)
<1>1. input.columns \in Seq(Nat) /\ (input.projection # None => input.projection \in Seq(DOMAIN input.columns))
  BY InputIs
<1>2. CASE input.projection = None
  <2>1. WantedTuple(input, row) = [j \in DOMAIN input.columns |-> row[input.columns[j]]]
    BY <1>2 DEF WantedTuple
  <2>2. OutputColumns(input) = input.columns
    BY <1>2 DEF OutputColumns
  <2>3. CASE input.columns = <<>>
    <3>1. [j \in DOMAIN input.columns |-> row[input.columns[j]]] = <<>>
      BY <2>3
    <3> QED BY <2>1, <2>3, <3>1 DEF Tuple
  <2>4. CASE input.columns # <<>>
    BY <2>1, <2>2, <2>4 DEF Tuple
  <2> QED BY <2>3, <2>4
<1>3. CASE input.projection # None
  <2> DEFINE p == input.projection
  <2>0. p \in Seq(DOMAIN input.columns)
    BY <1>1, <1>3
  <2>1. WantedTuple(input, row) = [j \in DOMAIN p |-> row[input.columns[p[j]]]]
    BY <1>3 DEF WantedTuple
  <2>2. OutputColumns(input) = [k \in DOMAIN p |-> input.columns[p[k]]]
    BY <1>3 DEF OutputColumns
  <2>3. CASE input.columns = <<>>
    <3>1. DOMAIN p = {}
      BY <2>0, <2>3
    <3>2. [j \in DOMAIN p |-> row[input.columns[p[j]]]] = <<>>
      BY <3>1
    <3> QED BY <2>1, <2>3, <3>2 DEF Tuple
  <2>4. CASE input.columns # <<>>
    <3> DEFINE o == OutputColumns(input)
    <3>1. DOMAIN o = DOMAIN p /\ \A k \in DOMAIN p : o[k] = input.columns[p[k]]
      BY <2>2
    <3> HIDE DEF o
    <3>2. [k \in DOMAIN o |-> row[o[k]]] = [j \in DOMAIN p |-> row[input.columns[p[j]]]]
      BY <3>1
    <3> QED BY <2>1, <2>4, <3>2 DEF Tuple, o
  <2> QED BY <2>3, <2>4
<1> QED BY <1>2, <1>3

\* The tuple put out is a sequence of values.
LEMMA TupleType ==
  ASSUME ScanTypeOK, NEW r \in DOMAIN table
  PROVE  Tuple(input, table[r]) \in Seq(Values)
<1>1. /\ input.columns \in Seq(Nat) /\ (input.projection # None => input.projection \in Seq(DOMAIN input.columns))
      /\ \A i \in DOMAIN input.columns : table[r][input.columns[i]] \in Values
  BY InputIs
<1> DEFINE o == OutputColumns(input)
<1>2. CASE input.projection = None
  <2>1. o = input.columns
    BY <1>2 DEF OutputColumns
  <2> QED BY <1>1, <2>1 DEF Tuple
<1>3. CASE input.projection # None
  <2> DEFINE p == input.projection
  <2>1. p \in Seq(DOMAIN input.columns)
    BY <1>1, <1>3
  <2>2. o = [k \in DOMAIN p |-> input.columns[p[k]]]
    BY <1>3 DEF OutputColumns
  <2> HIDE DEF p, o
  <2>3. DOMAIN o = 1..Len(p) /\ Len(p) \in Nat /\ \A k \in 1..Len(p) : table[r][o[k]] \in Values
    BY <1>1, <2>1, <2>2
  <2>4. [k \in DOMAIN o |-> table[r][o[k]]] \in Seq(Values)
    BY <2>3
  <2> QED BY <2>4 DEF Tuple, o
<1> QED BY <1>2, <1>3

\* Whether the query is misread depends on the filters alone.
LEMMA MisreadStays == UNCHANGED filters => (Misread' <=> Misread)
<1> SUFFICES ASSUME UNCHANGED filters PROVE Misread' <=> Misread
  OBVIOUS
<1>1. \A i : (\E f \in Parts(filters'[i], "all") : f.expr # None /\ \E x \in Nodes(f.expr) : NodeMisread(x))
          <=> (\E f \in Parts(filters[i], "all") : f.expr # None /\ \E x \in Nodes(f.expr) : NodeMisread(x))
  OBVIOUS
<1> QED BY <1>1 DEF Misread

\* A query that Postgres refuses keeps the invariant.
LEMMA RefuseScan == ScanInv /\ RefuseQuery => ScanInv'
<1> SUFFICES ASSUME ScanInv, RefuseQuery PROVE ScanInv'
  OBVIOUS
<1>1. /\ ScanTypeOK /\ QueryIs /\ SentIs /\ stage = "scan" /\ stage' = "refused" /\ Misread
      /\ UNCHANGED <<input, table, collation, filters, residual, query, next, sent, out>>
  BY DEF ScanInv, RefuseQuery
<1>2. Misread'
  BY <1>1, MisreadStays
<1>3. \A i : Part(i)' = Part(i)
  BY <1>1 DEF Part
<1>4. Where' = Where /\ OutputColumns(input)' = OutputColumns(input)
  BY <1>1, <1>3 DEF Where, OutputColumns
<1>5. QueryIs' /\ RaisedIs' /\ SentIs'
  BY <1>1, <1>2, <1>3, <1>4 DEF QueryIs, RaisedIs, SentIs
<1>6. ScanTypeOK'
  BY <1>1 DEF ScanTypeOK
<1>7. OutputAligned'
  BY <1>1, AlignedIs DEF ScanInv
<1> QED BY <1>5, <1>6, <1>7 DEF ScanInv

\* Scanning a row keeps the invariant.
LEMMA RowScan == ScanInv /\ ScanRow => ScanInv'
<1> SUFFICES ASSUME ScanInv, ScanRow PROVE ScanInv'
  OBVIOUS
<1>1. /\ ScanTypeOK /\ stage = "scan" /\ next < Len(table) /\ next' = next + 1 /\ SentIs
      /\ UNCHANGED <<stage, input, table, collation, filters, residual, query>>
      /\ query = [count |-> input.columns = <<>>, select |-> OutputColumns(input), where |-> Where]
      /\ \A i \in DOMAIN filters : Part(i) # Failed
  BY DEF ScanInv, QueryIs, ScanRow
<1> DEFINE row == table[next + 1]
<1>2. next \in Nat /\ next + 1 \in DOMAIN table /\ next + 1 \in 1..(next + 1) /\ \A r \in 1..next : r \in 1..(next + 1) /\ r # next + 1
  BY <1>1, InputIs DEF ScanTypeOK
<1>3. \A r \in 1..(next + 1) : r \in 1..next \/ r = next + 1
  BY <1>2
<1>4. \/ /\ Misread \/ Accepts(next + 1)
         /\ sent' = Append(sent, next + 1) /\ out' = Append(out, Tuple(input, row))
      \/ (Misread \/ ~Accepts(next + 1)) /\ UNCHANGED <<sent, out>>
  <2>1. query.where = Where /\ query.count = (input.columns = <<>>) /\ query.select = OutputColumns(input)
    BY <1>1
  <2>2. (\A c \in query.where : Eval(c[2], row[c[1]], Postgres) = "true") <=> Accepts(next + 1)
    BY <2>1 DEF Accepts
  <2>3. (IF query.count THEN <<>> ELSE [k \in DOMAIN query.select |-> row[query.select[k]]]) = Tuple(input, row)
    BY <2>1 DEF Tuple
  <2> QED BY <2>2, <2>3 DEF ScanRow
<1>5. Where' = Where /\ (\A i : Part(i)' = Part(i)) /\ \A r : Accepts(r)' <=> Accepts(r)
  <2>1. \A i : Part(i)' = Part(i)
    BY <1>1 DEF Part
  <2>2. Where' = Where
    BY <1>1, <2>1 DEF Where
  <2> QED BY <1>1, <2>1, <2>2 DEF Accepts, Postgres
<1>6. QueryIs' /\ RaisedIs'
  <2>1. OutputColumns(input)' = OutputColumns(input)
    BY <1>1 DEF OutputColumns
  <2> QED BY <1>1, <1>5, <2>1 DEF QueryIs, RaisedIs
<1>7. sent \in Seq(1..next) /\ sent \in Seq(1..(next + 1)) /\ out \in Seq(Seq(Values)) /\ next + 1 \in Nat
  BY <1>1, <1>2 DEF ScanTypeOK
<1>8. Len(out) = Len(sent) /\ \A k \in DOMAIN out : out[k] = WantedTuple(input, table[sent[k]])
  BY AlignedIs DEF ScanInv
<1>9. ASSUME Misread \/ Accepts(next + 1),
             sent' = Append(sent, next + 1), out' = Append(out, Tuple(input, row))
      PROVE  ScanInv'
  <2>1. sent' = Append(sent, next + 1) /\ out' = Append(out, Tuple(input, row))
    BY <1>9
  <2>2. Tuple(input, row) \in Seq(Values) /\ Tuple(input, row) = WantedTuple(input, row)
    BY <1>1, <1>2, TupleType, TupleIsWanted
  <2> DEFINE x == Tuple(input, row)
  <2>3. x \in Seq(Values) /\ x = WantedTuple(input, table[next + 1]) /\ out' = Append(out, x)
    BY <2>1, <2>2
  <2> HIDE DEF x, row
  <2>4. out' \in Seq(Seq(Values)) /\ sent' \in Seq(1..(next + 1))
    BY <1>2, <1>7, <2>1, <2>3
  <2>5. ScanTypeOK'
    BY <1>1, <1>7, <2>4 DEF ScanTypeOK
  <2>6. Range(sent') = Range(sent) \cup {next + 1}
    <3>1. /\ DOMAIN sent = 1..Len(sent) /\ DOMAIN sent' = 1..(Len(sent) + 1) /\ Len(sent) \in Nat
          /\ sent'[Len(sent) + 1] = next + 1 /\ \A i \in 1..Len(sent) : sent'[i] = sent[i]
      BY <1>7, <2>1
    <3>2. /\ Len(sent) + 1 \in 1..(Len(sent) + 1) /\ \A i \in 1..Len(sent) : i \in 1..(Len(sent) + 1)
          /\ \A i \in 1..(Len(sent) + 1) : i \in 1..Len(sent) \/ i = Len(sent) + 1
      BY <3>1
    <3> QED BY <3>1, <3>2 DEF Range
  <2>7. SentIs'
    <3>1. Misread \/ \A r \in 1..(next + 1) : r \in Range(sent') <=> Accepts(r)
      BY <1>1, <1>2, <1>3, <1>9, <2>6 DEF SentIs
    <3>2. Misread' <=> Misread
      BY <1>1, MisreadStays
    <3> QED BY <1>1, <1>5, <3>1, <3>2 DEF SentIs
  <2>8. OutputAligned'
    <3>1. /\ DOMAIN out = 1..Len(out) /\ DOMAIN out' = 1..(Len(out) + 1) /\ Len(out) \in Nat /\ Len(out') = Len(out) + 1
          /\ out'[Len(out) + 1] = x /\ \A i \in 1..Len(out) : out'[i] = out[i]
      BY <1>7, <2>3
    <3>2. /\ Len(sent') = Len(sent) + 1 /\ sent'[Len(sent) + 1] = next + 1 /\ \A i \in 1..Len(sent) : sent'[i] = sent[i]
      BY <1>7, <2>1
    <3>3. \A i \in 1..(Len(out) + 1) : i \in 1..Len(out) \/ i = Len(out) + 1
      BY <3>1
    <3>4. \A k \in DOMAIN out' : out'[k] = WantedTuple(input, table[sent'[k]])
      BY <1>8, <2>3, <3>1, <3>2, <3>3
    <3>5. Len(out') = Len(sent')
      BY <1>8, <3>1, <3>2
    <3> QED BY <1>1, <3>4, <3>5, AlignedIs
  <2> QED BY <1>6, <2>5, <2>7, <2>8 DEF ScanInv
<1>10. ASSUME Misread \/ ~Accepts(next + 1), UNCHANGED <<sent, out>> PROVE ScanInv'
  <2>1. sent' = sent /\ out' = out
    BY <1>10
  <2>2. ScanTypeOK'
    BY <1>1, <1>7, <2>1 DEF ScanTypeOK
  <2>3. next + 1 \notin Range(sent)
    <3> DEFINE S == 1..next
    <3>1. sent \in Seq(S)
      BY <1>7
    <3>2. next + 1 \notin S
      BY <1>2
    <3> HIDE DEF S
    <3>3. \A i \in DOMAIN sent : sent[i] \in S
      BY <3>1
    <3> QED BY <3>2, <3>3 DEF Range
  <2>4. SentIs'
    <3>1. Misread \/ \A r \in 1..(next + 1) : r \in Range(sent) <=> Accepts(r)
      BY <1>1, <1>3, <1>10, <2>3 DEF SentIs
    <3>2. Misread' <=> Misread
      BY <1>1, MisreadStays
    <3> QED BY <1>1, <1>5, <2>1, <3>1, <3>2 DEF SentIs
  <2>5. OutputAligned'
    BY <1>1, <1>8, <2>1, AlignedIs
  <2> QED BY <1>6, <2>2, <2>4, <2>5 DEF ScanInv
<1> QED BY <1>4, <1>9, <1>10

\* The inductive invariant.
LEMMA ScanInvariant == Spec => []ScanInv
<1>1. Init => ScanInv
  BY InitScan
<1>2. ScanInv /\ [Next]_vars => ScanInv'
  <2> SUFFICES ASSUME ScanInv, [Next]_vars PROVE ScanInv'
    OBVIOUS
  <2>1. CASE Optimize
    BY <2>1, OptimizeScan
  <2>2. CASE ConstructTableScanQuery
    BY <2>2, ConstructScan
  <2>3. CASE ScanRow
    BY <2>3, RowScan
  <2>5. CASE RefuseQuery
    BY <2>5, RefuseScan
  <2>4. CASE UNCHANGED vars
    <3>1. UNCHANGED <<stage, input, table, collation, filters, query, next, sent, out>>
      BY <2>4 DEF vars
    <3>2. ScanTypeOK' /\ OutputAligned'
      <4>1. ScanTypeOK'
        BY <3>1 DEF ScanInv, ScanTypeOK
      <4>2. OutputAligned'
        BY <3>1, AlignedIs DEF ScanInv
      <4> QED BY <4>1, <4>2
    <3>3. \A i : Part(i)' = Part(i)
      BY <3>1 DEF Part
    <3>4. Where' = Where
      BY <3>1, <3>3 DEF Where
    <3>5. \A r : Accepts(r)' <=> Accepts(r)
      BY <3>1, <3>4 DEF Accepts, Postgres
    <3>6. OutputColumns(input)' = OutputColumns(input)
      BY <3>1 DEF OutputColumns
    <3>9. Misread' <=> Misread
      BY <3>1, MisreadStays
    <3>7. QueryIs' /\ RaisedIs'
      BY <3>1, <3>3, <3>4, <3>6, <3>9 DEF ScanInv, QueryIs, RaisedIs
    <3>8. SentIs'
      BY <3>1, <3>5, <3>9 DEF ScanInv, SentIs
    <3> QED BY <3>2, <3>7, <3>8 DEF ScanInv
  <2> QED BY <2>1, <2>2, <2>3, <2>4, <2>5 DEF Next
<1> QED BY <1>1, <1>2, PTL DEF Spec

\* The invariant and ExtractMeans give FiltersAgree.
LEMMA FiltersAgreeByInv == ScanInv => FiltersAgree
<1> SUFFICES ASSUME ScanInv, ~KnownDifference, NEW r \in 1..next
             PROVE  /\ Wanted(r, "all") => r \in Range(sent)
                    /\ r \in Range(sent) => Wanted(r, "required")
  BY DEF FiltersAgree
<1>1. ScanTypeOK /\ QueryIs /\ SentIs
  BY DEF ScanInv
<1>2. \A i \in DOMAIN filters : Part(i) # Failed
  <2>1. next # 0
    BY <1>1 DEF ScanTypeOK
  <2> QED BY <1>1, <2>1 DEF QueryIs
<1>3. r \in DOMAIN table
  BY <1>1 DEF ScanTypeOK, ScanInv
<1>4. \A i \in DOMAIN filters : filters[i] # None => NoDifference(filters[i], collation)
  BY DEF KnownDifference, NoDifference
<1> DEFINE v(i) == table[r][input.columns[i]]
<1>5. DOMAIN filters = DOMAIN input.columns /\ \A i \in DOMAIN filters : v(i) \in Values
  BY <1>1, <1>3, InputIs DEF ScanTypeOK
<1>6. ASSUME NEW i \in DOMAIN filters, filters[i] # None
      PROVE  Means(filters[i], Part(i), "required", v(i), collation)
  BY <1>1, <1>4, <1>5, <1>6, PartIs DEF Extracted, MeansAll
<1>7. Accepts(r) <=> \A i \in DOMAIN filters : Part(i).count > 0 => Eval(Part(i).cond, v(i), Postgres) = "true"
  <2> DEFINE pair(i) == <<input.columns[i], Part(i).cond>>
  <2>1. \A i : pair(i)[1] = input.columns[i] /\ pair(i)[2] = Part(i).cond
    OBVIOUS
  <2>2. /\ \A i \in DOMAIN filters : Part(i).count > 0 => pair(i) \in Where
        /\ \A c \in Where : \E i \in DOMAIN filters : Part(i).count > 0 /\ c = pair(i)
    BY DEF Where
  <2> HIDE DEF pair
  <2> QED BY <2>1, <2>2 DEF Accepts
<1>8. \A i \in DOMAIN filters : /\ Part(i).count = 0 \/ Part(i).count > 0
                                /\ Part(i).count > 0 => filters[i] # None
  <2> SUFFICES ASSUME NEW i \in DOMAIN filters
               PROVE  (Part(i).count = 0 \/ Part(i).count > 0) /\ (Part(i).count > 0 => filters[i] # None)
    OBVIOUS
  <2>1. Shape(Part(i), CondDepth) /\ (filters[i] = None => Part(i) = Dropped)
    BY <1>1, PartIs
  <2> QED BY <1>2, <2>1, ShapeCount DEF Dropped
<1>9. r \in Range(sent) <=> Accepts(r)
  <2>1. ~Misread
    BY DEF KnownDifference, Misread, Differs, NodeDiffers
  <2> QED BY <1>1, <2>1 DEF SentIs
<1>10. ASSUME Wanted(r, "all") PROVE Accepts(r)
  <2> SUFFICES ASSUME NEW i \in DOMAIN filters, Part(i).count > 0
               PROVE  Eval(Part(i).cond, v(i), Postgres) = "true"
    BY <1>7
  <2>1. filters[i] # None
    BY <1>8
  <2>2. Holds(filters[i], v(i), "all") = "true"
    BY <1>10, <2>1 DEF Wanted
  <2>3. Means(filters[i], Part(i), "required", v(i), collation)
    BY <1>6, <2>1
  <2> HIDE DEF v
  <2> QED BY <2>2, <2>3 DEF Means, Postgres
<1>11. ASSUME Accepts(r) PROVE Wanted(r, "required")
  <2> SUFFICES ASSUME NEW i \in DOMAIN filters, filters[i] # None
               PROVE  Holds(filters[i], v(i), "required") = "true"
    BY DEF Wanted
  <2>1. Means(filters[i], Part(i), "required", v(i), collation)
    BY <1>6
  <2>2. Part(i).count > 0 => Eval(Part(i).cond, v(i), PostgresWith(collation)) = "true"
    BY <1>7, <1>11 DEF Postgres
  <2> HIDE DEF v
  <2> QED BY <1>8, <2>1, <2>2 DEF Means
<1> QED BY <1>9, <1>10, <1>11

\* The invariant and ExtractMeans give RefusedForCause.
LEMMA RefusedByInv == ScanInv => RefusedForCause
<1> SUFFICES ASSUME ScanInv PROVE RefusedForCause
  OBVIOUS
<1>1. ScanTypeOK /\ QueryIs /\ RaisedIs
  BY DEF ScanInv
<1>2. ASSUME stage = "raised"
      PROVE  \E i \in DOMAIN filters : filters[i] # None /\
               \E f \in Parts(filters[i], "required") : f.type \in Refused
  <2>1. PICK i \in DOMAIN filters : Part(i) = Failed
    BY <1>1, <1>2 DEF RaisedIs
  <2>2. filters[i] # None
    <3>1. Failed # Dropped
      BY DEF Failed, Dropped
    <3> QED BY <1>1, <2>1, <3>1, PartIs
  <2>3. Extracted(filters[i], Part(i), "required", CondDepth)
    BY <1>1, <2>2, PartIs
  <2> QED BY <2>1, <2>2, <2>3 DEF Extracted, HasCause
<1>3. ASSUME query # None, NEW c \in query.where PROVE c[2] # Unsupported
  <2>1. query.where = Where
    BY <1>1, <1>3 DEF QueryIs
  <2>2. PICK i \in DOMAIN filters : Part(i).count > 0 /\ c = <<input.columns[i], Part(i).cond>>
    BY <1>3, <2>1 DEF Where
  <2>3. Part(i).cond \in Condition
    BY <1>1, <2>2, PartIs, ShapeCount DEF Condition
  <2> QED BY <2>2, <2>3, TreeAssumption
<1>4. stage = "refused" => Misread
  BY <1>1 DEF RaisedIs
<1> QED BY <1>2, <1>3, <1>4 DEF RefusedForCause

-----------------------------------------------------------------------------
(* Results *)

\* The pattern that FuncArgToLikeString makes of a constant needle, after it has
\* escaped it, matches under LIKE ... ESCAPE '\' exactly the texts that DuckDB's
\* prefix, suffix or contains accepts: for every text and every needle, with
\* wildcards and backslashes anywhere in it.
THEOREM NeedlesMatchLiterally ==
  ASSUME NEW s \in Texts, NEW n \in Texts
  PROVE  /\ Like(s, FuncArgToLikeString("prefix", Const(n)).val, <<"bs">>) <=> Prefix(s, n)
         /\ Like(s, FuncArgToLikeString("suffix", Const(n)).val, <<"bs">>) <=> Suffix(s, n)
         /\ Like(s, FuncArgToLikeString("contains", Const(n)).val, <<"bs">>) <=> Contains(s, n)
<1>1. n # Null
  BY LogicalTypes
<1>2. \A func : FuncArgToLikeString(func, Const(n)).val = Pattern(func, n)
  <2> SUFFICES ASSUME NEW func PROVE FuncArgToLikeString(func, Const(n)).val = Pattern(func, n)
    OBVIOUS
  <2>1. Const(n).op = "const" /\ Const(n).val = n
    BY DEF Const
  <2>2. FuncArgToLikeString(func, Const(n)) = Const(Pattern(func, n))
    BY <1>1, <2>1 DEF FuncArgToLikeString, Pattern
  <2> QED BY <2>2 DEF Const
<1> QED BY <1>2, PrefixLike, SuffixLike, ContainsLike

\* An expression of any depth that the scan says it can evaluate has in Postgres,
\* parsed from the text that ExpressionToString writes, the value that DuckDB
\* gives to it, unless it holds one of the known differences.
THEOREM PushedExpressionsAgree ==
  ASSUME NEW e \in Expr, PostgresScanPushdownExpression(e), NEW v \in Values, NEW c, ~Differs(e, c)
  PROVE  Eval(ExpressionToString(e), v, PostgresWith(c)) = Eval(e, v, DuckDB)
<1>1. Eval(ExpressionToString(e), v, PostgresWith(c)) = Eval(e, v, PostgresWith(c))
  BY StringValue DEF PostgresScanPushdownExpression
<1>2. Eval(e, v, PostgresWith(c)) = Eval(e, v, DuckDB)
  BY EvalAgrees
<1> QED BY <1>1, <1>2

\* The rows a scan has sent are those that its filters ask for, however the
\* filters are nested and whatever DuckDB's optimizer adds to them: none that
\* all of a filter accepts is left out by ExtractQueryFilters, and none is sent
\* that a part which is not optional rejects.
THEOREM ScanFiltersAgree == Spec => []FiltersAgree
BY ScanInvariant, FiltersAgreeByInv, PTL

\* The output chunks hold the columns that DuckDB asked for, in its order, for
\* every choice of columns and of a projection (OutputColumns, InsertTupleIntoChunk).
THEOREM ScanOutputAligned == Spec => []OutputAligned
<1>1. ScanInv => OutputAligned
  BY DEF ScanInv
<1> QED BY <1>1, ScanInvariant, PTL

\* ExtractQueryFilters throws only for a filter of a kind that it cannot write
\* and that is not inside an optional filter, and every condition of the query
\* was written.
THEOREM ScanRefusesForCause == Spec => []RefusedForCause
BY ScanInvariant, RefusedByInv, PTL
=============================================================================
