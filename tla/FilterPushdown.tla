--------------------------- MODULE FilterPushdown ---------------------------
(***************************************************************************)
(* The query that a scan of a Postgres table runs in Postgres              *)
(* (scan/postgres_scan.cpp).  DuckDB hands the scan the columns to read,   *)
(* those of them to put out, and a filter for some of the columns; it does *)
(* not look at the filters again.  The filters become the WHERE of the     *)
(* query, as text, so what counts is how Postgres parses and evaluates it. *)
(*                                                                         *)
(* Text values are sequences of characters; expressions are trees.  A      *)
(* condition that Postgres evaluates is the tree it parses from the text.  *)
(* What is computed along a tree is a function over the trees of a depth   *)
(* that applies an operator to a node and the results of its children.     *)
(***************************************************************************)
EXTENDS Integers, Sequences, Functions

CONSTANTS
  Null,
  Unsupported,      \* std::nullopt: Postgres cannot evaluate the expression
  None,             \* no filter, no expression
  MaxDepth,         \* of the expressions and of the filters DuckDB asks for
  Inputs,           \* what DuckDB asks of a scan
  Tables(_),        \* tables it may be asked of: sequences of rows
  Collations        \* of the text columns: "C" compares as DuckDB does

VARIABLES
  stage,       \* "optimize", "init", "scan", or the ends "raised" and "refused"
  input,       \* columns, projection, filters, expr: TableFunctionInitInput
  table,       \* the rows of the table
  collation,   \* the collation of its columns
  filters,     \* the filters handed to the scan, by index into the columns
  residual,    \* the expression DuckDB evaluates above the scan
  query,       \* the query text, as Postgres parses it
  next,        \* the rows Postgres has looked at
  sent,        \* the rows it has sent (history)
  out          \* the tuples in the output chunks
vars == <<stage, input, table, collation, filters, residual, query, next, sent, out>>

-----------------------------------------------------------------------------
(* Expressions: op, arguments, and the value of a constant *)

Chars == {"%", "_", "bs", "a", "A"}
Texts == Seq(Chars)
Values == Texts \cup {Null}

Col == [op |-> "col", args |-> <<>>, val |-> Null]
Const(v) == [op |-> "const", args |-> <<>>, val |-> v]
Op(op, args) == [op |-> op, args |-> args, val |-> Null]

\* < stands for >, and >= for <= too.
Comparisons == {"=", "<>", "<", ">=", "distinct", "notdistinct"}
LikeFunctions == {"contains", "prefix", "suffix", "like_escape", "ilike_escape"}
\* regexp stands for every function that the scan does not know.
Ops == {"col", "const", "lower", "upper", "not", "isnull", "isnotnull", "between",
        "and", "or", "~~", "!~~", "regexp"} \cup Comparisons \cup LikeFunctions

ReturnsText(e) == e.op \in {"col", "const", "lower", "upper"}

\* The arguments fit the operator.
WellTyped(e) ==
  LET n == Len(e.args)
      text(i) == ReturnsText(e.args[i])
  IN CASE e.op \in {"col", "const"} -> n = 0
       [] e.op \in {"lower", "upper"} -> n = 1 /\ text(1)
       [] e.op = "not" -> n = 1 /\ ~text(1)
       [] e.op \in {"isnull", "isnotnull", "regexp"} -> n = 1
       [] e.op \in Comparisons \cup {"between"} ->
            /\ n = IF e.op = "between" THEN 3 ELSE 2
            /\ \A i \in 2..n : text(i) <=> text(1)
       [] e.op \in {"and", "or"} -> n > 0 /\ \A i \in 1..n : ~text(i)
       [] e.op \in {"like_escape", "ilike_escape"} -> n = 3 /\ text(2) /\ text(3)
       [] OTHER -> n = 2 /\ text(2)

\* A condition has at most three levels for each of an expression, and those of
\* the filter around it.
CondDepth == 4 * MaxDepth + 1
ExprsUpTo[n \in 0..CondDepth] ==
  IF n = 0 THEN {}
  ELSE {e \in [op : Ops, args : Seq(ExprsUpTo[n - 1]), val : Values] : WellTyped(e)}

\* What DuckDB asks for, and what Postgres may parse.
Expr == ExprsUpTo[MaxDepth]
Condition == ExprsUpTo[CondDepth]

-----------------------------------------------------------------------------
(* Evaluation (external): three truth values, text with wildcards *)

Truth(p) == IF p THEN "true" ELSE "false"
Not3(a) == IF a = "true" THEN "false" ELSE IF a = "false" THEN "true" ELSE Null
And3(S) == IF "false" \in S THEN "false" ELSE IF Null \in S THEN Null ELSE "true"

LowerOf(c) == IF c = "A" THEN "a" ELSE c
UpperOf(c) == IF c = "a" THEN "A" ELSE c
Lowered(s) == [i \in DOMAIN s |-> LowerOf(s[i])]
Uppered(s) == [i \in DOMAIN s |-> UpperOf(s[i])]

\* The positions of s from where it matches p from j on, given those for p from
\* j + 1 and from j + 2 on.  An empty esc escapes nothing.  A pattern that ends
\* with its escape, an error in both databases, matches nothing here.
LikeStep(s, p, esc, j, one, two) ==
  IF j > Len(p) THEN {Len(s) + 1}
  ELSE IF <<p[j]>> = esc THEN {i \in 1..Len(s) : j < Len(p) /\ s[i] = p[j + 1] /\ i + 1 \in two}
  ELSE IF p[j] = "%" THEN {i \in 1..(Len(s) + 1) : \E k \in one : i <= k}
  ELSE {i \in 1..Len(s) : p[j] \in {"_", s[i]} /\ i + 1 \in one}
LikeFrom(s, p, esc) ==
  LET from[j \in 1..(Len(p) + 2)] == LikeStep(s, p, esc, j, from[j + 1], from[j + 2])
  IN  from
\* s LIKE p ESCAPE esc
Like(s, p, esc) == 1 \in LikeFrom(s, p, esc)[1]

\* The order of characters: byte by byte, or with the cases side by side.
Rank(c, order) ==
  IF order = "C" THEN [o \in Chars |->
       CASE o = "%" -> 1 [] o = "A" -> 2 [] o = "bs" -> 3 [] o = "_" -> 4 [] OTHER -> 5][c]
  ELSE [o \in Chars |->
       CASE o = "_" -> 1 [] o = "%" -> 2 [] o = "bs" -> 3 [] o = "a" -> 4 [] OTHER -> 5][c]
Before(s, t, order) ==
  \E k \in 0..Len(s) :
    /\ k <= Len(t) /\ SubSeq(s, 1, k) = SubSeq(t, 1, k)
    /\ \/ k = Len(s) /\ k < Len(t)
       \/ k < Len(s) /\ k < Len(t) /\ Rank(s[k + 1], order) < Rank(t[k + 1], order)

\* The order of two texts, or FALSE before TRUE.
Less(a, b, order) ==
  IF order = "boolean" THEN a = "false" /\ b = "true" ELSE Before(a, b, order)

Compare(o, a, b, order) ==
  IF o = "distinct" THEN Truth(a # b)
  ELSE IF o = "notdistinct" THEN Truth(a = b)
  ELSE IF a = Null \/ b = Null THEN Null
  ELSE IF o = "=" THEN Truth(a = b)
  ELSE IF o = "<>" THEN Truth(a # b)
  ELSE IF o = "<" THEN Truth(Less(a, b, order))
  ELSE Truth(~Less(a, b, order))

\* Functions of values that are not NULL.  DuckDB's own ~~ has no escape
\* character, that of Postgres has the backslash.
Contains(s, t) == \E k \in 0..(Len(s) - Len(t)) : SubSeq(s, k + 1, k + Len(t)) = t
Prefix(s, t) == Len(t) <= Len(s) /\ SubSeq(s, 1, Len(t)) = t
Suffix(s, t) == Len(t) <= Len(s) /\ SubSeq(s, Len(s) - Len(t) + 1, Len(s)) = t
Apply(op, a, db) ==
  CASE op = "contains" -> Truth(Contains(a[1], a[2]))
    [] op = "prefix" -> Truth(Prefix(a[1], a[2]))
    [] op = "suffix" -> Truth(Suffix(a[1], a[2]))
    [] op = "like_escape" -> Truth(Like(a[1], a[2], a[3]))
    [] op = "ilike_escape" -> Truth(Like(Lowered(a[1]), Lowered(a[2]), a[3]))
    [] op = "~~" -> Truth(Like(a[1], a[2], db.escape))
    [] op = "!~~" -> Truth(~Like(a[1], a[2], db.escape))
    [] op = "lower" -> Lowered(a[1])
    [] op = "upper" -> Uppered(a[1])
    [] OTHER -> Truth(a[1] = <<>>)

\* The value of a node whose arguments have the values a, in a row with v.
EvalNode(e, a, v, db) ==
  LET order == IF ReturnsText(e.args[1]) THEN db.collation ELSE "boolean"
  IN CASE e.op = "col" -> v
       [] e.op = "const" -> e.val
       [] e.op = "not" -> Not3(a[1])
       [] e.op = "isnull" -> Truth(a[1] = Null)
       [] e.op = "isnotnull" -> Truth(a[1] # Null)
       [] e.op \in Comparisons -> Compare(e.op, a[1], a[2], order)
       [] e.op = "between" -> And3({Compare(">=", a[1], a[2], order), Compare("<", a[1], a[3], order)})
       [] e.op = "and" -> And3({a[i] : i \in DOMAIN a})
       [] e.op = "or" -> Not3(And3({Not3(a[i]) : i \in DOMAIN a}))
       [] OTHER -> IF \E i \in DOMAIN a : a[i] = Null THEN Null ELSE Apply(e.op, a, db)
Eval(e, v, db) ==
  LET value[x \in Condition] ==
        EvalNode(x, [i \in DOMAIN x.args |-> value[x.args[i]]], v, db)
  IN  value[e]

DuckDB == [escape |-> <<>>, collation |-> "C"]
PostgresWith(c) == [escape |-> <<"bs">>, collation |-> c]
Postgres == PostgresWith(collation)

-----------------------------------------------------------------------------
(* ExpressionToString *)

\* StringUtil::Replace: a backslash before each character of S.
QuoteStep(sofar, c, S) == sofar \o (IF c \in S THEN <<"bs", c>> ELSE <<c>>)
QuoteLoop(s, S) ==
  LET loop[i \in 0..Len(s)] == IF i = 0 THEN <<>> ELSE QuoteStep(loop[i - 1], s[i], S)
  IN  loop
Quote(s, S) == QuoteLoop(s, S)[Len(s)]

\* FuncArgToLikeString: the needle as a pattern.
EscapeNeedleWildcardsFirst(s) == Quote(Quote(s, {"%", "_"}), {"bs"})
EscapeNeedle(s) == Quote(Quote(s, {"bs"}), {"%", "_"})

FuncArgToLikeString(func, needle) ==
  IF needle.op # "const" THEN Unsupported
  ELSE IF needle.val = Null THEN Const(Null)
  ELSE Const((IF func = "prefix" THEN <<>> ELSE <<"%">>) \o EscapeNeedle(needle.val)
             \o (IF func = "suffix" THEN <<>> ELSE <<"%">>))

\* A comparison of the first argument of e is written left op right, in
\* parentheses: a NOT on the left is parsed as the negation of the comparison.
Comparison(op, e, left, right) ==
  IF e.args[1].op = "not" THEN Op("not", <<Op(op, <<left.args[1], right>>)>>)
  ELSE Op(op, <<left, right>>)

\* FuncToLikeString, for what the arguments are written as: without a third
\* argument the backslash escapes.
FuncToLikeString(e, arg) ==
  LET needle == IF e.op \in {"like_escape", "ilike_escape"} THEN arg[2]
                ELSE FuncArgToLikeString(e.op, e.args[2])
      escape == IF Len(e.args) = 3 THEN arg[3] ELSE Const(<<"bs">>)
  IN  IF ~ReturnsText(e.args[1]) \/ Unsupported \in {arg[1], needle, escape}
      THEN Unsupported
      ELSE Op(IF e.op = "ilike_escape" THEN "ilike_escape" ELSE "like_escape",
              <<arg[1], needle, escape>>)

NodeToString(e, arg) ==
  IF e.op \in LikeFunctions THEN FuncToLikeString(e, arg)
  ELSE IF \E i \in DOMAIN arg : arg[i] = Unsupported THEN Unsupported
  ELSE
  CASE e.op \in {"col", "const"} -> e
    [] e.op \in Comparisons -> Comparison(e.op, e, arg[1], arg[2])
    [] e.op = "between" -> Op("and", <<Comparison(">=", e, arg[1], arg[2]), Comparison("<", e, arg[1], arg[3])>>)
    [] e.op \in {"not", "isnull", "isnotnull", "and", "or", "lower", "upper"} -> Op(e.op, arg)
    [] e.op \in {"~~", "!~~"} -> IF ReturnsText(e.args[1]) THEN Op(e.op, arg) ELSE Unsupported
    [] OTHER -> Unsupported
ExpressionToString(e) ==
  LET string[x \in Expr] == NodeToString(x, [i \in DOMAIN x.args |-> string[x.args[i]]])
  IN  string[e]

PostgresScanPushdownExpression(e) == ExpressionToString(e) # Unsupported

-----------------------------------------------------------------------------
(* ExtractQueryFilters *)

\* A table filter: its type, children, and its condition if it has no children.
Filter(type, kids, expr) == [type |-> type, kids |-> kids, expr |-> expr]
Plain == {"constant", "isnull", "isnotnull", "in"}
Refused == {"dynamic", "struct"}
FilterTypes == {"and", "or", "optional", "expression"} \cup Plain \cup Refused

WellFormed(f) ==
  CASE f.type \in {"and", "or"} -> f.expr = None /\ Len(f.kids) > 0
    [] f.type = "optional" -> f.expr = None /\ Len(f.kids) = 1
    [] OTHER -> /\ Len(f.kids) = 0 /\ f.expr # None /\ ~ReturnsText(f.expr)
                /\ f.type = "expression" => PostgresScanPushdownExpression(f.expr)

FiltersUpTo[n \in 0..(MaxDepth + 1)] ==
  IF n = 0 THEN {}
  ELSE {f \in [type : FilterTypes, kids : Seq(FiltersUpTo[n - 1]), expr : Expr \cup {None}] : WellFormed(f)}
\* The optimizer puts an AND on top of a filter.
TableFilter == FiltersUpTo[MaxDepth + 1]

ASSUME NullAssumption == Null \notin Texts \cup {"true", "false"}
ASSUME TreeAssumption ==
  MaxDepth \in Nat /\ Unsupported \notin Condition /\ None \notin Condition \cup TableFilter

\* A column is asked for once; there is a filter, or None, for each.
ASSUME InputAssumption ==
  \A i \in Inputs :
    /\ i.columns \in Seq(Nat) /\ \A j, k \in DOMAIN i.columns : i.columns[j] = i.columns[k] => j = k
    /\ i.projection # None => i.projection \in Seq(DOMAIN i.columns)
    /\ i.filters \in [DOMAIN i.columns -> FiltersUpTo[MaxDepth] \cup {None}]
    /\ i.expr # None => i.expr \in Expr /\ ~ReturnsText(i.expr) /\ Len(i.columns) > 0
    /\ \A t \in Tables(i) : /\ t \in Seq(Seq(Values))
                            /\ \A r \in DOMAIN t : Range(i.columns) \subseteq DOMAIN t[r]

Dropped == [count |-> 0, cond |-> None]
Failed == [count |-> -1, cond |-> None]
One(cond) == [count |-> 1, cond |-> cond]

\* The loop over the children: those kept, and how it ended early, by a throw
\* or because an OR without the child would be stricter.
JoinStep(type, sofar, kid) ==
  IF sofar.ended # "no" THEN sofar
  ELSE IF kid.count < 0 THEN [sofar EXCEPT !.ended = "failed"]
  ELSE IF kid.count > 0 THEN [sofar EXCEPT !.conds = Append(@, kid.cond)]
  ELSE IF type = "or" THEN [sofar EXCEPT !.ended = "dropped"]
  ELSE sofar
JoinLoop(type, kids) ==
  LET loop[i \in 0..Len(kids)] ==
        IF i = 0 THEN [ended |-> "no", conds |-> <<>>] ELSE JoinStep(type, loop[i - 1], kids[i])
  IN  loop
Join(type, kids) ==
  LET end == JoinLoop(type, kids)[Len(kids)] IN
  IF end.ended = "failed" THEN Failed
  ELSE IF end.ended = "dropped" \/ end.conds = <<>> THEN Dropped
  ELSE [count |-> Len(end.conds), cond |-> Op(type, end.conds)]

\* Where a filter is met: is_inside_optional_filter.
Places == {"required", "optional"}
InsideOptionalForgotten(f, place) == place
InsideOptional(f, place) == IF f.type = "optional" THEN "optional" ELSE place

\* The filter at a place, for what its children became at theirs.
ExtractNode(f, kids, place) ==
  CASE f.type \in Plain -> One(f.expr)
    [] f.type \in {"and", "or"} -> Join(f.type, kids)
    [] f.type = "optional" -> kids[1]
    [] f.type = "expression" -> One(ExpressionToString(f.expr))
    [] OTHER -> IF place = "optional" THEN Dropped ELSE Failed
AtPlaces(f, kids) ==
  [p \in Places |-> ExtractNode(f, [i \in DOMAIN kids |-> kids[i][InsideOptional(f, p)]], p)]
ExtractAtPlaces(f) ==
  LET extract[x \in TableFilter] == AtPlaces(x, [i \in DOMAIN x.kids |-> extract[x.kids[i]]])
  IN  extract[f]
ExtractQueryFilters(f, place) == ExtractAtPlaces(f)[place]

-----------------------------------------------------------------------------
(* What Postgres reads in the text *)

\* An expression and all below it.
NodesOf(e, below) == {e} \cup UNION Range(below)
Nodes(e) ==
  LET nodes[x \in Expr] == NodesOf(x, [i \in DOMAIN x.args |-> nodes[x.args[i]]])
  IN  nodes[e]

\* The parts of a filter: all, or without what is optional.
PartsOf(f, below, scope) ==
  {f} \cup (IF scope = "required" /\ f.type = "optional" THEN {} ELSE UNION Range(below))
Parts(f, scope) ==
  LET parts[x \in TableFilter] == PartsOf(x, [i \in DOMAIN x.kids |-> parts[x.kids[i]]], scope)
  IN  parts[f]

\* An IS NULL on the right of a comparison is written without parentheses around
\* it.  Postgres takes it for an IS NULL of the comparison, which it refuses if
\* the types do not fit, and refuses two IS in a row: what it makes of such a
\* query is left open.
NodeMisread(e) ==
  /\ e.op \in Comparisons \cup {"between"}
  /\ \E i \in 2..Len(e.args) : e.args[i].op \in {"isnull", "isnotnull"}
Misread ==
  \E i \in DOMAIN filters : filters[i] # None /\
    \E f \in Parts(filters[i], "all") : f.expr # None /\ \E x \in Nodes(f.expr) : NodeMisread(x)

-----------------------------------------------------------------------------
(* The scan *)

\* The attributes to put out, in the order DuckDB wants them.
OutputColumnsUnprojected(i) == i.columns
OutputColumns(i) ==
  IF i.projection # None THEN [k \in DOMAIN i.projection |-> i.columns[i.projection[k]]] ELSE i.columns

Init ==
  /\ stage = "optimize"
  /\ input \in Inputs /\ table \in Tables(input) /\ collation \in Collations
  /\ filters = input.filters
  /\ residual = None /\ query = None
  /\ next = 0 /\ sent = <<>> /\ out = <<>>

\* DuckDB's optimizer (external) hands an expression over the column to the
\* scan if the scan says that it can evaluate it, beside the filter there is.
Optimize ==
  /\ stage = "optimize"
  /\ stage' = "init"
  /\ IF input.expr # None /\ PostgresScanPushdownExpression(input.expr)
     THEN /\ filters' = [filters EXCEPT ![1] =
                LET e == Filter("expression", <<>>, input.expr) IN
                IF @ = None THEN e ELSE Filter("and", <<@, e>>, None)]
          /\ UNCHANGED residual
     ELSE residual' = input.expr /\ UNCHANGED filters
  /\ UNCHANGED <<input, table, collation, query, next, sent, out>>

\* ConstructTableScanQuery, when the global state is made.
ConstructTableScanQuery ==
  /\ stage = "init"
  /\ LET parts == [i \in DOMAIN filters |->
                     IF filters[i] = None THEN Dropped ELSE ExtractQueryFilters(filters[i], "required")]
         conds == {<<input.columns[i], parts[i].cond>> : i \in {i \in DOMAIN parts : parts[i].count > 0}}
     IN  IF \E i \in DOMAIN parts : parts[i] = Failed
         THEN stage' = "raised" /\ UNCHANGED query
         ELSE /\ stage' = "scan"
              /\ query' = [count |-> input.columns = <<>>, select |-> OutputColumns(input), where |-> conds]
  /\ UNCHANGED <<input, table, collation, filters, residual, next, sent, out>>

\* Postgres (external) cannot parse the query.
RefuseQuery ==
  /\ stage = "scan" /\ next = 0 /\ Misread
  /\ stage' = "refused"
  /\ UNCHANGED <<input, table, collation, filters, residual, query, next, sent, out>>

\* Postgres looks at a row, and InsertTupleIntoChunk puts it out; for
\* COUNT( * ) only the number of output rows grows.
ScanRow ==
  /\ stage = "scan" /\ next < Len(table)
  /\ next' = next + 1
  /\ LET row == table[next + 1]
         holds == \A c \in query.where : Eval(c[2], row[c[1]], Postgres) = "true"
     IN  \/ /\ Misread \/ holds
            /\ sent' = Append(sent, next + 1)
            /\ out' = Append(out, IF query.count THEN <<>>
                                  ELSE [k \in DOMAIN query.select |-> row[query.select[k]]])
         \/ /\ Misread \/ ~holds
            /\ UNCHANGED <<sent, out>>
  /\ UNCHANGED <<stage, input, table, collation, filters, residual, query>>

Next == Optimize \/ ConstructTableScanQuery \/ RefuseQuery \/ ScanRow

Spec == Init /\ [][Next]_vars

-----------------------------------------------------------------------------
(* Properties *)

\* DuckDB's meaning of a filter: all of it, or without what is optional.
HoldsNode(f, kids, v, scope) ==
  CASE f.type = "and" -> Truth(\A i \in DOMAIN kids : kids[i] = "true")
    [] f.type = "or" -> Truth(\E i \in DOMAIN kids : kids[i] = "true")
    [] f.type = "optional" -> Truth(scope = "required" \/ kids[1] = "true")
    [] OTHER -> Truth(Eval(f.expr, v, DuckDB) = "true")
Holds(f, v, scope) ==
  LET holds[x \in TableFilter] ==
        HoldsNode(x, [i \in DOMAIN x.kids |-> holds[x.kids[i]]], v, scope)
  IN  holds[f]

\* What Postgres evaluates in another way: a backslash in a pattern of ~~, a
\* NOT left of a comparison, an order by a collation, an IS NULL right of a
\* comparison.
NodeDiffers(e, order) ==
  \/ e.op \in {"~~", "!~~"} /\ (e.args[2].op # "const" \/ (e.args[2].val # Null /\ "bs" \in Range(e.args[2].val)))
  \/ e.op \in {"<", ">=", "between", "distinct", "notdistinct"} /\ e.args[1].op = "not"
  \/ e.op \in {"<", ">=", "between"} /\ ReturnsText(e.args[1]) /\ order # "C"
  \/ NodeMisread(e)
Differs(e, order) == \E x \in Nodes(e) : NodeDiffers(x, order)
KnownDifference ==
  \E i \in DOMAIN filters : filters[i] # None /\
    \E f \in Parts(filters[i], "all") : f.expr # None /\ Differs(f.expr, collation)

\* Rows that DuckDB must get, and rows that it may get.
Wanted(r, scope) ==
  \A i \in DOMAIN filters : filters[i] # None =>
    Holds(filters[i], table[r][input.columns[i]], scope) = "true"

\* The scan leaves out no row that its filters accept and sends none that a
\* filter which is not optional rejects, NULLs included: DuckDB does not look
\* again (ExtractQueryFilters and ExpressionToString against DuckDB's own
\* evaluation of the same filters).
FiltersAgree == ~KnownDifference =>
  \A r \in 1..next :
    /\ Wanted(r, "all") => r \in Range(sent)
    /\ r \in Range(sent) => Wanted(r, "required")

\* The n-th vector of an output chunk has the n-th column that DuckDB asked
\* for, row by row in the order of the table, whatever columns are read for a
\* filter alone; COUNT( * ) puts out one row for each row.
OutputAligned ==
  /\ Len(out) = Len(sent)
  /\ \A k \in DOMAIN out :
       LET row == table[sent[k]]
           wanted == IF input.projection = None THEN [j \in DOMAIN input.columns |-> j] ELSE input.projection
       IN  out[k] = [j \in DOMAIN wanted |-> row[input.columns[wanted[j]]]]

\* The scan throws only for a filter that it cannot leave out, the query it
\* made is refused only if it is misread, and it never takes the text of an
\* expression that it cannot write (ExtractQueryFilters dereferences the result
\* of ExpressionToString).
RefusedForCause ==
  /\ stage = "raised" =>
       \E i \in DOMAIN filters : filters[i] # None /\
         \E f \in Parts(filters[i], "required") : f.type \in Refused
  /\ stage = "refused" => Misread
  /\ query # None => \A c \in query.where : c[2] # Unsupported
=============================================================================
