-------------------------- MODULE MCFilterPushdown --------------------------
(* Small expressions, filters, columns and rows for FilterPushdown.         *)
EXTENDS FilterPushdown

ShortTexts(n) == UNION {[1..k -> {"a", "A", "%", "_", "bs"}] : k \in 0..n}
Some == {<<>>, <<"a">>, <<"A">>, <<"a", "A">>, Null}

Lower == Op("lower", <<Col>>)
LikeCalls ==
  {Op(f, <<t, Const(n)>>) : f \in {"contains", "prefix", "suffix"}, t \in {Col, Lower}, n \in ShortTexts(2) \cup {Null}}
  \cup {Op(f, <<Col, Const(p), Const(e)>>) :
          f \in {"like_escape", "ilike_escape"}, p \in ShortTexts(2), e \in {<<"bs">>, <<>>, <<"_">>, Null}}
  \cup {Op(f, <<t, Const(p)>>) : f \in {"~~", "!~~"}, t \in {Col, Op("upper", <<Col>>)}, p \in ShortTexts(2)}
Simple ==
  {Op(o, <<t, Const(c)>>) : o \in Comparisons, t \in {Col, Lower}, c \in Some}
  \cup {Op("between", <<Col, Const(c), Const(d)>>) : c, d \in Some}
  \cup {Op("contains", <<Col, Lower>>), Op("~~", <<Col, Lower>>), Op("regexp", <<Col>>), Op("prefix", <<Op("regexp", <<Col>>), Const(<<>>)>>)}
Core == {Op("contains", <<Col, Const(<<"a">>)>>), Op("~~", <<Col, Const(<<"A", "%">>)>>),
         Op("=", <<Col, Const(<<"a">>)>>), Op("regexp", <<Col>>)}
CoreOrNot == Core \cup {Op("not", <<e>>) : e \in Core}
Nested ==
  {Op(o, <<e>>) : o \in {"not", "isnull", "isnotnull"}, e \in CoreOrNot \cup {Col}}
  \cup {Op(o, <<e, f>>) : o \in Comparisons \cup {"and", "or"}, e, f \in CoreOrNot}
  \cup {Op("not", <<Op("or", <<e, f>>)>>) : e, f \in Core}
  \cup {Op("between", <<e, f, g>>) : e \in CoreOrNot, f, g \in Core}
  \cup {Op(o, <<e, Op(n, <<x>>)>>) : o \in Comparisons, e \in CoreOrNot, n \in {"isnull", "isnotnull"}, x \in {Col} \cup Core}
  \cup {Op(o, <<Op("isnull", <<x>>), e>>) : o \in Comparisons, e \in Core, x \in {Col} \cup Core}
  \cup {Op("between", <<e, f, Op("isnull", <<Col>>)>>) : e, f \in Core}
  \cup {Op(o, <<Op("=", <<Op("not", <<e>>), f>>), g>>) : o \in Comparisons, e, f, g \in Core}
Expressions == LikeCalls \cup Simple \cup {e \in Nested : e # Op("not", <<Col>>)}

Leaf(type, e) == Filter(type, <<>>, e)
Leaves == {Leaf("constant", Op("=", <<Col, Const(<<"a">>)>>)), Leaf("constant", Op("<", <<Col, Const(<<"a", "A">>)>>)),
           Leaf("isnull", Op("isnull", <<Col>>)), Leaf("isnotnull", Op("isnotnull", <<Col>>)),
           Leaf("in", Op("or", <<Op("=", <<Col, Const(<<"A">>)>>), Op("=", <<Col, Const(<<>>)>>)>>)),
           Leaf("dynamic", Op(">=", <<Col, Const(<<"a">>)>>)), Leaf("struct", Op("=", <<Col, Const(<<"A">>)>>))}
Optional(f) == Filter("optional", <<f>>, None)
Units == Leaves \cup {Optional(f) : f \in Leaves}
Pairs == {Filter(t, <<f, g>>, None) : t \in {"and", "or"}, f, g \in Units}
Trees == Units \cup Pairs \cup {Optional(f) : f \in Pairs}
         \cup {Filter(t, <<f, Optional(Filter(u, <<g, h>>, None))>>, None) :
                 t, u \in {"and", "or"}, f \in Units, g, h \in Leaves}

Input(columns, projection, fs, expr) ==
  [columns |-> columns, projection |-> projection, filters |-> fs, expr |-> expr]
Wide ==
  {Input(c, p, fs, None) :
     c \in {<<1, 2, 3>>, <<3, 1, 2>>, <<2, 3, 1>>},
     p \in {None, <<1>>, <<2, 3>>, <<3, 1>>},
     fs \in [1..3 -> {None, Leaf("constant", Op("=", <<Col, Const(<<"a">>)>>)), Leaf("isnull", Op("isnull", <<Col>>))}]}
  \cup {Input(<<>>, None, <<>>, None)}

MCInputs ==
  {Input(<<1>>, None, <<None>>, e) : e \in Expressions}
  \cup {Input(<<1>>, None, <<f>>, None) : f \in Trees}
  \cup {Input(<<1>>, None, <<f>>, e) : f \in Units, e \in Core}
  \cup Wide

\* Three columns in two rows, or one row with one value.
MCTables(i) ==
  IF Len(i.columns) # 1 THEN {<< <<<<"a">>, Null, <<"A">>>>, <<<<"A">>, <<"a">>, <<"a">>>> >>}
  ELSE {<< <<v>> >> : v \in IF i.expr = None THEN Some ELSE ShortTexts(2) \cup {Null}}
=============================================================================
