------------------------- MODULE MCValueConversion --------------------------
(* Small widths for ValueConversion, and the columns and rows it is given.  *)
EXTENDS ValueConversion

MCMinDate == -20
MCMinTs == -40
MCTypeHalf == <<128, 131072>>
MCTypeWidth == <<2, 5>>

Column(pg, domain, array, attndims, typmod) ==
  [pg |-> pg, domain |-> domain, array |-> array, attndims |-> attndims, typmod |-> typmod]

\* Numbers with the digits 0, 1 and 9, of up to the given width.
RECURSIVE Numbers(_)
Numbers(width) ==
  IF width = 0 THEN {0} ELSE {10 * n + d : n \in Numbers(width - 1), d \in {0, 1, 9}}

Str(enc) == [enc : {enc}, body : 1..2, pad : 0..1]

Scalars(c) ==
  CASE c.pg = "date" -> {DATEVAL_NOBEGIN, MinDate - DateOffset, 0, MaxDate - DateOffset, DATEVAL_NOEND}
    [] c.pg \in {"timestamp", "timestamptz"} ->
         {DT_NOBEGIN, MinTs - TsOffset, 0, MaxTs - TsOffset - 1, MaxTs - TsOffset, DuckTsInfinity - TsOffset,
          DuckTsNinfinity + 2 * TsHalf - TsOffset, PgEndTs - 1, DT_NOEND}
    [] c.pg = "timetz" -> [time : 0..1, zone : {-1, 0, 1}]
    [] c.pg = "uuid" -> UUIDs
    [] c.pg \in {"text", "bpchar", "varchar", "json"} -> Str("txt")
    [] c.pg = "jsonb" -> Str("bin")
    [] OTHER -> 1..2

Arrays ==
  {[dims |-> dims, elems |-> [i \in 1..FoldLeft(LAMBDA a, n : a * n, 1, dims) |-> IF i = 2 THEN Null ELSE i]] :
     dims \in UNION {[1..k -> 1..2] : k \in 1..4}}
  \cup {[dims |-> <<>>, elems |-> <<>>], [dims |-> <<3>>, elems |-> <<1, 2, 3>>]}

\* Arrays of one and two dimensions with at most two of the given elements.
ElementTypes == {"char", "bpchar", "jsonb", "date", "timestamp", "timetz", "uuid"}
ArraysOf(S) ==
  {[dims |-> <<>>, elems |-> <<>>]}
  \cup {[dims |-> <<1>>, elems |-> <<v>>] : v \in S}
  \cup {[dims |-> dims, elems |-> <<v, w>>] : dims \in {<<2>>, <<1, 2>>, <<2, 1>>}, v, w \in S}
SomeNumbers == {-19, 0, 9, 10, NaN, Null}

MCPgColumns ==
  {Column(pg, domain, FALSE, 0, -1) : pg \in DOMAIN BaseDuckType \cup {"point"}, domain \in BOOLEAN}
  \cup {Column("numeric", FALSE, FALSE, 0, make_numeric_typmod(p, s)) : p \in 1..6, s \in -1..6}
  \cup {Column(pg, FALSE, TRUE, n, -1) : pg \in {"int4", "timestamptz"}, n \in 0..4}
  \cup {Column(pg, domain, TRUE, n, -1) : pg \in ElementTypes \cup {"struct"}, domain \in BOOLEAN, n \in 1..2}
  \cup {Column("numeric", FALSE, TRUE, 1, make_numeric_typmod(p, s)) : p \in {2, 5}, s \in 0..2}

MCPgRows(c) ==
  IF c.array /\ c.pg \in {"int4", "timestamptz"} THEN {<<a, b>> : a, b \in Arrays \cup {Null}}
  ELSE IF c.array
  THEN LET arrays == ArraysOf(IF c.pg = "numeric" THEN SomeNumbers ELSE Scalars(c) \cup {Null})
       IN  {<<a>> : a \in arrays} \cup {<<CHOOSE b \in arrays : Len(b.elems) = 2, a>> : a \in arrays}
  ELSE IF c.pg = "numeric"
  THEN LET p == numeric_typmod_precision(c.typmod)
           numbers == IF DecimalSupported(c.typmod) THEN Numbers(p) ELSE {1}
       IN  {<<n>> : n \in numbers \cup {-n : n \in numbers} \cup {NaN, Null}}
           \cup {<<n, m>> : n, m \in {-19, 0, 9, 10, NaN}}
  ELSE {<<v, w>> : v, w \in Scalars(c) \cup {Null}}

Type(id, nest, width, scale) == [id |-> id, nest |-> nest, width |-> width, scale |-> scale]

MCDuckColumns ==
  {Type(id, <<>>, 0, 0) : id \in {"DATE", "TIMESTAMP", "TIMESTAMP_TZ", "TIMESTAMP_S", "TIMESTAMP_MS",
                                  "TIMESTAMP_NS", "HUGEINT", "UBIGINT", "ENUM", "GEOMETRY", "TINYINT", "TIME_TZ", "UUID", "NULL"}}
  \cup {Type("DECIMAL", <<>>, p, s) : p \in {2, 5}, s \in 0..2}
  \cup {Type("DECIMAL", <<>>, 5, s) : s \in 3..5}
  \cup {Type(id, <<"LIST">>, 0, 0) : id \in {"DATE", "TIMESTAMP", "HUGEINT", "UUID"}}
  \cup {Type(id, nest, 0, 0) : id \in {"INTEGER", "VARCHAR", "UBIGINT"},
          nest \in {<<"LIST">>, <<"ARRAY">>, <<"LIST", "LIST">>, <<"ARRAY", "LIST">>, <<"LIST", "ARRAY">>}}

SeqsUpTo(S, n) == UNION {[1..k -> S] : k \in 0..n}

DuckScalars(t) ==
  CASE t.id = "DATE" -> {DuckDateNinfinity, MinDate - 1, MinDate, 0, MaxDate, MaxDate + 1, DuckDateInfinity}
    [] t.id \in TimestampIds ->
         {DuckTsNinfinity, MinTs - 1, MinTs, -1, 0, 1, 7, MaxTs - 1, MaxTs, DuckTsInfinity}
    [] t.id = "TIME_TZ" -> [time : 0..1, offset : {-1, 0, 1}]
    [] t.id = "UUID" -> UUIDs
    [] t.id = "DECIMAL" -> Numbers(t.width) \cup {-n : n \in Numbers(t.width)}
    [] t.id \in {"HUGEINT", "UBIGINT"} -> Numbers(4)
    [] OTHER -> {1, 2}

MCDuckRows(t) ==
  CASE t.nest = <<"LIST">> /\ t.id \notin {"INTEGER", "VARCHAR", "UBIGINT"} ->
         {<<l>> : l \in SeqsUpTo(DuckScalars(t) \cup {Null}, 2)}
    [] Len(t.nest) = 1 -> {<<l>> : l \in SeqsUpTo({1, 2, Null}, 3)}
    [] Len(t.nest) = 2 -> {<<l>> : l \in SeqsUpTo(SeqsUpTo({1, Null}, 2) \cup {Null}, 2)}
    [] OTHER -> {<<d>> : d \in DuckScalars(t)} \cup {<<Null, d>> : d \in DuckScalars(t)}

=============================================================================
