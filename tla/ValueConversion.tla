--------------------------- MODULE ValueConversion --------------------------
(***************************************************************************)
(* The values of one column on their way through DuckDB                    *)
(* (pgduckdb_types.cpp): the type of the column is mapped, its rows are    *)
(* appended to a DuckDB vector, and the values of the result are made      *)
(* Postgres values again; beside it a parameter is bound.  The rows come   *)
(* from a Postgres table, or from DuckDB alone.  The setting that turns    *)
(* other NUMERICs into doubles is off.                                     *)
(***************************************************************************)
EXTENDS TimeConversion, DecimalConversion, ListConversion

CONSTANTS
  Unsupported,     \* CreateUnsupportedPostgresType, or InvalidOid
  NoParam,
  PgColumns, PgRows(_),      \* columns of Postgres tables, and rows of each
  DuckColumns, DuckRows(_)   \* types of DuckDB columns, and rows of each

VARIABLES
  stage,    \* "plan", "insert", "return", "done", or the two ends "unsupported", "raised"
  col,      \* the Postgres column, or Null
  rows,     \* its rows
  dtype,    \* the DuckDB type of the column
  vec,      \* the DuckDB vector
  count,    \* output_vector_size
  duck,     \* the rows as DuckDB reads them
  out,      \* the rows of the result
  param     \* a parameter: the Postgres value and the DuckDB value

\* Values of a column that is neither an array nor a number with a fraction.
\* What is copied is a number; a text has an encoding and may be padded.
Text(enc) == [enc : {enc}, body : Int, pad : Nat]
PgTimeTz == [time : Int, zone : Int]
DuckTimeTz == [time : Int, offset : Int]
ScalarValues(pg) ==
  CASE pg = "date" -> PgDates
    [] pg \in {"timestamp", "timestamptz"} -> PgTimestamps
    [] pg = "timetz" -> PgTimeTz
    [] pg = "uuid" -> UUIDs
    [] pg \in {"text", "bpchar", "varchar", "json"} -> Text("txt")
    [] pg = "jsonb" -> Text("bin")
    [] OTHER -> Int
DuckScalarValues(id) ==
  CASE id = "TIME_TZ" -> DuckTimeTz
    [] id = "UUID" -> UUIDs
    [] OTHER -> Int

\* An array has its dimensions and its elements, row by row.
ArrayValues(pg) ==
  {a \in [dims : Seq(Nat \ {0}), elems : Seq(ScalarValues(pg) \cup {Null})] :
     /\ a.dims = <<>> => a.elems = <<>>
     /\ Len(a.dims) = 1 => Len(a.elems) = a.dims[1]}

NumberIds == {"DECIMAL", "HUGEINT", "UBIGINT", "UHUGEINT", "BIGNUM"}
IsScalar(c) == ~c.array /\ c.pg # "numeric"
IsScalarType(t) == t.nest = <<>> /\ t.id \notin NumberIds
IsArray(c) == c.array /\ c.pg # "numeric"
IsListType(t) == Len(t.nest) = 1 /\ t.id \notin NumberIds

\* Rows have the type of their column, and the special values are not rows.
AnyScalar == Int \cup UUIDs \cup PgTimeTz \cup DuckTimeTz \cup Text("txt") \cup Text("bin")
ASSUME ColumnAssumption ==
  /\ PgColumns \subseteq [pg : STRING, domain : BOOLEAN, array : BOOLEAN, attndims : Nat, typmod : Int]
  /\ DuckColumns \subseteq [id : STRING, nest : Seq({"LIST", "ARRAY"}), width : Nat, scale : Nat]
  /\ \A c \in PgColumns : IsScalar(c) => PgRows(c) \subseteq Seq(ScalarValues(c.pg) \cup {Null})
  /\ \A c \in PgColumns : IsArray(c) => PgRows(c) \subseteq Seq(ArrayValues(c.pg) \cup {Null})
  /\ \A t \in DuckColumns : IsScalarType(t) => DuckRows(t) \subseteq Seq(DuckScalarValues(t.id) \cup {Null})
  /\ \A t \in DuckColumns : IsListType(t) =>
       DuckRows(t) \subseteq Seq(Seq(DuckScalarValues(t.id) \cup {Null}) \cup {Null})
ASSUME SpecialAssumption ==
  /\ Null \notin PgColumns
  /\ Null # Garbage /\ Null # Raised /\ Garbage # Raised
  /\ \A x \in {Null, Garbage, Raised} :
       /\ x \notin AnyScalar /\ x \notin Seq(AnyScalar \cup {Null})
       /\ x \notin [dims : Seq(Nat), elems : Seq(AnyScalar \cup {Null})]

vars == <<stage, col, rows, dtype, vec, count, duck, out, param>>

-----------------------------------------------------------------------------
(* Types *)

\* ConvertPostgresToBaseDuckColumnType for the types that need no modifier.
BaseDuckType ==
  [bool |-> "BOOLEAN", char |-> "TINYINT", int2 |-> "SMALLINT", int4 |-> "INTEGER", int8 |-> "BIGINT",
   bpchar |-> "VARCHAR", text |-> "VARCHAR", varchar |-> "VARCHAR", date |-> "DATE",
   timestamp |-> "TIMESTAMP", timestamptz |-> "TIMESTAMP_TZ", interval |-> "INTERVAL", bit |-> "BIT",
   varbit |-> "BIT", time |-> "TIME", timetz |-> "TIME_TZ", float4 |-> "FLOAT", float8 |-> "DOUBLE",
   numeric |-> "DECIMAL", uuid |-> "UUID", json |-> "JSON", jsonb |-> "JSON", regclass |-> "UINTEGER",
   bytea |-> "BLOB", struct |-> "STRUCT", union |-> "UNION", map |-> "MAP"]

ConvertPostgresToBaseDuckColumnType(c) ==
  IF \/ c.pg \notin DOMAIN BaseDuckType
     \/ c.pg = "timestamptz" /\ c.array
     \/ c.pg = "numeric" /\ ~DecimalSupported(c.typmod)
  THEN Unsupported
  ELSE BaseDuckType[c.pg]

\* An array column has as many nested lists as attndims says, at least one.
ConvertPostgresToDuckColumnType(c) ==
  [id |-> ConvertPostgresToBaseDuckColumnType(c),
   nest |-> IF c.array THEN [d \in 1..(IF c.attndims = 0 THEN 1 ELSE c.attndims) |-> "LIST"] ELSE <<>>,
   width |-> IF c.pg = "numeric" THEN numeric_typmod_precision(c.typmod) ELSE 0,
   scale |-> IF c.pg = "numeric" THEN numeric_typmod_scale(c.typmod) ELSE 0]

\* By the type of the elements.
GetPostgresArrayDuckDBType(id) ==
  CASE id = "BOOLEAN" -> "bool"
    [] id \in {"TINYINT", "SMALLINT", "UTINYINT"} -> "int2"
    [] id \in {"INTEGER", "USMALLINT"} -> "int4"
    [] id \in {"BIGINT", "UINTEGER"} -> "int8"
    [] id \in {"HUGEINT", "DECIMAL", "BIGNUM"} -> "numeric"
    [] id \in {"VARCHAR", "GEOMETRY"} -> "text"
    [] id = "JSON" -> "json"
    [] id = "DATE" -> "date"
    [] id = "TIMESTAMP" -> "timestamp"
    [] id = "TIMESTAMP_TZ" -> "timestamptz"
    [] id = "INTERVAL" -> "interval"
    [] id = "BIT" -> "varbit"
    [] id = "TIME" -> "time"
    [] id = "TIME_TZ" -> "timetz"
    [] id = "FLOAT" -> "float4"
    [] id = "DOUBLE" -> "float8"
    [] id = "UUID" -> "uuid"
    [] id = "BLOB" -> "bytea"
    [] id = "STRUCT" -> "struct"
    [] id = "MAP" -> "map"
    [] id = "UNION" -> "union"
    [] OTHER -> Unsupported

\* The same for a column, and more.
GetPostgresDuckDBType(t) ==
  CASE t.nest = <<>> /\ t.id \in {"UBIGINT", "UHUGEINT"} -> "numeric"
    [] t.nest = <<>> /\ t.id \in {"TIMESTAMP_S", "TIMESTAMP_MS", "TIMESTAMP_NS"} -> "timestamp"
    [] t.nest = <<>> /\ t.id = "ENUM" -> "varchar"
    [] OTHER -> GetPostgresArrayDuckDBType(t.id)

\* Unsupported is no type of either side.
ASSUME UnsupportedAssumption ==
  /\ Unsupported \notin Range(BaseDuckType) \cup DOMAIN BaseDuckType
  /\ GetPostgresDuckDBType([id |-> Unsupported, nest |-> <<>>]) = Unsupported

-----------------------------------------------------------------------------
(* A row of Postgres becomes a row of a vector *)

\* AppendString removes the padding of a BPCHAR and copies what is there;
\* AppendJsonb prints the binary form.
AppendString(v, isBpchar) == IF isBpchar THEN [v EXCEPT !.pad = 0] ELSE v
AppendJsonb(v) == [v EXCEPT !.enc = "txt"]

\* DatumGetNumeric and FromNumeric.
FromNumeric(v, scale) == IF v = NaN THEN NumericNaN ELSE StoredNumeric(v, scale)

\* ConvertPostgresToDuckValue for a value that is no array: it has no case for
\* the nested types of DuckDB, which a column may have all the same.
NestedIds == {"STRUCT", "UNION", "MAP"}
AppendScalar(attrType, v, t) ==
  CASE t.id = "DATE" -> AppendDate(v)
    [] t.id \in {"TIMESTAMP", "TIMESTAMP_TZ"} -> AppendTimestamp(v)
    [] t.id \in {"VARCHAR", "JSON"} ->
         IF attrType = "jsonb" THEN AppendJsonb(v) ELSE AppendString(v, attrType = "bpchar")
    [] t.id = "TIME_TZ" -> DatumGetTimeTz(v)
    [] t.id = "UUID" -> DatumGetUUID(v)
    [] t.id = "DECIMAL" -> ConvertDecimal(FromNumeric(v, t.scale), TypeHalf[InternalType(t.width)])
    [] t.id \in NestedIds -> Raised
    [] OTHER -> v

AppendElement(attrType, v, t) == IF v = Null THEN Null ELSE AppendScalar(attrType, v, t)

\* The cells that values take from an offset on.  Append writes values of its
\* own width, and nothing for a NULL; a "char" is written as an int16_t into a
\* vector of bytes.
AppendCells(t, values, offset) ==
  LET at(i) == offset + i - 1
      nulls == {at(i) : i \in {j \in DOMAIN values : values[j] = Null}}
      bytes == {2 * at(i) : i \in {j \in DOMAIN values : values[j] # Null}}
  IN  IF t.id = "TINYINT"
      THEN [x \in nulls \cup bytes \cup {b + 1 : b \in bytes} |->
              IF x \in nulls THEN Null ELSE IF x \in bytes THEN values[x \div 2 - offset + 1] ELSE 0]
      ELSE [x \in {at(i) : i \in DOMAIN values} |-> values[x - offset + 1]]

\* The type that the tuple descriptor names: a domain hides its base type.
AttrType(c) == IF c.domain THEN "domain" ELSE c.pg

Cannot(c, t, v) ==
  /\ v # Null
  /\ IF c.array
     THEN \/ ~DimensionsMatch(vec, v)
          \/ \E e \in Range(v.elems) : AppendElement(c.pg, e, t) = Raised
     ELSE AppendScalar(AttrType(c), v, t) = Raised

\* InsertTupleIntoChunk, and InsertTuplesIntoChunk for each of its rows.
InsertRow(vector, c, t, v, offset) ==
  IF v = Null THEN [vector EXCEPT !.invalid = @ \cup {offset}]
  ELSE IF c.array
  THEN LET elems == [i \in DOMAIN v.elems |-> AppendElement(c.pg, v.elems[i], t)]
       IN  AppendArray(vector, v, AppendCells(t, elems, ElementOffset(vector)), offset)
  ELSE [vector EXCEPT !.leaf = Overwrite(@, AppendCells(t, <<AppendScalar(AttrType(c), v, t)>>, offset))]

\* What DuckDB reads in a row.
ReadRow(i) ==
  IF i \in vec.invalid THEN Null
  ELSE IF dtype.nest = <<>> THEN ReadCell(vec.leaf, i) ELSE ReadList(vec, i)

-----------------------------------------------------------------------------
(* A value of DuckDB becomes a value of Postgres *)

\* ConvertNumericDatum: a DECIMAL in its physical type, the rest as integers.
ConvertNumericDatum(d, t) ==
  IF t.id = "DECIMAL"
  THEN MakeResult(ConvertNumeric(d, t.scale, TypeHalf[InternalType(t.width)]))
  ELSE MakeResult(ConvertNumeric(d, 0, TypeHalf[Len(TypeHalf)]))

ToDatum(d, t) ==
  LET oid == GetPostgresDuckDBType(t) IN
  CASE oid = "date" -> ConvertDateDatum(d)
    [] oid \in {"timestamp", "timestamptz"} -> ConvertTimestampDatum(d, t.id)
    [] oid = "timetz" -> ConvertTimeTzDatum(d)
    [] oid = "uuid" -> ConvertUUIDDatum(d)
    [] oid = "numeric" -> ConvertNumericDatum(d, t)
    [] OTHER -> d

ElementDatum(d, t) == IF d = Null THEN Null ELSE ToDatum(d, t)

ConvertDuckToPostgresValue(d, t) ==
  IF t.nest = <<>> THEN ToDatum(d, t)
  ELSE LET a == ConvertDuckToPostgresArray(d, t.nest, t.id = "VARCHAR", Raised) IN
       IF a = Raised THEN Raised
       ELSE LET elems == [i \in DOMAIN a.elems |-> ElementDatum(a.elems[i], t)] IN
            IF Raised \in Range(elems) THEN Raised ELSE [a EXCEPT !.elems = elems]

-----------------------------------------------------------------------------
(* A parameter of a prepared statement *)

ParameterTypes ==
  {"bool", "int2", "int4", "int8", "bpchar", "text", "json", "varchar", "date", "timestamp",
   "timestamptz", "interval", "bit", "varbit", "time", "timetz", "float4", "float8", "uuid"}

ConvertPostgresParameterToDuckValue(pg, v) ==
  CASE pg = "date" -> ParameterDate(v)
    [] pg \in {"timestamp", "timestamptz"} -> ParameterTimestamp(v)
    [] pg = "timetz" -> DatumGetTimeTz(v)
    [] pg = "uuid" -> DatumGetUUID(v)
    [] OTHER -> v

-----------------------------------------------------------------------------
(* The journey *)

Init ==
  /\ \/ \E c \in PgColumns : \E r \in PgRows(c) :
          /\ stage = "plan" /\ col = c /\ rows = r
          /\ dtype = ConvertPostgresToDuckColumnType(c)
          /\ duck = <<>>
     \/ \E t \in DuckColumns : \E r \in DuckRows(t) :
          /\ stage = "return" /\ col = Null /\ rows = <<>>
          /\ dtype = t
          /\ duck = r
  /\ vec = EmptyVector(Len(dtype.nest)) /\ count = 0 /\ out = <<>> /\ param = NoParam

\* The planner asks for the Postgres type of the result.
PlanColumn ==
  /\ stage = "plan"
  /\ stage' = IF GetPostgresDuckDBType(dtype) = Unsupported THEN "unsupported" ELSE "insert"
  /\ UNCHANGED <<col, rows, dtype, vec, count, duck, out, param>>

InsertTuple ==
  /\ stage = "insert" /\ count < Len(rows)
  /\ LET v == rows[count + 1] IN
     IF Cannot(col, dtype, v)
     THEN stage' = "raised" /\ UNCHANGED <<vec, count>>
     ELSE vec' = InsertRow(vec, col, dtype, v, count) /\ count' = count + 1 /\ UNCHANGED stage
  /\ UNCHANGED <<col, rows, dtype, duck, out, param>>

BindParameter ==
  /\ stage = "insert" /\ count = Len(rows) /\ param = NoParam
  /\ col.pg \in ParameterTypes /\ ~col.array
  /\ \E r \in PgRows(col) : r # <<>> /\ r[1] # Null
       /\ param' = [pg |-> r[1], duck |-> ConvertPostgresParameterToDuckValue(col.pg, r[1])]
  /\ UNCHANGED <<stage, col, rows, dtype, vec, count, duck, out>>

\* The query passes the column on as it is.
Execute ==
  /\ stage = "insert" /\ count = Len(rows)
  /\ duck' = [i \in 1..count |-> ReadRow(i - 1)]
  /\ stage' = "return"
  /\ UNCHANGED <<col, rows, dtype, vec, count, out, param>>

\* The loop of Duckdb_ExecCustomScan; a value made of what was never written
\* may be anything.
ReturnValue ==
  /\ stage = "return" /\ Len(out) < Len(duck)
  /\ LET d == duck[Len(out) + 1]
         r == IF d \in {Null, Garbage} THEN d ELSE ConvertDuckToPostgresValue(d, dtype)
     IN  IF GetPostgresDuckDBType(dtype) = Unsupported
         THEN stage' = "unsupported" /\ UNCHANGED out
         ELSE IF r = Raised
         THEN stage' = "raised" /\ UNCHANGED out
         ELSE out' = out \o <<r>> /\ UNCHANGED stage
  /\ UNCHANGED <<col, rows, dtype, vec, count, duck, param>>

Finish ==
  /\ stage = "return" /\ Len(out) = Len(duck)
  /\ stage' = "done"
  /\ UNCHANGED <<col, rows, dtype, vec, count, duck, out, param>>

Next == PlanColumn \/ InsertTuple \/ BindParameter \/ Execute \/ ReturnValue \/ Finish

Spec == Init /\ [][Next]_vars

-----------------------------------------------------------------------------
(* Properties *)

Depth(t) == Len(t.nest)
\* ConvertNumeric moves the fraction out of its type.
ShiftOverflows(v, t) ==
  LET digits == ((t.scale + DEC_DIGITS - 1) \div DEC_DIGITS) * DEC_DIGITS
  IN  (Abs(v) % 10 ^ t.scale) * 10 ^ (digits - t.scale) >= TypeHalf[InternalType(t.width)]
\* The memory asked for is the square of what the elements need.
SquareTooLarge(d, t) == \E s \in Shapes(d, Depth(t)) :
  LET square[k \in 0..Depth(t)] == IF k = 0 THEN 1 ELSE square[k - 1] * s[k] * s[k]
  IN  square[Depth(t)] > MaxDatums
\* Only the outer lists are descended into when an ARRAY is below them.
ArrayBelow(t) == \E d \in 2..Depth(t) : t.nest[d] = "ARRAY"

\* Every variable has its type: what was read, returned and bound belongs to
\* rows that were there, and no cell below the rows read was left unwritten,
\* except by the two writers that misplace their cells.
TypeOK ==
  /\ stage \in {"plan", "insert", "return", "done", "unsupported", "raised"}
  /\ count \in 0..Len(rows) /\ Len(out) <= Len(duck)
  /\ \A i \in 1..Len(duck) : duck[i] = Garbage =>
       col.pg = "char" \/ (col.array /\ Len(rows[i].dims) > 2)

\* The value a query that passes a column on must return.
ExpectedScalar(c, v) ==
  IF v = Null THEN Null ELSE
  CASE c.pg = "numeric" -> FromNumeric(v, numeric_typmod_scale(c.typmod))
    [] c.pg = "bpchar" -> [v EXCEPT !.pad = 0]
    [] c.pg = "jsonb" -> [v EXCEPT !.enc = "txt"]
    [] OTHER -> v
Expected(c, v) ==
  IF c.array /\ v # Null
  THEN [v EXCEPT !.elems = [i \in DOMAIN v.elems |-> ExpectedScalar(c, v.elems[i])]]
  ELSE ExpectedScalar(c, v)

\* The values that do not survive: a "char" after the first row or in an
\* array, NaN, a fraction that is shifted out of its type, a padded or binary
\* value behind a domain (an array names the type of its elements itself), an
\* array of three or more dimensions of which one before the last two is not 1.
KnownLoss(c, t, v, i) ==
  \/ c.pg = "char" /\ (i > 1 \/ c.array)
  \/ c.pg = "numeric" /\ \E n \in (IF c.array THEN Range(v.elems) \ {Null} ELSE {v}) :
                             n = NaN \/ ShiftOverflows(n, t)
  \/ c.domain /\ ~c.array /\ c.pg \in {"bpchar", "jsonb"}
  \/ c.array /\ \E d \in 1..(Len(v.dims) - 2) : v.dims[d] > 1

\* A row of a Postgres table that goes through DuckDB comes back as it was
\* (ConvertPostgresToDuckValue, then ConvertDuckToPostgresValue), whatever
\* rows the vector holds before and after it.
RowsPreserved == col # Null => \A i \in 1..Len(out) :
  out[i] = Expected(col, rows[i]) \/ KnownLoss(col, dtype, rows[i], i)

TimestampIds == {"TIMESTAMP", "TIMESTAMP_TZ", "TIMESTAMP_S", "TIMESTAMP_MS", "TIMESTAMP_NS"}

DateStandsFor(d, r) ==
  IF d = DuckDateInfinity THEN r = DATEVAL_NOEND
  ELSE IF d = DuckDateNinfinity THEN r = DATEVAL_NOBEGIN
  ELSE r + DateOffset = d /\ r \in PgDates
\* The time a value means, in microseconds (a TIMESTAMP_NS is cut), and
\* whether the product that computes it leaves the int64_t.
Micros(d, unit) ==
  CASE unit = "TIMESTAMP_S" -> d * Kilo * Kilo
    [] unit = "TIMESTAMP_MS" -> d * Kilo
    [] OTHER -> ToMicros(d, unit)
ProductWraps(d, unit) ==
  unit \in {"TIMESTAMP_S", "TIMESTAMP_MS"} /\ Micros(d, unit) \notin (-TsHalf)..(TsHalf - 1)
TimestampStandsFor(unit, d, r) ==
  IF d = DuckTsInfinity THEN r = DT_NOEND
  ELSE IF d = DuckTsNinfinity THEN r = DT_NOBEGIN
  ELSE /\ r \in PgTimestamps \ {DT_NOBEGIN, DT_NOEND}
       /\ IF unit = "TIMESTAMP_NS" THEN Abs((r + TsOffset) * Kilo - d) < Kilo
          ELSE r + TsOffset = Micros(d, unit) \/ ProductWraps(d, unit)
ScalarStandsFor(t, d, r) ==
  IF d = Null THEN r = Null
  ELSE CASE t.id = "DATE" -> DateStandsFor(d, r)
         [] t.id \in TimestampIds -> TimestampStandsFor(t.id, d, r)
         [] t.id = "DECIMAL" -> r = StoredNumeric(d, t.scale) \/ ShiftOverflows(d, t)
         [] t.id \in {"HUGEINT", "UBIGINT"} -> r = StoredNumeric(d, 0)
         [] t.id = "TIME_TZ" -> r = [time |-> d.time, zone |-> -d.offset]
         [] t.id = "UUID" -> d = DatumGetUUID(r)
         [] OTHER -> r = d
ListStandsFor(t, d, r) ==
  IF r.dims = <<>> THEN NoElements(d, Depth(t)) \/ ArrayBelow(t)
  ELSE /\ Len(r.dims) = Depth(t)
       /\ \E elems \in [DOMAIN r.elems -> Elements(d, Depth(t))] :
            /\ NestOf(r.dims, elems) = d
            /\ \A i \in DOMAIN elems : ScalarStandsFor(t, elems[i], r.elems[i])

\* A value of DuckDB is returned by a Postgres value that stands for it: the
\* same date, time to the microsecond, number or nested list of them
\* (ConvertDuckToPostgresValue); except seconds and milliseconds that are too
\* large for microseconds, which come back as some time or are refused.
StandsFor(t, d, r) ==
  IF t.nest # <<>> /\ d # Null THEN ListStandsFor(t, d, r) ELSE ScalarStandsFor(t, d, r)
ResultsFaithful == col = Null => \A i \in 1..Len(out) : StandsFor(dtype, duck[i], out[i])

\* A conversion that throws has a cause: a time DuckDB and Postgres do not
\* both have, a type that no row of Postgres is converted to, dimensions other
\* than those of the column, a list that is no array; or one of the two known ones, memory for the square of the elements
\* and an ARRAY inside a list.
NoRowValue(t, v) ==
  t.id \in NestedIds \/ (t.id \in {"TIMESTAMP", "TIMESTAMP_TZ"} /\ v + TsOffset >= MaxTs)
CausedRowError ==
  LET v == rows[count + 1] IN
  IF col.array
  THEN \/ Len(v.dims) # Depth(dtype) /\ v.dims # <<>>
       \/ \E e \in Range(v.elems) \ {Null} : NoRowValue(dtype, e)
  ELSE NoRowValue(dtype, v)
NoResultValue(t, d) ==
  \/ t.id = "DATE" /\ (d < MinDate \/ d > MaxDate)
  \/ t.id \in TimestampIds /\ (Micros(d, t.id) < MinTs \/ Micros(d, t.id) >= MaxTs)
CausedResultError ==
  LET d == duck[Len(out) + 1] IN
  IF dtype.nest # <<>>
  THEN \/ ~Rectangular(d, Depth(dtype)) \/ InnerNull(d, Depth(dtype))
       \/ SquareTooLarge(d, dtype) \/ ArrayBelow(dtype)
       \/ \E e \in Elements(d, Depth(dtype)) \ {Null} : NoResultValue(dtype, e)
  ELSE NoResultValue(dtype, d)
RaisedForCause ==
  stage = "raised" => IF duck = <<>> THEN CausedRowError ELSE CausedResultError

\* DuckDB sorts and filters the converted rows as Postgres would sort and
\* filter the rows (the infinities, the sign bit of a UUID, the shifted
\* decimals); a NaN has become a zero.
PgLess(v, w) == IF col.pg = "uuid" THEN v[1] < w[1] \/ (v[1] = w[1] /\ v[2] < w[2]) ELSE v < w
DuckLess(d, e) == IF col.pg = "uuid" THEN Hugeint(d) < Hugeint(e) ELSE d < e
Ordered == {"date", "timestamp", "timestamptz", "uuid", "numeric", "int4"}
OrderPreserved ==
  stage = "insert" /\ col.pg \in Ordered /\ ~col.array =>
    \A i, j \in 1..count : rows[i] \notin {Null, NaN} /\ rows[j] \notin {Null, NaN} =>
      (DuckLess(ReadRow(i - 1), ReadRow(j - 1)) <=> PgLess(rows[i], rows[j]))

\* A parameter equals the rows it equals in Postgres, unless it is infinite, is
\* shifted onto an infinity of DuckDB, or is a padded BPCHAR
\* (ConvertPostgresParameterToDuckValue against the Append functions).
PgEqual(pg, v, w) == IF pg = "bpchar" THEN v.body = w.body ELSE v = w
KnownParameter(pg, v) ==
  \/ pg = "date" /\ v \in {DATEVAL_NOBEGIN, DATEVAL_NOEND}
  \/ pg \in {"timestamp", "timestamptz"}
       /\ (v \in {DT_NOBEGIN, DT_NOEND} \/ ParameterTimestamp(v) \in {DuckTsNinfinity, DuckTsInfinity})
  \/ pg = "bpchar" /\ v.pad > 0
ParameterAgrees ==
  param # NoParam /\ ~KnownParameter(col.pg, param.pg) =>
    \A i \in 1..count : rows[i] # Null /\ ~KnownLoss(col, dtype, rows[i], i) =>
      (param.duck = ReadRow(i - 1) <=> PgEqual(col.pg, param.pg, rows[i]))

=============================================================================
