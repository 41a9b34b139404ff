--------------------------- MODULE TimeConversion ---------------------------
(***************************************************************************)
(* Dates, times and UUIDs between Postgres and DuckDB (pgduckdb_types.cpp, *)
(* pgduckdb_types.hpp).  Postgres counts from 2000, DuckDB from 1970;      *)
(* their infinities differ, and so do the ranges they accept.  The widths, *)
(* the offsets and the ranges are constants, so that the boundary cases of *)
(* the 32 and 64 bit values are reached with small numbers.                *)
(***************************************************************************)
EXTENDS Integers, Sequences

CONSTANTS
  Raised,      \* the outcome of a conversion that throws
  DateHalf,    \* 2^31: a date is in -DateHalf..DateHalf-1
  DateOffset,  \* PGDUCKDB_DUCK_DATE_OFFSET
  MinDate, MaxDate,  \* PGDUCKDB_PG_MIN_DATE_VALUE, PGDUCKDB_PG_MAX_DATE_VALUE
  TsHalf,      \* 2^63
  TsOffset,    \* PGDUCKDB_DUCK_TIMESTAMP_OFFSET
  MinTs, MaxTs,      \* PGDUCKDB_MIN_TIMESTAMP_VALUE, PGDUCKDB_MAX_TIMESTAMP_VALUE
  PgEndTs,     \* the first timestamp after those of Postgres
  Kilo,        \* 1000: the step between two units of time
  ByteHalf     \* 128: a byte is in 0..2*ByteHalf-1

ASSUME RaisedAssumption == Raised \notin Int

\* 2^31 = 2147483648, MinDate = -2440588, MaxDate = 2145042905, the offset 10957.
ASSUME DateAssumption ==
  /\ DateHalf \in Nat /\ DateOffset \in Nat /\ MinDate \in Int /\ MaxDate \in Int
  /\ -DateHalf < MinDate - DateOffset /\ -(DateHalf - 1) < MinDate
  /\ MinDate <= MaxDate /\ MaxDate < DateHalf - 1

\* 2^63 = 9223372036854775808, the offset 946684800000000,
\* MinTs = -210866803200000000, MaxTs = 9223371244800000000,
\* PgEndTs = 9223371331200000000: adding the offset may overflow, but never
\* into the valid range.
ASSUME TimestampAssumption ==
  /\ TsHalf \in Nat /\ TsOffset \in Nat /\ MinTs \in Int /\ MaxTs \in Int /\ PgEndTs \in Int
  /\ -TsHalf < MinTs - TsOffset /\ -(TsHalf - 1) < MinTs
  /\ MinTs <= MaxTs /\ MaxTs < TsHalf - 1
  /\ MaxTs - TsOffset < PgEndTs /\ PgEndTs < TsHalf - 1
  /\ PgEndTs - 1 + TsOffset - 2 * TsHalf < MinTs

ASSUME ScaleAssumption == Kilo \in Nat \ {0} /\ ByteHalf \in Nat \ {0}

\* One addition in two's complement.
Wrap(x, half) ==
  IF x >= half THEN x - 2 * half ELSE IF x < -half THEN x + 2 * half ELSE x

\* A product in two's complement, which may be many times too large.
WrapProduct(x, half) ==
  IF -half <= x /\ x < half THEN x ELSE ((x + half) % (2 * half)) - half

-----------------------------------------------------------------------------
(* Dates *)

DATEVAL_NOBEGIN == -DateHalf
DATEVAL_NOEND == DateHalf - 1
DuckDateInfinity == DateHalf - 1
DuckDateNinfinity == -(DateHalf - 1)

\* What a Postgres date column may hold.
PgDates == ((MinDate - DateOffset)..(MaxDate - DateOffset)) \cup {DATEVAL_NOBEGIN, DATEVAL_NOEND}

ValidDateStrict(d) == MinDate < d /\ d <= MaxDate
ValidDate(d) ==
  d \in {DuckDateInfinity, DuckDateNinfinity} \/ (MinDate <= d /\ d <= MaxDate)

ConvertDateDatum(d) ==
  IF ~ValidDate(d) THEN Raised
  ELSE IF d = DuckDateNinfinity THEN DATEVAL_NOBEGIN
  ELSE IF d = DuckDateInfinity THEN DATEVAL_NOEND
  ELSE d - DateOffset

AppendDate(d) ==
  IF d = DATEVAL_NOBEGIN THEN DuckDateNinfinity
  ELSE IF d = DATEVAL_NOEND THEN DuckDateInfinity
  ELSE Wrap(d + DateOffset, DateHalf)

\* A parameter is shifted whatever it is.
ParameterDateUnshifted(d) == d
ParameterDate(d) == Wrap(d + DateOffset, DateHalf)

-----------------------------------------------------------------------------
(* Timestamps, with and without a time zone *)

DT_NOBEGIN == -TsHalf
DT_NOEND == TsHalf - 1
DuckTsInfinity == TsHalf - 1
DuckTsNinfinity == -(TsHalf - 1)

PgTimestamps == ((MinTs - TsOffset)..(PgEndTs - 1)) \cup {DT_NOBEGIN, DT_NOEND}

ValidTimestampOrTimestampTz(t) == MinTs <= t /\ t < MaxTs

\* The switch on the unit: nothing checks the products of int64_t, and C++
\* divides towards zero.
ToMicros(t, unit) ==
  CASE unit = "TIMESTAMP_S"  -> WrapProduct(t * Kilo * Kilo, TsHalf)
    [] unit = "TIMESTAMP_MS" -> WrapProduct(t * Kilo, TsHalf)
    [] unit = "TIMESTAMP_NS" -> IF t >= 0 THEN t \div Kilo ELSE -((-t) \div Kilo)
    [] OTHER -> t

\* ConvertTimestampDatum; with the unit of microseconds also ConvertTimestampTzDatum.
ConvertTimestampDatum(t, unit) ==
  IF t = DuckTsNinfinity THEN DT_NOBEGIN
  ELSE IF t = DuckTsInfinity THEN DT_NOEND
  ELSE LET micros == ToMicros(t, unit) IN
       IF ValidTimestampOrTimestampTz(micros) THEN micros - TsOffset ELSE Raised

\* AppendTimestamp and AppendTimestampTz.
AppendTimestamp(t) ==
  IF t = DT_NOBEGIN THEN DuckTsNinfinity
  ELSE IF t = DT_NOEND THEN DuckTsInfinity
  ELSE LET duck == Wrap(t + TsOffset, TsHalf) IN
       IF ValidTimestampOrTimestampTz(duck) THEN duck ELSE Raised

ParameterTimestamp(t) == Wrap(t + TsOffset, TsHalf)

-----------------------------------------------------------------------------
(* Times with a zone, and UUIDs *)

\* Postgres counts a zone to the west, DuckDB an offset to the east.
DatumGetTimeTz(v) == [time |-> v.time, offset |-> -v.zone]
ConvertTimeTzDatumSameSign(d) == [time |-> d.time, zone |-> d.offset]
ConvertTimeTzDatum(d) == [time |-> d.time, zone |-> -d.offset]

\* A UUID of two bytes, the first the more significant, and DuckDB's signed
\* integer in two bytes, the second the more significant.
Byte == 0..(2 * ByteHalf - 1)
UUIDs == Byte \X Byte
FlipTopBit(b) == IF b >= ByteHalf THEN b - ByteHalf ELSE b + ByteHalf
DatumGetUUIDUnflipped(u) == <<u[2], u[1]>>
DatumGetUUID(u) == <<u[2], FlipTopBit(u[1])>>
ConvertUUIDDatum(d) == <<FlipTopBit(d[2]), d[1]>>
Hugeint(d) == (IF d[2] >= ByteHalf THEN d[2] - 2 * ByteHalf ELSE d[2]) * 2 * ByteHalf + d[1]

=============================================================================
