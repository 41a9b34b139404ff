------------------------ MODULE ValueConversionProofs -----------------------
(***************************************************************************)
(* Dates, timestamps and UUIDs survive the way through DuckDB and keep     *)
(* their order; columns that are neither decimals nor arrays come back as  *)
(* they were, compare as they did and are refused only for a cause, and    *)
(* so do arrays of one dimension, element by element.  All this for any    *)
(* number of rows and elements and every width, offset and range that the  *)
(* assumptions allow; the values of the code are among them.               *)
(***************************************************************************)
EXTENDS ValueConversion, TLAPS

-----------------------------------------------------------------------------
(* Dates, timestamps and UUIDs *)

\* A Postgres date is appended without an overflow, into the valid range.
LEMMA DateInRange ==
  ASSUME NEW d \in PgDates, d # DATEVAL_NOBEGIN, d # DATEVAL_NOEND
  PROVE  /\ d \in Int
         /\ AppendDate(d) = d + DateOffset
         /\ MinDate <= AppendDate(d) /\ AppendDate(d) <= MaxDate
<1>1. d \in (MinDate - DateOffset)..(MaxDate - DateOffset)
  BY DEF PgDates
<1>2. d \in Int /\ MinDate <= d + DateOffset /\ d + DateOffset <= MaxDate
  BY <1>1, DateAssumption
<1>3. Wrap(d + DateOffset, DateHalf) = d + DateOffset
  BY <1>2, DateAssumption DEF Wrap
<1>4. AppendDate(d) = d + DateOffset
  BY <1>3 DEF AppendDate
<1> QED BY <1>2, <1>4

\* The two ends of the dates go to the ends of DuckDB's.
LEMMA DateEnds ==
  /\ AppendDate(DATEVAL_NOBEGIN) = -(DateHalf - 1)
  /\ AppendDate(DATEVAL_NOEND) = DateHalf - 1
BY DateAssumption DEF AppendDate, DATEVAL_NOBEGIN, DATEVAL_NOEND, DuckDateInfinity, DuckDateNinfinity

\* A date column is returned as it was stored (AppendDate, ConvertDateDatum):
\* no date Postgres can hold is refused, and the infinities are kept.
THEOREM DateRoundTrip == \A d \in PgDates : ConvertDateDatum(AppendDate(d)) = d
<1> SUFFICES ASSUME NEW d \in PgDates PROVE ConvertDateDatum(AppendDate(d)) = d
  OBVIOUS
<1>1. CASE d = DATEVAL_NOBEGIN
  BY <1>1, DateEnds, DateAssumption
  DEF ConvertDateDatum, ValidDate, DuckDateInfinity, DuckDateNinfinity, DATEVAL_NOBEGIN
<1>2. CASE d = DATEVAL_NOEND
  BY <1>2, DateEnds, DateAssumption
  DEF ConvertDateDatum, ValidDate, DuckDateInfinity, DuckDateNinfinity, DATEVAL_NOEND
<1>3. CASE d # DATEVAL_NOBEGIN /\ d # DATEVAL_NOEND
  <2> DEFINE a == AppendDate(d)
  <2>1. d \in Int /\ a = d + DateOffset /\ MinDate <= a /\ a <= MaxDate
    BY <1>3, DateInRange
  <2>2. a # DuckDateInfinity /\ a # DuckDateNinfinity
    BY <2>1, DateAssumption DEF DuckDateInfinity, DuckDateNinfinity
  <2>3. ConvertDateDatum(a) = a - DateOffset
    BY <2>1, <2>2 DEF ConvertDateDatum, ValidDate
  <2> QED BY <2>1, <2>3, DateAssumption
<1> QED BY <1>1, <1>2, <1>3

\* DuckDB compares dates as Postgres does (AppendDate), the infinite ones too.
THEOREM DateOrder == \A d, e \in PgDates : (AppendDate(d) < AppendDate(e)) <=> (d < e)
<1> SUFFICES ASSUME NEW d \in PgDates, NEW e \in PgDates
             PROVE  (AppendDate(d) < AppendDate(e)) <=> (d < e)
  OBVIOUS
<1>1. \A x \in PgDates :
        \/ x = DATEVAL_NOBEGIN /\ AppendDate(x) = -(DateHalf - 1)
        \/ x = DATEVAL_NOEND /\ AppendDate(x) = DateHalf - 1
        \/ x \in Int /\ AppendDate(x) = x + DateOffset /\ MinDate <= x + DateOffset /\ x + DateOffset <= MaxDate
  BY DateInRange, DateEnds
<1> QED BY <1>1, DateAssumption DEF DATEVAL_NOBEGIN, DATEVAL_NOEND

-----------------------------------------------------------------------------
\* Adding the offset to a Postgres timestamp either stays in the type, or
\* wraps to a number below the valid range.
LEMMA TimestampShift ==
  ASSUME NEW t \in PgTimestamps, t # DT_NOBEGIN, t # DT_NOEND
  PROVE  /\ t \in Int
         /\ t + TsOffset < MaxTs =>
              AppendTimestamp(t) = t + TsOffset /\ MinTs <= t + TsOffset
         /\ t + TsOffset >= MaxTs => AppendTimestamp(t) = Raised
<1>1. t \in Int /\ MinTs <= t + TsOffset /\ t <= PgEndTs - 1
  <2>1. t \in (MinTs - TsOffset)..(PgEndTs - 1)
    BY DEF PgTimestamps
  <2> QED BY <2>1, TimestampAssumption
<1> DEFINE w == Wrap(t + TsOffset, TsHalf)
<1>2. AppendTimestamp(t) = IF ValidTimestampOrTimestampTz(w) THEN w ELSE Raised
  BY DEF AppendTimestamp
<1>3. CASE t + TsOffset < MaxTs
  <2>1. w = t + TsOffset
    BY <1>1, <1>3, TimestampAssumption DEF Wrap
  <2>2. ValidTimestampOrTimestampTz(w)
    BY <1>1, <1>3, <2>1, TimestampAssumption DEF ValidTimestampOrTimestampTz
  <2> QED BY <1>1, <1>2, <1>3, <2>1, <2>2, TimestampAssumption
<1>4. CASE t + TsOffset >= MaxTs
  <2>1. w >= MaxTs \/ w < MinTs
    BY <1>1, <1>4, TimestampAssumption DEF Wrap
  <2>2. w \in Int
    BY <1>1, TimestampAssumption DEF Wrap
  <2>3. ~ValidTimestampOrTimestampTz(w)
    BY <2>1, <2>2, TimestampAssumption DEF ValidTimestampOrTimestampTz
  <2> QED BY <1>1, <1>2, <1>4, <2>3, TimestampAssumption
<1> QED BY <1>1, <1>3, <1>4, TimestampAssumption

\* The bounds check of AppendTimestamp refuses exactly the finite timestamps
\* after DuckDB's last one, although the sum it looks at may overflow.
THEOREM TimestampBoundsCheck == \A t \in PgTimestamps :
  (AppendTimestamp(t) = Raised) <=> (t # DT_NOBEGIN /\ t # DT_NOEND /\ t + TsOffset >= MaxTs)
<1> SUFFICES ASSUME NEW t \in PgTimestamps
             PROVE  (AppendTimestamp(t) = Raised)
                      <=> (t # DT_NOBEGIN /\ t # DT_NOEND /\ t + TsOffset >= MaxTs)
  OBVIOUS
<1>1. CASE t = DT_NOBEGIN
  <2>1. AppendTimestamp(t) \in Int
    BY <1>1, TimestampAssumption DEF AppendTimestamp, DuckTsNinfinity
  <2> QED BY <1>1, <2>1, RaisedAssumption
<1>2. CASE t # DT_NOBEGIN /\ t = DT_NOEND
  <2>1. AppendTimestamp(t) \in Int
    BY <1>2, TimestampAssumption DEF AppendTimestamp, DuckTsInfinity
  <2> QED BY <1>2, <2>1, RaisedAssumption
<1>3. CASE t # DT_NOBEGIN /\ t # DT_NOEND
  <2>1. t \in Int
    BY <1>3, TimestampShift
  <2>2. t + TsOffset \in Int
    BY <2>1, TimestampAssumption
  <2>3. CASE t + TsOffset < MaxTs
    <3>1. AppendTimestamp(t) = t + TsOffset
      BY <1>3, <2>3, TimestampShift
    <3>2. AppendTimestamp(t) # Raised
      BY <3>1, <2>2, RaisedAssumption
    <3> QED BY <2>1, <2>3, <3>2, TimestampAssumption
  <2>4. CASE t + TsOffset >= MaxTs
    BY <1>3, <2>4, TimestampShift
  <2> QED BY <2>1, <2>3, <2>4, TimestampAssumption
<1> QED BY <1>1, <1>2, <1>3

\* A timestamp column is returned as it was stored, unless it was refused
\* (AppendTimestamp, ConvertTimestampDatum).
THEOREM TimestampRoundTrip == \A t \in PgTimestamps :
  AppendTimestamp(t) # Raised => ConvertTimestampDatum(AppendTimestamp(t), "TIMESTAMP") = t
<1> SUFFICES ASSUME NEW t \in PgTimestamps, AppendTimestamp(t) # Raised
             PROVE  ConvertTimestampDatum(AppendTimestamp(t), "TIMESTAMP") = t
  OBVIOUS
<1> DEFINE a == AppendTimestamp(t)
<1>1. CASE t = DT_NOBEGIN
  <2>1. a = DuckTsNinfinity
    BY <1>1 DEF AppendTimestamp
  <2> QED BY <1>1, <2>1 DEF ConvertTimestampDatum
<1>2. CASE t = DT_NOEND
  <2>1. DT_NOEND # DT_NOBEGIN /\ DuckTsInfinity # DuckTsNinfinity
    BY TimestampAssumption DEF DT_NOEND, DT_NOBEGIN, DuckTsInfinity, DuckTsNinfinity
  <2>2. a = DuckTsInfinity
    BY <1>2, <2>1 DEF AppendTimestamp
  <2> QED BY <1>2, <2>1, <2>2 DEF ConvertTimestampDatum
<1>3. CASE t # DT_NOBEGIN /\ t # DT_NOEND
  <2>1. t \in Int /\ a = t + TsOffset /\ MinTs <= a /\ a < MaxTs
    <3>1. t \in Int
      BY <1>3, TimestampShift
    <3>2. t + TsOffset < MaxTs
      BY <1>3, <3>1, TimestampShift, TimestampAssumption
    <3> QED BY <1>3, <3>1, <3>2, TimestampShift
  <2>2. a # DuckTsInfinity /\ a # DuckTsNinfinity
    BY <2>1, TimestampAssumption DEF DuckTsInfinity, DuckTsNinfinity
  <2>3. ToMicros(a, "TIMESTAMP") = a
    BY DEF ToMicros
  <2>4. ConvertTimestampDatum(a, "TIMESTAMP") = a - TsOffset
    BY <2>1, <2>2, <2>3 DEF ConvertTimestampDatum, ValidTimestampOrTimestampTz
  <2> QED BY <2>1, <2>4, TimestampAssumption
<1> QED BY <1>1, <1>2, <1>3

\* What AppendTimestamp does to a timestamp that it does not refuse.
LEMMA TimestampCases ==
  ASSUME NEW t \in PgTimestamps, AppendTimestamp(t) # Raised
  PROVE  \/ t = DT_NOBEGIN /\ AppendTimestamp(t) = -(TsHalf - 1)
         \/ t = DT_NOEND /\ AppendTimestamp(t) = TsHalf - 1
         \/ /\ t \in Int /\ AppendTimestamp(t) = t + TsOffset
            /\ MinTs <= t + TsOffset /\ t + TsOffset < MaxTs
<1>1. CASE t = DT_NOBEGIN
  BY <1>1 DEF AppendTimestamp, DuckTsNinfinity
<1>2. CASE t # DT_NOBEGIN /\ t = DT_NOEND
  BY <1>2 DEF AppendTimestamp, DuckTsInfinity
<1>3. CASE t # DT_NOBEGIN /\ t # DT_NOEND
  <2>1. t \in Int
    BY <1>3, TimestampShift
  <2>2. t + TsOffset < MaxTs
    BY <1>3, <2>1, TimestampShift, TimestampAssumption
  <2> QED BY <1>3, <2>1, <2>2, TimestampShift
<1> QED BY <1>1, <1>2, <1>3

\* DuckDB compares the timestamps that are not refused as Postgres does
\* (AppendTimestamp), the infinite ones too.
THEOREM TimestampOrder == \A t, u \in PgTimestamps :
  AppendTimestamp(t) # Raised /\ AppendTimestamp(u) # Raised =>
    ((AppendTimestamp(t) < AppendTimestamp(u)) <=> (t < u))
<1> SUFFICES ASSUME NEW t \in PgTimestamps, NEW u \in PgTimestamps,
                    AppendTimestamp(t) # Raised, AppendTimestamp(u) # Raised
             PROVE  (AppendTimestamp(t) < AppendTimestamp(u)) <=> (t < u)
  OBVIOUS
<1>1. \A x \in {t, u} :
        \/ x = DT_NOBEGIN /\ AppendTimestamp(x) = -(TsHalf - 1)
        \/ x = DT_NOEND /\ AppendTimestamp(x) = TsHalf - 1
        \/ /\ x \in Int /\ AppendTimestamp(x) = x + TsOffset
           /\ MinTs <= x + TsOffset /\ x + TsOffset < MaxTs
  BY TimestampCases
<1> QED BY <1>1, TimestampAssumption DEF DT_NOBEGIN, DT_NOEND

-----------------------------------------------------------------------------
(* Parameters *)

\* A finite date as a parameter equals the rows that hold the same date
\* (ParameterDate against AppendDate).
THEOREM DateParameterAgrees == \A p, d \in PgDates :
  p \notin {DATEVAL_NOBEGIN, DATEVAL_NOEND} =>
    ((ParameterDate(p) = AppendDate(d)) <=> (p = d))
<1> SUFFICES ASSUME NEW p \in PgDates, NEW d \in PgDates,
                    p # DATEVAL_NOBEGIN, p # DATEVAL_NOEND
             PROVE  (ParameterDate(p) = AppendDate(d)) <=> (p = d)
  OBVIOUS
<1>1. p \in Int /\ AppendDate(p) = p + DateOffset
      /\ MinDate <= p + DateOffset /\ p + DateOffset <= MaxDate
  BY DateInRange
<1>2. ParameterDate(p) = AppendDate(p)
  BY DEF ParameterDate, AppendDate
<1>3. \/ d = DATEVAL_NOBEGIN /\ AppendDate(d) = -(DateHalf - 1)
      \/ d = DATEVAL_NOEND /\ AppendDate(d) = DateHalf - 1
      \/ d \in Int /\ AppendDate(d) = d + DateOffset
  BY DateInRange, DateEnds
<1> QED BY <1>1, <1>2, <1>3, DateAssumption DEF DATEVAL_NOBEGIN, DATEVAL_NOEND

\* A parameter is not checked: one that a row could not have wraps or stays out
\* of range.  It equals the rows that hold the same timestamp all the same, and
\* no others, unless the sum is one of DuckDB's infinities (ParameterTimestamp
\* against AppendTimestamp).
THEOREM TimestampParameterAgrees == \A p, t \in PgTimestamps :
  /\ p \notin {DT_NOBEGIN, DT_NOEND}
  /\ ParameterTimestamp(p) \notin {DuckTsNinfinity, DuckTsInfinity}
  /\ AppendTimestamp(t) # Raised
  => ((ParameterTimestamp(p) = AppendTimestamp(t)) <=> (p = t))
<1> SUFFICES ASSUME NEW p \in PgTimestamps, NEW t \in PgTimestamps,
                    p # DT_NOBEGIN, p # DT_NOEND,
                    ParameterTimestamp(p) # DuckTsNinfinity,
                    ParameterTimestamp(p) # DuckTsInfinity,
                    AppendTimestamp(t) # Raised
             PROVE  (ParameterTimestamp(p) = AppendTimestamp(t)) <=> (p = t)
  OBVIOUS
<1>1. p \in Int /\ MinTs <= p + TsOffset /\ p <= PgEndTs - 1
  <2>1. p \in (MinTs - TsOffset)..(PgEndTs - 1)
    BY DEF PgTimestamps
  <2> QED BY <2>1, TimestampAssumption
<1>2. \/ t = DT_NOBEGIN /\ AppendTimestamp(t) = DuckTsNinfinity
      \/ t = DT_NOEND /\ AppendTimestamp(t) = DuckTsInfinity
      \/ /\ t \in Int /\ AppendTimestamp(t) = t + TsOffset
         /\ MinTs <= t + TsOffset /\ t + TsOffset < MaxTs
  BY TimestampCases DEF DuckTsNinfinity, DuckTsInfinity
<1>3. CASE t \in Int /\ AppendTimestamp(t) = t + TsOffset
           /\ MinTs <= t + TsOffset /\ t + TsOffset < MaxTs
  <2>1. CASE p + TsOffset < MaxTs
    <3>1. ParameterTimestamp(p) = p + TsOffset
      BY <1>1, <2>1, TimestampAssumption DEF ParameterTimestamp, Wrap
    <3> QED BY <1>1, <1>3, <3>1, TimestampAssumption
  <2>2. CASE p + TsOffset >= MaxTs
    <3>1. ParameterTimestamp(p) \in Int
          /\ (ParameterTimestamp(p) >= MaxTs \/ ParameterTimestamp(p) < MinTs)
      BY <1>1, <2>2, TimestampAssumption DEF ParameterTimestamp, Wrap
    <3>2. p # t
      BY <1>1, <1>3, <2>2, TimestampAssumption
    <3> QED BY <1>3, <3>1, <3>2, TimestampAssumption
  <2> QED BY <1>1, <2>1, <2>2, TimestampAssumption
<1> QED BY <1>2, <1>3

-----------------------------------------------------------------------------
(* UUIDs *)

\* The top bit is flipped on the way and flipped back (DatumGetUUID,
\* ConvertUUIDDatum).
THEOREM UUIDRoundTrip == \A u \in UUIDs : ConvertUUIDDatum(DatumGetUUID(u)) = u
<1> SUFFICES ASSUME NEW h \in Byte, NEW l \in Byte
             PROVE  ConvertUUIDDatum(DatumGetUUID(<<h, l>>)) = <<h, l>>
  BY DEF UUIDs
<1>1. DatumGetUUID(<<h, l>>) = <<l, FlipTopBit(h)>>
  BY DEF DatumGetUUID
<1>2. FlipTopBit(FlipTopBit(h)) = h
  BY ScaleAssumption DEF FlipTopBit, Byte
<1>3. ConvertUUIDDatum(<<l, FlipTopBit(h)>>) = <<FlipTopBit(FlipTopBit(h)), l>>
  BY DEF ConvertUUIDDatum
<1> QED BY <1>1, <1>2, <1>3

\* Numbers of two digits are ordered by the first digit, then by the second.
LEMMA TwoDigits ==
  ASSUME NEW B \in Nat \ {0}, NEW a \in Int, NEW c \in Int,
         NEW b \in 0..(B - 1), NEW d \in 0..(B - 1)
  PROVE  (a * B + b < c * B + d) <=> (a < c \/ (a = c /\ b < d))
<1>1. a * B \in Int /\ c * B \in Int
  OBVIOUS
<1>2. ASSUME a < c PROVE a * B + B <= c * B
  <2>1. c - a >= 1 /\ c - a \in Nat
    BY <1>2
  <2>2. (c - a) * B >= B
    BY <2>1
  <2>3. (c - a) * B = c * B - a * B
    OBVIOUS
  <2> QED BY <1>1, <2>2, <2>3
<1>3. ASSUME c < a PROVE c * B + B <= a * B
  <2>1. a - c >= 1 /\ a - c \in Nat
    BY <1>3
  <2>2. (a - c) * B >= B
    BY <2>1
  <2>3. (a - c) * B = a * B - c * B
    OBVIOUS
  <2> QED BY <1>1, <2>2, <2>3
<1>4. CASE a < c
  BY <1>1, <1>2, <1>4
<1>5. CASE c < a
  BY <1>1, <1>3, <1>5
<1>6. CASE a = c
  BY <1>1, <1>6
<1> QED BY <1>4, <1>5, <1>6

\* DuckDB compares its signed integers as Postgres compares the bytes of a UUID,
\* because the top bit is flipped (DatumGetUUID).
THEOREM UUIDOrder == \A u, v \in UUIDs :
  (Hugeint(DatumGetUUID(u)) < Hugeint(DatumGetUUID(v)))
    <=> (u[1] < v[1] \/ (u[1] = v[1] /\ u[2] < v[2]))
<1> SUFFICES ASSUME NEW h \in Byte, NEW l \in Byte, NEW g \in Byte, NEW k \in Byte
             PROVE  (Hugeint(DatumGetUUID(<<h, l>>)) < Hugeint(DatumGetUUID(<<g, k>>)))
                      <=> (h < g \/ (h = g /\ l < k))
  BY DEF UUIDs
<1> DEFINE B == 2 * ByteHalf
<1>1. B \in Nat \ {0}
  BY ScaleAssumption
<1>2. ASSUME NEW x \in Byte, NEW y \in Byte
      PROVE  Hugeint(DatumGetUUID(<<x, y>>)) = (x - ByteHalf) * B + y
  <2>1. DatumGetUUID(<<x, y>>) = <<y, FlipTopBit(x)>>
    BY DEF DatumGetUUID
  <2>2. (IF FlipTopBit(x) >= ByteHalf THEN FlipTopBit(x) - 2 * ByteHalf ELSE FlipTopBit(x))
          = x - ByteHalf
    BY ScaleAssumption DEF FlipTopBit, Byte
  <2>3. Hugeint(<<y, FlipTopBit(x)>>) = (x - ByteHalf) * 2 * ByteHalf + y
    BY <2>2 DEF Hugeint
  <2>4. (x - ByteHalf) * 2 * ByteHalf = (x - ByteHalf) * B
    BY ScaleAssumption DEF Byte
  <2> QED BY <2>1, <2>3, <2>4
<1>3. h - ByteHalf \in Int /\ g - ByteHalf \in Int /\ l \in 0..(B - 1) /\ k \in 0..(B - 1)
  BY ScaleAssumption DEF Byte
<1> HIDE DEF B
<1>4. ((h - ByteHalf) * B + l < (g - ByteHalf) * B + k)
        <=> (h - ByteHalf < g - ByteHalf \/ (h - ByteHalf = g - ByteHalf /\ l < k))
  BY <1>1, <1>3, TwoDigits
<1>5. (h - ByteHalf < g - ByteHalf <=> h < g) /\ (h - ByteHalf = g - ByteHalf <=> h = g)
  BY ScaleAssumption DEF Byte
<1> QED BY <1>2, <1>4, <1>5

-----------------------------------------------------------------------------
(* Results *)

\* Nanoseconds are cut to microseconds, towards zero.
LEMMA NanosCut ==
  ASSUME NEW t \in Int
  PROVE  /\ ToMicros(t, "TIMESTAMP_NS") \in Int
         /\ -Kilo < ToMicros(t, "TIMESTAMP_NS") * Kilo - t
         /\ ToMicros(t, "TIMESTAMP_NS") * Kilo - t < Kilo
<1>1. \A n \in Nat : /\ n \div Kilo \in Nat
                     /\ (n \div Kilo) * Kilo <= n
                     /\ n < (n \div Kilo) * Kilo + Kilo
  BY ScaleAssumption
<1>2. CASE t >= 0
  <2>1. ToMicros(t, "TIMESTAMP_NS") = t \div Kilo
    BY <1>2 DEF ToMicros
  <2>2. t \div Kilo \in Nat /\ (t \div Kilo) * Kilo <= t /\ t < (t \div Kilo) * Kilo + Kilo
    BY <1>1, <1>2
  <2>3. (t \div Kilo) * Kilo \in Int
    BY <2>2, ScaleAssumption
  <2> QED BY <2>1, <2>2, <2>3, ScaleAssumption
<1>3. CASE ~(t >= 0)
  <2> DEFINE q == (-t) \div Kilo
  <2>1. ToMicros(t, "TIMESTAMP_NS") = -q
    BY <1>3 DEF ToMicros
  <2>2. q \in Nat /\ q * Kilo <= -t /\ -t < q * Kilo + Kilo
    BY <1>1, <1>3
  <2> HIDE DEF q
  <2>3. (-q) * Kilo = -(q * Kilo) /\ q * Kilo \in Int
    BY <2>2, ScaleAssumption
  <2> QED BY <2>1, <2>2, <2>3, ScaleAssumption
<1> QED BY <1>2, <1>3

\* A product is a number again, and the right one if it fits.
LEMMA ProductFits ==
  ASSUME NEW x \in Int
  PROVE  /\ WrapProduct(x, TsHalf) \in Int
         /\ x \in (-TsHalf)..(TsHalf - 1) => WrapProduct(x, TsHalf) = x
<1>1. TsHalf \in Nat \ {0}
  BY TimestampAssumption
<1>2. (x + TsHalf) % (2 * TsHalf) \in Int
  BY <1>1
<1>3. ((x + TsHalf) % (2 * TsHalf)) - TsHalf \in Int
  BY <1>1, <1>2
<1> QED BY <1>1, <1>3 DEF WrapProduct

\* The microseconds that ToMicros computes are those the value means, unless
\* the product leaves its type.
LEMMA MicrosOf ==
  ASSUME NEW t \in Int, NEW unit \in TimestampIds
  PROVE  /\ Micros(t, unit) \in Int /\ ToMicros(t, unit) \in Int
         /\ ToMicros(t, unit) = Micros(t, unit) \/ ProductWraps(t, unit)
         /\ ProductWraps(t, unit) => Micros(t, unit) < MinTs \/ Micros(t, unit) >= MaxTs
<1>1. ASSUME NEW x \in Int, Micros(t, unit) = x, ToMicros(t, unit) = WrapProduct(x, TsHalf),
             unit \in {"TIMESTAMP_S", "TIMESTAMP_MS"}
      PROVE  /\ Micros(t, unit) \in Int /\ ToMicros(t, unit) \in Int
             /\ ToMicros(t, unit) = Micros(t, unit) \/ ProductWraps(t, unit)
             /\ ProductWraps(t, unit) => Micros(t, unit) < MinTs \/ Micros(t, unit) >= MaxTs
  <2>1. ProductWraps(t, unit) <=> x \notin (-TsHalf)..(TsHalf - 1)
    BY <1>1 DEF ProductWraps
  <2>2. x \notin (-TsHalf)..(TsHalf - 1) => x < MinTs \/ x >= MaxTs
    BY TimestampAssumption
  <2> QED BY <1>1, <2>1, <2>2, ProductFits
<1>2. CASE unit = "TIMESTAMP_S"
  <2>1. t * Kilo * Kilo \in Int
    BY ScaleAssumption
  <2>2. Micros(t, unit) = t * Kilo * Kilo /\ ToMicros(t, unit) = WrapProduct(t * Kilo * Kilo, TsHalf)
    BY <1>2 DEF Micros, ToMicros
  <2> QED BY <1>1, <1>2, <2>1, <2>2
<1>3. CASE unit = "TIMESTAMP_MS"
  <2>1. t * Kilo \in Int
    BY ScaleAssumption
  <2>2. Micros(t, unit) = t * Kilo /\ ToMicros(t, unit) = WrapProduct(t * Kilo, TsHalf)
    BY <1>3 DEF Micros, ToMicros
  <2> QED BY <1>1, <1>3, <2>1, <2>2
<1>4. CASE unit \notin {"TIMESTAMP_S", "TIMESTAMP_MS"}
  <2>1. Micros(t, unit) = ToMicros(t, unit) /\ ~ProductWraps(t, unit)
    BY <1>4 DEF Micros, ProductWraps
  <2>2. ToMicros(t, unit) \in Int
    <3>1. CASE unit = "TIMESTAMP_NS"
      BY <3>1, NanosCut
    <3>2. CASE unit # "TIMESTAMP_NS"
      BY <1>4, <3>2 DEF ToMicros
    <3> QED BY <3>1, <3>2
  <2> QED BY <2>1, <2>2
<1> QED BY <1>2, <1>3, <1>4

\* ConvertTimestampDatum refuses a finite timestamp only if it is out of the
\* range that is checked after the change of the unit, and always then unless
\* the product of the change wraps; what it returns is a finite timestamp of
\* Postgres, the same one to the microsecond unless the product wraps.
THEOREM TimestampResults == \A t \in Int, unit \in TimestampIds :
  t \notin {DuckTsNinfinity, DuckTsInfinity} =>
    LET r == ConvertTimestampDatum(t, unit)
        micros == Micros(t, unit)
        outside == micros < MinTs \/ micros >= MaxTs
    IN  /\ r = Raised => outside
        /\ outside => r = Raised \/ ProductWraps(t, unit)
        /\ r # Raised =>
             /\ r \in PgTimestamps \ {DT_NOBEGIN, DT_NOEND}
             /\ r + TsOffset = micros \/ ProductWraps(t, unit)
             /\ unit = "TIMESTAMP_NS" =>
                  -Kilo < (r + TsOffset) * Kilo - t /\ (r + TsOffset) * Kilo - t < Kilo
<1> SUFFICES ASSUME NEW t \in Int, NEW unit \in TimestampIds,
                    t # DuckTsNinfinity, t # DuckTsInfinity
             PROVE  LET r == ConvertTimestampDatum(t, unit)
                        micros == Micros(t, unit)
                        outside == micros < MinTs \/ micros >= MaxTs
                    IN  /\ r = Raised => outside
                        /\ outside => r = Raised \/ ProductWraps(t, unit)
                        /\ r # Raised =>
                             /\ r \in PgTimestamps \ {DT_NOBEGIN, DT_NOEND}
                             /\ r + TsOffset = micros \/ ProductWraps(t, unit)
                             /\ unit = "TIMESTAMP_NS" =>
                                  /\ -Kilo < (r + TsOffset) * Kilo - t
                                  /\ (r + TsOffset) * Kilo - t < Kilo
  OBVIOUS
<1> DEFINE r == ConvertTimestampDatum(t, unit)
           m == ToMicros(t, unit)
           u == Micros(t, unit)
           w == ProductWraps(t, unit)
<1>1. m \in Int /\ u \in Int /\ (m = u \/ w) /\ (w => u < MinTs \/ u >= MaxTs)
  BY MicrosOf
<1>2. unit = "TIMESTAMP_NS" => -Kilo < m * Kilo - t /\ m * Kilo - t < Kilo
  BY NanosCut
<1>3. r = IF ValidTimestampOrTimestampTz(m) THEN m - TsOffset ELSE Raised
  BY DEF ConvertTimestampDatum
<1> HIDE DEF r, m, u, w
<1>4. (r = Raised) <=> (m < MinTs \/ m >= MaxTs)
  <2>1. m - TsOffset \in Int
    BY <1>1, TimestampAssumption
  <2>2. m - TsOffset # Raised
    BY <2>1, RaisedAssumption
  <2>3. ValidTimestampOrTimestampTz(m) <=> ~(m < MinTs \/ m >= MaxTs)
    BY <1>1, TimestampAssumption DEF ValidTimestampOrTimestampTz
  <2> QED BY <1>3, <2>2, <2>3
<1>5. ASSUME r # Raised
      PROVE  /\ r \in PgTimestamps \ {DT_NOBEGIN, DT_NOEND}
             /\ r + TsOffset = m
  <2>1. r = m - TsOffset /\ MinTs <= m /\ m < MaxTs
    BY <1>3, <1>5 DEF ValidTimestampOrTimestampTz
  <2>2. r \in (MinTs - TsOffset)..(PgEndTs - 1) /\ r + TsOffset = m
    BY <1>1, <2>1, TimestampAssumption
  <2>3. r # DT_NOBEGIN /\ r # DT_NOEND
    BY <1>1, <2>1, TimestampAssumption DEF DT_NOBEGIN, DT_NOEND
  <2> QED BY <2>2, <2>3 DEF PgTimestamps
<1>6. /\ r = Raised => u < MinTs \/ u >= MaxTs
      /\ u < MinTs \/ u >= MaxTs => r = Raised \/ w
      /\ r # Raised =>
           /\ r \in PgTimestamps \ {DT_NOBEGIN, DT_NOEND}
           /\ r + TsOffset = u \/ w
           /\ unit = "TIMESTAMP_NS" =>
                /\ -Kilo < (r + TsOffset) * Kilo - t
                /\ (r + TsOffset) * Kilo - t < Kilo
  BY <1>1, <1>2, <1>4, <1>5
<1> QED BY <1>6 DEF r, m, u, w

-----------------------------------------------------------------------------
(* Columns *)

Texts == {"text", "bpchar", "varchar", "json", "jsonb"}
Timestamps == {"timestamp", "timestamptz"}
Nested == {"struct", "union", "map"}
Copied(pg) == pg \notin Texts \cup Timestamps \cup Nested \cup {"date", "timetz", "uuid", "numeric"}
CopiedIds == {"BOOLEAN", "TINYINT", "SMALLINT", "INTEGER", "BIGINT", "INTERVAL", "BIT", "TIME",
              "FLOAT", "DOUBLE", "UINTEGER", "BLOB"}

\* A column whose values, or whose elements, are no numbers with a fraction;
\* an array of timestamps with zones has no DuckDB type.
Plain(c) == c.pg # "numeric"
ZonedArray(c) == c.array /\ c.pg = "timestamptz"

\* The DuckDB types that the types of Postgres are given.
LEMMA BaseTypes ==
  /\ {"date", "timetz", "uuid", "char"} \cup Texts \cup Timestamps \cup Nested \subseteq DOMAIN BaseDuckType
  /\ BaseDuckType["date"] = "DATE" /\ BaseDuckType["timetz"] = "TIME_TZ"
  /\ BaseDuckType["uuid"] = "UUID" /\ BaseDuckType["char"] = "TINYINT"
  /\ \A pg \in Timestamps : BaseDuckType[pg] \in {"TIMESTAMP", "TIMESTAMP_TZ"}
  /\ \A pg \in Texts : BaseDuckType[pg] \in {"VARCHAR", "JSON"}
  /\ \A pg \in Nested : BaseDuckType[pg] \in NestedIds
  /\ \A pg \in DOMAIN BaseDuckType : Copied(pg) => BaseDuckType[pg] \in CopiedIds
  /\ \A pg \in DOMAIN BaseDuckType : pg # "char" => BaseDuckType[pg] # "TINYINT"
<1> USE DEF BaseDuckType
<1>1. {"date", "timetz", "uuid", "char"} \cup Texts \cup Timestamps \cup Nested \subseteq DOMAIN BaseDuckType
  BY DEF Texts, Timestamps, Nested
<1>2. /\ BaseDuckType["date"] = "DATE" /\ BaseDuckType["timetz"] = "TIME_TZ"
      /\ BaseDuckType["uuid"] = "UUID" /\ BaseDuckType["char"] = "TINYINT"
  OBVIOUS
<1>3. \A pg \in Timestamps : BaseDuckType[pg] \in {"TIMESTAMP", "TIMESTAMP_TZ"}
  BY DEF Timestamps
<1>4. \A pg \in Texts : BaseDuckType[pg] \in {"VARCHAR", "JSON"}
  BY DEF Texts
<1>5. \A pg \in DOMAIN BaseDuckType : Copied(pg) => BaseDuckType[pg] \in CopiedIds
  BY DEF Copied, CopiedIds, Texts, Timestamps, Nested
<1>6. \A pg \in DOMAIN BaseDuckType : pg # "char" => BaseDuckType[pg] # "TINYINT"
  OBVIOUS
<1>7. \A pg \in Nested : BaseDuckType[pg] \in NestedIds
  BY DEF Nested, NestedIds
<1> QED BY <1>1, <1>2, <1>3, <1>4, <1>5, <1>6, <1>7

\* The DuckDB type of a column (ConvertPostgresToDuckColumnType).
LEMMA ColumnType ==
  ASSUME NEW c \in PgColumns, Plain(c)
  PROVE  LET t == ConvertPostgresToDuckColumnType(c) IN
         /\ ~c.array => t.nest = <<>>
         /\ c.pg = "date" => t.id = "DATE"
         /\ ZonedArray(c) => t.id = Unsupported
         /\ c.pg \in Timestamps /\ ~ZonedArray(c) => t.id \in {"TIMESTAMP", "TIMESTAMP_TZ"}
         /\ c.pg \in Texts => t.id \in {"VARCHAR", "JSON"}
         /\ c.pg = "timetz" => t.id = "TIME_TZ"
         /\ c.pg = "uuid" => t.id = "UUID"
         /\ c.pg \in Nested => t.id \in NestedIds
         /\ (c.pg = "char") <=> (t.id = "TINYINT")
         /\ Copied(c.pg) => t.id \in CopiedIds \cup {Unsupported}
<1> DEFINE t == ConvertPostgresToDuckColumnType(c)
<1>1. (~c.array => t.nest = <<>>) /\ t.id = ConvertPostgresToBaseDuckColumnType(c)
  BY DEF ConvertPostgresToDuckColumnType
<1>2. t.id = IF c.pg \in DOMAIN BaseDuckType /\ ~ZonedArray(c) THEN BaseDuckType[c.pg] ELSE Unsupported
  BY <1>1 DEF Plain, ZonedArray, ConvertPostgresToBaseDuckColumnType
<1>8. ZonedArray(c) => c.pg = "timestamptz"
  BY DEF ZonedArray
<1>3. Unsupported # "TINYINT"
  BY UnsupportedAssumption, BaseTypes DEF Range
<1> HIDE DEF t
<1>4. (c.pg = "char") <=> (t.id = "TINYINT")
  BY <1>2, <1>3, <1>8, BaseTypes
<1>5. Copied(c.pg) => t.id \in CopiedIds \cup {Unsupported}
  BY <1>2, BaseTypes
<1>6. /\ c.pg = "date" => t.id = "DATE"
      /\ c.pg = "timetz" => t.id = "TIME_TZ"
      /\ c.pg = "uuid" => t.id = "UUID"
  BY <1>2, <1>8, BaseTypes
<1>7. /\ c.pg \in Timestamps /\ ~ZonedArray(c) => t.id \in {"TIMESTAMP", "TIMESTAMP_TZ"}
      /\ c.pg \in Texts => t.id \in {"VARCHAR", "JSON"}
  BY <1>2, <1>8, BaseTypes DEF Texts
<1>9. c.pg \in Nested => t.id \in NestedIds
  BY <1>2, <1>8, BaseTypes DEF Nested
<1> QED BY <1>1, <1>2, <1>4, <1>5, <1>6, <1>7, <1>9 DEF t

\* The Postgres types that the DuckDB types are returned as.
LEMMA ResultType ==
  ASSUME NEW t
  PROVE  LET oid == GetPostgresDuckDBType(t) IN
         /\ t.id = "DATE" => oid = "date"
         /\ t.id \in TimestampIds =>
              IF t.nest = <<>> \/ t.id \in {"TIMESTAMP", "TIMESTAMP_TZ"} THEN oid \in Timestamps
              ELSE oid = Unsupported
         /\ t.id = "TIME_TZ" => oid = "timetz"
         /\ t.id = "UUID" => oid = "uuid"
         /\ t.id \notin TimestampIds \cup NumberIds \cup {"DATE", "TIME_TZ", "UUID"}
              => oid \notin Timestamps \cup {"date", "timetz", "uuid", "numeric"}
<1> DEFINE oid == GetPostgresDuckDBType(t)
<1>1. t.id = "DATE" => oid = "date"
  BY DEF GetPostgresDuckDBType, GetPostgresArrayDuckDBType
<1>2. t.id = "TIME_TZ" => oid = "timetz"
  BY DEF GetPostgresDuckDBType, GetPostgresArrayDuckDBType
<1>3. t.id = "UUID" => oid = "uuid"
  BY DEF GetPostgresDuckDBType, GetPostgresArrayDuckDBType
<1>4. t.id \in TimestampIds =>
        IF t.nest = <<>> \/ t.id \in {"TIMESTAMP", "TIMESTAMP_TZ"} THEN oid \in Timestamps
        ELSE oid = Unsupported
  BY DEF GetPostgresDuckDBType, GetPostgresArrayDuckDBType, TimestampIds, Timestamps
<1>5. ASSUME t.id \notin TimestampIds \cup NumberIds \cup {"DATE", "TIME_TZ", "UUID"}
      PROVE  oid \notin Timestamps \cup {"date", "timetz", "uuid", "numeric"}
  <2>1. CASE t.id = "ENUM" /\ t.nest = <<>>
    BY <2>1 DEF GetPostgresDuckDBType, Timestamps
  <2>2. CASE t.id # "ENUM" \/ t.nest # <<>>
    <3>1. oid = GetPostgresArrayDuckDBType(t.id)
      BY <1>5, <2>2 DEF GetPostgresDuckDBType, TimestampIds, NumberIds
    <3>2. Unsupported \notin Timestamps \cup {"date", "timetz", "uuid", "numeric"}
      BY UnsupportedAssumption DEF Timestamps, BaseDuckType
    <3>3. t.id \notin {"TIMESTAMP", "TIMESTAMP_TZ", "DATE", "TIME_TZ", "UUID", "DECIMAL", "HUGEINT", "BIGNUM"}
      BY <1>5 DEF TimestampIds, NumberIds
    <3> QED BY <3>1, <3>2, <3>3 DEF GetPostgresArrayDuckDBType, Timestamps
  <2> QED BY <2>1, <2>2
<1> HIDE DEF oid
<1> QED BY <1>1, <1>2, <1>3, <1>4, <1>5 DEF oid

\* What has no DuckDB type has no Postgres type as a result.
LEMMA NoType ==
  ASSUME NEW t, t.id = Unsupported
  PROVE  GetPostgresDuckDBType(t) = Unsupported
<1> DEFINE none == [id |-> Unsupported, nest |-> <<>>]
<1>1. none.id = Unsupported /\ none.nest = <<>> /\ GetPostgresDuckDBType(none) = Unsupported
  BY UnsupportedAssumption
<1> HIDE DEF none
<1>2. Unsupported \notin {"UBIGINT", "UHUGEINT", "TIMESTAMP_S", "TIMESTAMP_MS", "TIMESTAMP_NS", "ENUM"}
  <2>1. {"numeric", "timestamp", "varchar"} \subseteq DOMAIN BaseDuckType
    BY DEF BaseDuckType
  <2>2. Unsupported \notin {"numeric", "timestamp", "varchar"}
    BY <2>1, UnsupportedAssumption
  <2> QED BY <1>1, <2>2 DEF GetPostgresDuckDBType
<1>3. /\ GetPostgresDuckDBType(none) = GetPostgresArrayDuckDBType(Unsupported)
      /\ GetPostgresDuckDBType(t) = GetPostgresArrayDuckDBType(Unsupported)
  BY <1>1, <1>2 DEF GetPostgresDuckDBType
<1> QED BY <1>1, <1>3

-----------------------------------------------------------------------------
(* One value *)

\* What a cell is given for a value of a scalar column, or for an element.
ElementType(c) == IF c.array THEN c.pg ELSE AttrType(c)
Cell(c, v) == AppendScalar(ElementType(c), v, ConvertPostgresToDuckColumnType(c))
Supported(t) == GetPostgresDuckDBType(t) # Unsupported
DomainLoss(c) == c.domain /\ ~c.array /\ c.pg \in {"bpchar", "jsonb"}

\* A scalar column holds values of its own type, or of the domain over it.
LEMMA ScalarIsPlain ==
  ASSUME NEW c, IsScalar(c)
  PROVE  /\ Plain(c) /\ ~ZonedArray(c) /\ ElementType(c) = AttrType(c)
         /\ \A v : Expected(c, v) = ExpectedScalar(c, v)
BY DEF IsScalar, Plain, ZonedArray, ElementType, Expected

\* The special values are no values of a column.
LEMMA Special ==
  /\ \A x \in Int \cup UUIDs \cup PgTimeTz \cup DuckTimeTz \cup Text("txt") \cup Text("bin") :
       x # Null /\ x # Garbage /\ x # Raised
  /\ Null # Garbage /\ Null # Raised /\ Garbage # Raised
BY SpecialAssumption DEF AnyScalar

\* The cells of a timestamp column with a zone are returned as those without.
LEMMA TzAsTimestamp ==
  ASSUME NEW d PROVE ConvertTimestampDatum(d, "TIMESTAMP_TZ") = ConvertTimestampDatum(d, "TIMESTAMP")
BY DEF ConvertTimestampDatum, ToMicros

\* The cell of a date, and what it is returned as.
LEMMA DateCell ==
  ASSUME NEW c \in PgColumns, Plain(c), c.pg = "date", NEW v \in PgDates
  PROVE  LET t == ConvertPostgresToDuckColumnType(c) IN
         /\ Cell(c, v) = AppendDate(v) /\ Cell(c, v) \in Int
         /\ ToDatum(Cell(c, v), t) = v
<1> DEFINE t == ConvertPostgresToDuckColumnType(c)
<1>1. t.id = "DATE" /\ GetPostgresDuckDBType(t) = "date"
  BY ColumnType, ResultType
<1> HIDE DEF t
<1>2. Cell(c, v) = AppendDate(v)
  BY <1>1 DEF Cell, AppendScalar, NestedIds, t
<1>3. AppendDate(v) \in Int
  BY DateInRange, DateEnds, DateAssumption
<1>4. ToDatum(AppendDate(v), t) = v
  BY <1>1, DateRoundTrip DEF ToDatum
<1> QED BY <1>2, <1>3, <1>4 DEF t

\* The cell of a timestamp, unless it is refused.
LEMMA TimestampCell ==
  ASSUME NEW c \in PgColumns, Plain(c), c.pg \in Timestamps, ~ZonedArray(c), NEW v \in PgTimestamps
  PROVE  LET t == ConvertPostgresToDuckColumnType(c) IN
         /\ t.id \in {"TIMESTAMP", "TIMESTAMP_TZ"}
         /\ Cell(c, v) = AppendTimestamp(v)
         /\ Cell(c, v) = Raised => v + TsOffset >= MaxTs
         /\ Cell(c, v) # Raised => Cell(c, v) \in Int /\ ToDatum(Cell(c, v), t) = v
<1> DEFINE t == ConvertPostgresToDuckColumnType(c)
<1>1. t.id \in {"TIMESTAMP", "TIMESTAMP_TZ"} /\ GetPostgresDuckDBType(t) \in Timestamps
  BY ColumnType, ResultType DEF TimestampIds, NumberIds
<1> HIDE DEF t
<1>2. Cell(c, v) = AppendTimestamp(v)
  BY <1>1 DEF Cell, AppendScalar, NestedIds, t
<1>3. AppendTimestamp(v) = Raised => v + TsOffset >= MaxTs
  BY TimestampBoundsCheck
<1>4. ASSUME AppendTimestamp(v) # Raised
      PROVE  AppendTimestamp(v) \in Int /\ ToDatum(AppendTimestamp(v), t) = v
  <2>1. AppendTimestamp(v) \in Int
    BY <1>4, TimestampCases, TimestampAssumption
  <2>2. ToDatum(AppendTimestamp(v), t) = ConvertTimestampDatum(AppendTimestamp(v), t.id)
    BY <1>1 DEF ToDatum, Timestamps
  <2>3. ConvertTimestampDatum(AppendTimestamp(v), t.id) = ConvertTimestampDatum(AppendTimestamp(v), "TIMESTAMP")
    BY <1>1, TzAsTimestamp
  <2> QED BY <2>1, <2>2, <2>3, <1>4, TimestampRoundTrip
<1> QED BY <1>1, <1>2, <1>3, <1>4 DEF t

\* The cell of a time with a zone.
LEMMA TimeTzCell ==
  ASSUME NEW c \in PgColumns, Plain(c), c.pg = "timetz", NEW v \in PgTimeTz
  PROVE  LET t == ConvertPostgresToDuckColumnType(c) IN
         /\ Cell(c, v) = DatumGetTimeTz(v) /\ Cell(c, v) \in DuckTimeTz
         /\ ToDatum(Cell(c, v), t) = v
<1> DEFINE t == ConvertPostgresToDuckColumnType(c)
<1>1. t.id = "TIME_TZ" /\ GetPostgresDuckDBType(t) = "timetz"
  BY ColumnType, ResultType
<1> HIDE DEF t
<1>2. Cell(c, v) = DatumGetTimeTz(v)
  BY <1>1 DEF Cell, AppendScalar, NestedIds, t
<1>3. DatumGetTimeTz(v) \in DuckTimeTz
  BY DEF DatumGetTimeTz, PgTimeTz, DuckTimeTz
<1>4. ConvertTimeTzDatum(DatumGetTimeTz(v)) = v
  BY DEF DatumGetTimeTz, ConvertTimeTzDatum, PgTimeTz
<1>5. ToDatum(DatumGetTimeTz(v), t) = v
  BY <1>1, <1>4 DEF ToDatum
<1> QED BY <1>2, <1>3, <1>5 DEF t

\* The cell of a UUID.
LEMMA UUIDCell ==
  ASSUME NEW c \in PgColumns, Plain(c), c.pg = "uuid", NEW v \in UUIDs
  PROVE  LET t == ConvertPostgresToDuckColumnType(c) IN
         /\ Cell(c, v) = DatumGetUUID(v) /\ Cell(c, v) \in UUIDs
         /\ ToDatum(Cell(c, v), t) = v
<1> DEFINE t == ConvertPostgresToDuckColumnType(c)
<1>1. t.id = "UUID" /\ GetPostgresDuckDBType(t) = "uuid"
  BY ColumnType, ResultType
<1> HIDE DEF t
<1>2. Cell(c, v) = DatumGetUUID(v)
  BY <1>1 DEF Cell, AppendScalar, NestedIds, t
<1>3. DatumGetUUID(v) \in UUIDs
  BY ScaleAssumption DEF DatumGetUUID, UUIDs, Byte, FlipTopBit
<1>4. ToDatum(DatumGetUUID(v), t) = v
  BY <1>1, UUIDRoundTrip DEF ToDatum
<1> QED BY <1>2, <1>3, <1>4 DEF t

\* The cell of a text: not padded, and printed, unless a domain hides its type.
LEMMA TextCell ==
  ASSUME NEW c \in PgColumns, Plain(c), c.pg \in Texts, NEW v \in ScalarValues(c.pg)
  PROVE  LET t == ConvertPostgresToDuckColumnType(c) IN
         /\ v \in Text("txt") \cup Text("bin")
         /\ Cell(c, v) \in Text("txt") \cup Text("bin")
         /\ ~DomainLoss(c) => Cell(c, v) = ExpectedScalar(c, v)
         /\ ToDatum(Cell(c, v), t) = Cell(c, v)
<1> DEFINE t == ConvertPostgresToDuckColumnType(c)
<1>1. t.id \in {"VARCHAR", "JSON"}
  BY ColumnType
<1>2. GetPostgresDuckDBType(t) \notin Timestamps \cup {"date", "timetz", "uuid", "numeric"}
  BY <1>1, ColumnType, ResultType DEF TimestampIds, NumberIds
<1> HIDE DEF t
<1>3. /\ c.pg = "jsonb" => v \in Text("bin")
      /\ c.pg # "jsonb" => v \in Text("txt")
  BY DEF ScalarValues, Texts
<1>4. Cell(c, v) = IF ElementType(c) = "jsonb" THEN AppendJsonb(v) ELSE AppendString(v, ElementType(c) = "bpchar")
  BY <1>1 DEF Cell, AppendScalar, NestedIds, t
<1>5. /\ AppendJsonb(v) \in Text("txt")
      /\ [v EXCEPT !.pad = 0] \in Text("txt") \cup Text("bin")
  BY <1>3 DEF AppendJsonb, Text
<1>6. Cell(c, v) \in Text("txt") \cup Text("bin")
  BY <1>3, <1>4, <1>5 DEF AppendString
<1>7. v # Null
  BY <1>3, Special
<1>8. ASSUME ~DomainLoss(c) PROVE Cell(c, v) = ExpectedScalar(c, v)
  <2>1. CASE c.pg \in {"bpchar", "jsonb"}
    <3>1. ElementType(c) = c.pg
      BY <1>8, <2>1 DEF DomainLoss, ElementType, AttrType
    <3> QED BY <1>4, <1>7, <2>1, <3>1 DEF ExpectedScalar, AppendString, AppendJsonb
  <2>2. CASE c.pg \notin {"bpchar", "jsonb"}
    <3>1. ElementType(c) \notin {"bpchar", "jsonb"}
      BY <2>2 DEF ElementType, AttrType
    <3>2. ExpectedScalar(c, v) = v
      BY <1>7, <2>2 DEF ExpectedScalar, Plain
    <3> QED BY <1>4, <3>1, <3>2 DEF AppendString
  <2> QED BY <2>1, <2>2
<1>9. ToDatum(Cell(c, v), t) = Cell(c, v)
  BY <1>2 DEF ToDatum, Timestamps
<1> QED BY <1>3, <1>6, <1>8, <1>9 DEF t

\* A struct, a union or a map fills no cell.
LEMMA NestedCell ==
  ASSUME NEW c \in PgColumns, Plain(c), c.pg \in Nested, NEW v
  PROVE  /\ ConvertPostgresToDuckColumnType(c).id \in NestedIds
         /\ Cell(c, v) = Raised
<1> DEFINE t == ConvertPostgresToDuckColumnType(c)
<1>1. t.id \in NestedIds
  BY ColumnType
<1>2. Cell(c, v) = AppendScalar(ElementType(c), v, t)
  BY DEF Cell
<1> HIDE DEF t
<1>3. AppendScalar(ElementType(c), v, t) = Raised
  BY <1>1 DEF AppendScalar, NestedIds
<1> QED BY <1>1, <1>2, <1>3 DEF t

\* The cell of any other value is the value.
LEMMA CopiedCell ==
  ASSUME NEW c \in PgColumns, Plain(c), Copied(c.pg) \/ ZonedArray(c), NEW v \in Int
  PROVE  LET t == ConvertPostgresToDuckColumnType(c) IN
         Cell(c, v) = v /\ ToDatum(v, t) = v
<1> DEFINE t == ConvertPostgresToDuckColumnType(c)
<1>1. t.id \in CopiedIds \cup {Unsupported}
  BY ColumnType
<1>2. Unsupported \notin {"DATE", "TIMESTAMP", "TIMESTAMP_TZ", "VARCHAR", "JSON", "TIME_TZ", "UUID", "DECIMAL"} \cup NestedIds
  BY UnsupportedAssumption DEF BaseDuckType, Range, NestedIds
<1> HIDE DEF t
<1>3. Cell(c, v) = v
  BY <1>1, <1>2 DEF Cell, AppendScalar, CopiedIds, NestedIds, t
<1>4. GetPostgresDuckDBType(t) \notin Timestamps \cup {"date", "timetz", "uuid", "numeric"}
  <2>1. CASE t.id \in CopiedIds
    BY <1>1, <2>1, ResultType DEF CopiedIds, TimestampIds, NumberIds
  <2>2. CASE t.id = Unsupported
    <3>1. GetPostgresDuckDBType(t) = Unsupported
      BY <2>2, NoType
    <3>2. Unsupported \notin Timestamps \cup {"date", "timetz", "uuid", "numeric"}
      BY UnsupportedAssumption DEF Timestamps, BaseDuckType
    <3> QED BY <3>1, <3>2
  <2> QED BY <1>1, <2>1, <2>2
<1>5. ToDatum(v, t) = v
  BY <1>4 DEF ToDatum, Timestamps
<1> QED BY <1>3, <1>5 DEF t

\* A value is refused only if its type is, or for a timestamp that DuckDB cannot
\* hold; any other value fills a cell that is returned as it must be.
LEMMA ScalarCell ==
  ASSUME NEW c \in PgColumns, Plain(c), NEW v \in ScalarValues(c.pg)
  PROVE  LET t == ConvertPostgresToDuckColumnType(c) IN
         /\ v # Null
         /\ Cell(c, v) = Raised => NoRowValue(t, v)
         /\ Cell(c, v) # Raised =>
              /\ Cell(c, v) # Null /\ Cell(c, v) # Garbage
              /\ Cell(c, v) \in AnyScalar /\ ToDatum(Cell(c, v), t) \in AnyScalar
              /\ ToDatum(Cell(c, v), t) # Raised
              /\ ~DomainLoss(c) => ToDatum(Cell(c, v), t) = ExpectedScalar(c, v)
<1> DEFINE t == ConvertPostgresToDuckColumnType(c)
           Datum == ToDatum(Cell(c, v), t)
<1>0. ASSUME v # Null, c.pg \notin Texts PROVE ExpectedScalar(c, v) = v
  BY <1>0 DEF ExpectedScalar, Plain, Texts
<1>1. CASE c.pg = "date"
  <2>1. v \in PgDates
    BY <1>1 DEF ScalarValues
  <2>2. v \in Int
    BY <2>1, DateAssumption DEF PgDates, DATEVAL_NOBEGIN, DATEVAL_NOEND
  <2>3. Cell(c, v) \in Int /\ Datum = v
    BY <1>1, <2>1, DateCell
  <2> HIDE DEF Datum
  <2>4. ExpectedScalar(c, v) = v
    BY <1>0, <1>1, <2>2, Special DEF Texts
  <2> QED BY <2>2, <2>3, <2>4, Special DEF Datum, AnyScalar
<1>2. CASE c.pg \in Timestamps /\ ~ZonedArray(c)
  <2>1. v \in PgTimestamps
    BY <1>2 DEF ScalarValues, Timestamps
  <2>2. v \in Int
    BY <2>1, TimestampAssumption DEF PgTimestamps, DT_NOBEGIN, DT_NOEND
  <2>3. /\ t.id \in {"TIMESTAMP", "TIMESTAMP_TZ"}
        /\ Cell(c, v) = Raised => v + TsOffset >= MaxTs
        /\ Cell(c, v) # Raised => Cell(c, v) \in Int /\ Datum = v
    BY <1>2, <2>1, TimestampCell
  <2> HIDE DEF Datum, t
  <2>4. ExpectedScalar(c, v) = v
    BY <1>0, <1>2, <2>2, Special DEF Texts, Timestamps
  <2> QED BY <2>2, <2>3, <2>4, Special DEF Datum, AnyScalar, t, NoRowValue
<1>3. CASE c.pg = "timetz"
  <2>1. v \in PgTimeTz
    BY <1>3 DEF ScalarValues
  <2>2. Cell(c, v) \in DuckTimeTz /\ Datum = v
    BY <1>3, <2>1, TimeTzCell
  <2> HIDE DEF Datum
  <2>3. ExpectedScalar(c, v) = v
    BY <1>0, <1>3, <2>1, Special DEF Texts
  <2> QED BY <2>1, <2>2, <2>3, Special DEF Datum, AnyScalar
<1>4. CASE c.pg = "uuid"
  <2>1. v \in UUIDs
    BY <1>4 DEF ScalarValues
  <2>2. Cell(c, v) \in UUIDs /\ Datum = v
    BY <1>4, <2>1, UUIDCell
  <2> HIDE DEF Datum
  <2>3. ExpectedScalar(c, v) = v
    BY <1>0, <1>4, <2>1, Special DEF Texts
  <2> QED BY <2>1, <2>2, <2>3, Special DEF Datum, AnyScalar
<1>5. CASE c.pg \in Texts
  <2>1. /\ v \in Text("txt") \cup Text("bin")
        /\ Cell(c, v) \in Text("txt") \cup Text("bin")
        /\ ~DomainLoss(c) => Cell(c, v) = ExpectedScalar(c, v)
        /\ Datum = Cell(c, v)
    BY <1>5, TextCell
  <2> HIDE DEF Datum
  <2> QED BY <2>1, Special DEF Datum, AnyScalar
<1>6. CASE Copied(c.pg) \/ ZonedArray(c)
  <2>1. v \in Int
    BY <1>6, TimestampAssumption
    DEF ScalarValues, Copied, Texts, Timestamps, ZonedArray, PgTimestamps, DT_NOBEGIN, DT_NOEND
  <2>2. Cell(c, v) = v /\ Datum = v
    BY <1>6, <2>1, CopiedCell
  <2> HIDE DEF Datum
  <2>3. ExpectedScalar(c, v) = v
    BY <1>0, <1>6, <2>1, Special DEF Copied, ZonedArray, Texts
  <2> QED BY <2>1, <2>2, <2>3, Special DEF Datum, AnyScalar
<1>8. CASE c.pg \in Nested
  <2>1. t.id \in NestedIds /\ Cell(c, v) = Raised
    BY <1>8, NestedCell
  <2>2. v \in Int
    BY <1>8 DEF ScalarValues, Nested
  <2> HIDE DEF t
  <2> QED BY <2>1, <2>2, Special DEF NoRowValue, AnyScalar, t
<1>7. \/ c.pg = "date" \/ (c.pg \in Timestamps /\ ~ZonedArray(c)) \/ ZonedArray(c) \/ c.pg = "timetz" \/ c.pg = "uuid"
      \/ c.pg \in Texts \/ c.pg \in Nested \/ Copied(c.pg)
  BY DEF Copied, Plain
<1> HIDE DEF Datum, t
<1> QED BY <1>1, <1>2, <1>3, <1>4, <1>5, <1>6, <1>7, <1>8 DEF Datum, t

\* What DuckDB returns by itself is refused only if one side does not have it,
\* and stands for the same value otherwise.
LEMMA ScalarResult ==
  ASSUME NEW t \in DuckColumns, t.id \notin NumberIds, t.nest = <<>> \/ Supported(t),
         NEW d \in DuckScalarValues(t.id)
  PROVE  /\ d # Null /\ d # Garbage
         /\ ToDatum(d, t) # Raised => ScalarStandsFor(t, d, ToDatum(d, t)) /\ ToDatum(d, t) \in AnyScalar
         /\ ToDatum(d, t) = Raised => NoResultValue(t, d)
<1> DEFINE r == ToDatum(d, t)
<1>0. t.id \in TimestampIds => GetPostgresDuckDBType(t) \in Timestamps
  BY ResultType DEF Supported
<1>1. CASE t.id = "DATE"
  <2>1. d \in Int
    BY <1>1 DEF DuckScalarValues
  <2>2. r = ConvertDateDatum(d)
    BY <1>0, <1>1, ResultType DEF ToDatum
  <2> HIDE DEF r
  <2>3. d # Null /\ d # Garbage
    BY <2>1, Special
  <2>4. r = Raised => d < MinDate \/ d > MaxDate
    BY <2>1, <2>2, DateAssumption, RaisedAssumption
    DEF ConvertDateDatum, ValidDate, DATEVAL_NOBEGIN, DATEVAL_NOEND
  <2>5. ASSUME r # Raised
        PROVE  /\ d = DuckDateInfinity => r = DATEVAL_NOEND
               /\ d = DuckDateNinfinity => r = DATEVAL_NOBEGIN
               /\ d \notin {DuckDateInfinity, DuckDateNinfinity} => r + DateOffset = d /\ r \in PgDates
    <3>1. d \notin {DuckDateInfinity, DuckDateNinfinity} => MinDate <= d /\ d <= MaxDate /\ r = d - DateOffset
      BY <2>1, <2>2, <2>5 DEF ConvertDateDatum, ValidDate
    <3>2. d \notin {DuckDateInfinity, DuckDateNinfinity} => r + DateOffset = d /\ r \in PgDates
      BY <2>1, <3>1, DateAssumption DEF PgDates
    <3>3. DuckDateInfinity # DuckDateNinfinity
      BY DateAssumption DEF DuckDateInfinity, DuckDateNinfinity
    <3> QED BY <2>2, <3>2, <3>3 DEF ConvertDateDatum, ValidDate
  <2>6. ASSUME r # Raised PROVE ScalarStandsFor(t, d, r)
    <3>1. DateStandsFor(d, r)
      BY <2>5, <2>6 DEF DateStandsFor
    <3> QED BY <1>0, <1>1, <2>3, <3>1 DEF ScalarStandsFor, TimestampIds
  <2>7. ASSUME r # Raised PROVE r \in Int
    BY <2>1, <2>5, <2>7, DateAssumption DEF DATEVAL_NOEND, DATEVAL_NOBEGIN, PgDates
  <2> QED BY <1>1, <2>3, <2>4, <2>6, <2>7 DEF r, NoResultValue, AnyScalar
<1>2. CASE t.id \in TimestampIds
  <2>1. d \in Int
    BY <1>2 DEF DuckScalarValues, TimestampIds
  <2>2. r = ConvertTimestampDatum(d, t.id)
    BY <1>0, <1>2, ResultType DEF ToDatum, Timestamps
  <2> HIDE DEF r
  <2>3. d # Null /\ d # Garbage
    BY <2>1, Special
  <2>5. DuckTsInfinity \in Int /\ DuckTsNinfinity \in Int /\ DuckTsInfinity # DuckTsNinfinity
    BY TimestampAssumption DEF DuckTsInfinity, DuckTsNinfinity
  <2>6. CASE d \in {DuckTsInfinity, DuckTsNinfinity}
    <3>1. r = IF d = DuckTsInfinity THEN DT_NOEND ELSE DT_NOBEGIN
      BY <2>2, <2>5, <2>6 DEF ConvertTimestampDatum
    <3>2. r \in Int
      BY <3>1, TimestampAssumption DEF DT_NOEND, DT_NOBEGIN
    <3>3. ScalarStandsFor(t, d, r)
      BY <1>0, <1>2, <2>3, <2>5, <2>6, <3>1 DEF ScalarStandsFor, TimestampStandsFor, TimestampIds
    <3> QED BY <2>3, <3>2, <3>3, Special DEF r, AnyScalar
  <2>7. CASE d \notin {DuckTsInfinity, DuckTsNinfinity}
    <3>1. /\ r = Raised => Micros(d, t.id) < MinTs \/ Micros(d, t.id) >= MaxTs
          /\ r # Raised =>
             /\ r \in PgTimestamps \ {DT_NOBEGIN, DT_NOEND}
             /\ r + TsOffset = Micros(d, t.id) \/ ProductWraps(d, t.id)
             /\ t.id = "TIMESTAMP_NS" =>
                  -Kilo < (r + TsOffset) * Kilo - d /\ (r + TsOffset) * Kilo - d < Kilo
      BY <1>2, <2>1, <2>2, <2>7, TimestampResults
    <3>3. ASSUME r # Raised PROVE ScalarStandsFor(t, d, r)
      <4>1. r \in PgTimestamps /\ r \in Int
        BY <3>1, <3>3, TimestampAssumption DEF PgTimestamps
      <4>2. CASE t.id # "TIMESTAMP_NS"
        <5>1. TimestampStandsFor(t.id, d, r)
          BY <2>7, <3>1, <3>3, <4>2 DEF TimestampStandsFor
        <5> QED BY <1>2, <2>3, <5>1 DEF ScalarStandsFor, TimestampIds
      <4>3. CASE t.id = "TIMESTAMP_NS"
        <5> DEFINE x == (r + TsOffset) * Kilo - d
        <5>1. -Kilo < x /\ x < Kilo
          BY <3>1, <3>3, <4>3
        <5>2. x \in Int
          BY <2>1, <4>1, ScaleAssumption, TimestampAssumption
        <5> HIDE DEF x
        <5>3. Abs(x) < Kilo
          BY <5>1, <5>2, ScaleAssumption DEF Abs
        <5>4. TimestampStandsFor(t.id, d, r)
          BY <2>7, <3>1, <3>3, <4>3, <5>3 DEF TimestampStandsFor, x
        <5> QED BY <1>2, <2>3, <5>4 DEF ScalarStandsFor, TimestampIds
      <4> QED BY <4>2, <4>3
    <3>4. ASSUME r # Raised PROVE r \in Int
      BY <3>1, <3>4, TimestampAssumption DEF PgTimestamps
    <3> QED BY <1>2, <2>3, <3>1, <3>3, <3>4 DEF r, NoResultValue, AnyScalar
  <2> QED BY <2>6, <2>7
<1>3. CASE t.id = "TIME_TZ"
  <2>1. d \in DuckTimeTz
    BY <1>3 DEF DuckScalarValues
  <2>2. r = [time |-> d.time, zone |-> -d.offset]
    BY <1>0, <1>3, ResultType DEF ToDatum, ConvertTimeTzDatum
  <2>3. r \in PgTimeTz
    BY <2>1, <2>2 DEF PgTimeTz, DuckTimeTz
  <2> HIDE DEF r
  <2>4. ScalarStandsFor(t, d, r)
    BY <1>0, <1>3, <2>1, <2>2, Special DEF ScalarStandsFor, TimestampIds
  <2> QED BY <2>1, <2>3, <2>4, Special DEF r, AnyScalar
<1>4. CASE t.id = "UUID"
  <2>1. d \in UUIDs
    BY <1>4 DEF DuckScalarValues
  <2>2. r = ConvertUUIDDatum(d)
    BY <1>0, <1>4, ResultType DEF ToDatum
  <2>3. r \in UUIDs /\ d = DatumGetUUID(r)
    BY <2>1, <2>2, ScaleAssumption DEF ConvertUUIDDatum, DatumGetUUID, UUIDs, Byte, FlipTopBit
  <2> HIDE DEF r
  <2>4. ScalarStandsFor(t, d, r)
    BY <1>0, <1>4, <2>1, <2>3, Special DEF ScalarStandsFor, TimestampIds
  <2> QED BY <2>1, <2>3, <2>4, Special DEF r, AnyScalar
<1>5. CASE t.id \notin TimestampIds \cup {"DATE", "TIME_TZ", "UUID"}
  <2>1. d \in Int
    BY <1>5 DEF DuckScalarValues
  <2>2. GetPostgresDuckDBType(t) \notin Timestamps \cup {"date", "timetz", "uuid", "numeric"}
    BY <1>0, <1>5, ResultType DEF NumberIds
  <2>3. r = d
    BY <2>2 DEF ToDatum, Timestamps
  <2> HIDE DEF r
  <2>4. ScalarStandsFor(t, d, r)
    BY <1>0, <1>5, <2>1, <2>3, Special DEF ScalarStandsFor, NumberIds, TimestampIds
  <2> QED BY <2>1, <2>3, <2>4, Special DEF r, AnyScalar
<1> QED BY <1>1, <1>2, <1>3, <1>4, <1>5

-----------------------------------------------------------------------------
(* The inductive invariant *)

Scalar == IF col = Null THEN IsScalarType(dtype) ELSE IsScalar(col)

ColumnInv ==
  /\ col # Null =>
       /\ col \in PgColumns /\ IsScalar(col) /\ dtype = ConvertPostgresToDuckColumnType(col)
       /\ rows \in Seq(ScalarValues(col.pg) \cup {Null})
  /\ col = Null => rows = <<>> /\ dtype \in DuckColumns /\ IsScalarType(dtype)
  /\ dtype.nest = <<>>
  /\ count \in 0..Len(rows)
  /\ stage \in {"plan", "insert", "return", "done", "unsupported", "raised"}

\* Each row has its cell, or is marked as NULL; the cells of a "char" are
\* misplaced after the first.
HasCell(i) == i - 1 \in DOMAIN vec.leaf /\ vec.leaf[i - 1] = Cell(col, rows[i])
CellInv == col # Null =>
  /\ vec = [lists |-> vec.lists, leaf |-> vec.leaf, invalid |-> vec.invalid]
  /\ vec.invalid \subseteq 0..(count - 1)
  /\ \A i \in DOMAIN vec.leaf : vec.leaf[i] # Raised
  /\ \A i \in 1..count :
       /\ (rows[i] = Null) <=> (i - 1 \in vec.invalid)
       /\ rows[i] # Null =>
            /\ Cell(col, rows[i]) # Raised
            /\ col.pg # "char" \/ i = 1 => HasCell(i)

\* What DuckDB has is what it was given.
DuckInv ==
  /\ col # Null =>
       /\ stage \in {"plan", "insert"} => duck = <<>>
       /\ duck # <<>> => count = Len(rows) /\ duck = [i \in 1..count |-> ReadRow(i - 1)]
  /\ col = Null =>
       /\ stage \notin {"plan", "insert"}
       /\ duck \in Seq(DuckScalarValues(dtype.id) \cup {Null})

\* What was returned was converted from what DuckDB has.
Datum(d) == IF d \in {Null, Garbage} THEN d ELSE ToDatum(d, dtype)
OutInv ==
  /\ Len(duck) \in Nat
  /\ out \in Seq({Datum(duck[i]) : i \in 1..Len(duck)})
  /\ Len(out) <= Len(duck)
  /\ \A i \in 1..Len(out) : out[i] = Datum(duck[i]) /\ out[i] # Raised
  /\ stage \in {"plan", "insert"} => out = <<>>

ParamInv == param # NoParam =>
  /\ col # Null /\ col.pg \in ParameterTypes
  /\ param.pg \in ScalarValues(col.pg)
  /\ param.duck = ConvertPostgresParameterToDuckValue(col.pg, param.pg)

IInv == ColumnInv /\ CellInv /\ DuckInv /\ OutInv /\ ParamInv /\ RaisedForCause
ScalarInv == Scalar => IInv

\* A column starts with an empty vector, or with rows of DuckDB.
LEMMA InitScalarInv == Init => ScalarInv
<1> SUFFICES ASSUME Init, Scalar PROVE IInv
  BY DEF ScalarInv
<1>1. vec = EmptyVector(Len(dtype.nest)) /\ count = 0 /\ out = <<>> /\ param = NoParam
  BY DEF Init
<1>2. CASE \E c \in PgColumns : \E r \in PgRows(c) :
             /\ stage = "plan" /\ col = c /\ rows = r
             /\ dtype = ConvertPostgresToDuckColumnType(c)
             /\ duck = <<>>
  <2>1. col \in PgColumns /\ rows \in PgRows(col) /\ stage = "plan" /\ duck = <<>>
        /\ dtype = ConvertPostgresToDuckColumnType(col)
    BY <1>2
  <2>2. col # Null /\ IsScalar(col)
    BY <2>1, SpecialAssumption DEF Scalar
  <2>3. rows \in Seq(ScalarValues(col.pg) \cup {Null})
    BY <2>1, <2>2, ColumnAssumption
  <2>4. dtype.nest = <<>>
    BY <2>1, <2>2, ColumnType, ScalarIsPlain DEF IsScalar
  <2>5. ColumnInv
    BY <1>1, <2>1, <2>2, <2>3, <2>4 DEF ColumnInv
  <2>6. CellInv
    BY <1>1 DEF CellInv, EmptyVector
  <2>7. DuckInv /\ ParamInv /\ RaisedForCause
    BY <1>1, <2>1, <2>2 DEF DuckInv, ParamInv, RaisedForCause
  <2>8. OutInv
    BY <1>1, <2>1 DEF OutInv
  <2> QED BY <2>5, <2>6, <2>7, <2>8 DEF IInv
<1>3. CASE \E t \in DuckColumns : \E r \in DuckRows(t) :
             /\ stage = "return" /\ col = Null /\ rows = <<>>
             /\ dtype = t
             /\ duck = r
  <2>1. dtype \in DuckColumns /\ duck \in DuckRows(dtype) /\ stage = "return" /\ col = Null /\ rows = <<>>
    BY <1>3
  <2>2. IsScalarType(dtype)
    BY <2>1 DEF Scalar
  <2>3. duck \in Seq(DuckScalarValues(dtype.id) \cup {Null})
    BY <2>1, <2>2, ColumnAssumption
  <2>4. ColumnInv
    BY <1>1, <2>1, <2>2 DEF ColumnInv, IsScalarType
  <2>5. CellInv /\ DuckInv /\ ParamInv /\ RaisedForCause
    BY <1>1, <2>1, <2>3 DEF CellInv, DuckInv, ParamInv, RaisedForCause
  <2>6. OutInv
    BY <1>1, <2>1, <2>3 DEF OutInv
  <2> QED BY <2>4, <2>5, <2>6 DEF IInv
<1> QED BY <1>2, <1>3 DEF Init

\* What DuckDB reads in a row that was inserted.
LEMMA RowRead ==
  ASSUME IInv, col # Null, NEW i \in 1..count
  PROVE  /\ rows[i] \in ScalarValues(col.pg) \cup {Null}
         /\ rows[i] = Null => ReadRow(i - 1) = Null
         /\ rows[i] # Null /\ (col.pg # "char" \/ i = 1) => ReadRow(i - 1) = Cell(col, rows[i])
<1>1. rows[i] \in ScalarValues(col.pg) \cup {Null}
  BY DEF IInv, ColumnInv
<1>2. dtype.nest = <<>>
  BY DEF IInv, ColumnInv
<1>3. rows[i] = Null => ReadRow(i - 1) = Null
  BY DEF IInv, CellInv, ReadRow
<1>4. ASSUME rows[i] # Null, col.pg # "char" \/ i = 1
      PROVE  ReadRow(i - 1) = Cell(col, rows[i])
  <2>1. i - 1 \notin vec.invalid /\ HasCell(i)
    BY <1>4 DEF IInv, CellInv
  <2> QED BY <1>2, <2>1 DEF ReadRow, ReadCell, HasCell
<1> QED BY <1>1, <1>3, <1>4

\* A step that only moves on, or raises.
LEMMA Unmoved ==
  ASSUME IInv, UNCHANGED <<col, rows, dtype, vec, count>>
  PROVE  (stage' \in {"plan", "insert", "return", "done", "unsupported", "raised"} => ColumnInv') /\ CellInv'
<1>1. stage' \in {"plan", "insert", "return", "done", "unsupported", "raised"} => ColumnInv'
  BY DEF IInv, ColumnInv
<1>2. CellInv'
  BY DEF IInv, CellInv, HasCell
<1> QED BY <1>1, <1>2

\* PlanColumn only moves on.
LEMMA PlanColumnInv == ASSUME IInv, PlanColumn PROVE IInv'
<1>1. /\ stage = "plan" /\ stage' \in {"insert", "unsupported"}
      /\ UNCHANGED <<col, rows, dtype, vec, count, duck, out, param>>
  BY DEF PlanColumn
<1>2. ColumnInv' /\ CellInv'
  BY <1>1, Unmoved
<1>3. DuckInv'
  BY <1>1 DEF IInv, DuckInv, ReadRow
<1>4. OutInv'
  BY <1>1 DEF IInv, OutInv, Datum
<1>5. ParamInv' /\ RaisedForCause'
  BY <1>1 DEF IInv, ParamInv, RaisedForCause
<1> QED BY <1>2, <1>3, <1>4, <1>5 DEF IInv

\* Finish only moves on.
LEMMA FinishInv == ASSUME IInv, Finish PROVE IInv'
<1>1. /\ stage = "return" /\ stage' = "done"
      /\ UNCHANGED <<col, rows, dtype, vec, count, duck, out, param>>
  BY DEF Finish
<1>2. ColumnInv' /\ CellInv'
  BY <1>1, Unmoved
<1>3. DuckInv'
  BY <1>1 DEF IInv, DuckInv, ReadRow
<1>4. OutInv'
  BY <1>1 DEF IInv, OutInv, Datum
<1>5. ParamInv' /\ RaisedForCause'
  BY <1>1 DEF IInv, ParamInv, RaisedForCause
<1> QED BY <1>2, <1>3, <1>4, <1>5 DEF IInv

\* BindParameter takes a value of the column.
LEMMA BindParameterInv == ASSUME IInv, IsScalar(col), BindParameter PROVE IInv'
<1>1. /\ stage = "insert" /\ col.pg \in ParameterTypes
      /\ UNCHANGED <<stage, col, rows, dtype, vec, count, duck, out>>
  BY DEF BindParameter
<1>2. col # Null /\ col \in PgColumns
  BY <1>1 DEF IInv, DuckInv, ColumnInv
<1>3. ColumnInv' /\ CellInv'
  BY <1>1, Unmoved DEF IInv, ColumnInv
<1>4. DuckInv'
  BY <1>1 DEF IInv, DuckInv, ReadRow
<1>5. OutInv'
  BY <1>1 DEF IInv, OutInv, Datum
<1>6. RaisedForCause'
  BY <1>1 DEF RaisedForCause
<1>7. ParamInv'
  <2>1. PICK r \in PgRows(col) : /\ r # <<>> /\ r[1] # Null
          /\ param' = [pg |-> r[1], duck |-> ConvertPostgresParameterToDuckValue(col.pg, r[1])]
    BY DEF BindParameter
  <2>2. r \in Seq(ScalarValues(col.pg) \cup {Null})
    BY <1>2, ColumnAssumption
  <2>3. r[1] \in ScalarValues(col.pg)
    BY <2>1, <2>2
  <2> QED BY <1>1, <1>2, <2>1, <2>3 DEF ParamInv
<1> QED BY <1>3, <1>4, <1>5, <1>6, <1>7 DEF IInv

\* Execute hands over what every row reads as.
LEMMA ExecuteInv == ASSUME IInv, Execute PROVE IInv'
<1>1. /\ stage = "insert" /\ stage' = "return" /\ count = Len(rows)
      /\ duck' = [i \in 1..count |-> ReadRow(i - 1)]
      /\ UNCHANGED <<col, rows, dtype, vec, count, out, param>>
  BY DEF Execute
<1>2. ColumnInv' /\ CellInv'
  BY <1>1, Unmoved
<1>3. col # Null
  BY <1>1 DEF IInv, DuckInv
<1>4. DuckInv'
  <2>1. duck' = [i \in 1..count' |-> ReadRow(i - 1)']
    BY <1>1 DEF ReadRow
  <2> QED BY <1>1, <1>3, <2>1 DEF DuckInv
<1>5. OutInv'
  <2>1. count \in Nat
    BY DEF IInv, ColumnInv
  <2>2. Len(duck') \in Nat
    BY <1>1, <2>1
  <2>3. out' = <<>>
    BY <1>1 DEF IInv, OutInv
  <2> QED BY <1>1, <2>2, <2>3 DEF OutInv
<1>6. ParamInv' /\ RaisedForCause'
  BY <1>1 DEF IInv, ParamInv, RaisedForCause
<1> QED BY <1>2, <1>4, <1>5, <1>6 DEF IInv

\* The cells of one value: two bytes for a "char", one cell otherwise.
OneCells(t, a, n) == AppendCells(t, <<a>>, n)
CharCells(a, n) == [i \in {2 * n, 2 * n + 1} |-> IF i = 2 * n THEN a ELSE 0]
CellAt(a, n) == [i \in {n} |-> a]
LEMMA OneCell ==
  ASSUME NEW t, NEW a, a # Null, NEW n \in Nat
  PROVE  OneCells(t, a, n) =
           IF t.id = "TINYINT" THEN CharCells(a, n) ELSE CellAt(a, n)
<1> DEFINE s == <<a>>
           nulls == {n + i - 1 : i \in {j \in DOMAIN s : s[j] = Null}}
           bytes == {2 * (n + i - 1) : i \in {j \in DOMAIN s : s[j] # Null}}
<1>1. DOMAIN s = {1} /\ s[1] = a
  OBVIOUS
<1> HIDE DEF s
<1>2. nulls = {} /\ bytes = {2 * n} /\ {b + 1 : b \in bytes} = {2 * n + 1}
  <2>1. {j \in DOMAIN s : s[j] = Null} = {} /\ {j \in DOMAIN s : s[j] # Null} = {1}
    BY <1>1
  <2>2. nulls = {} /\ bytes = {2 * (n + 1 - 1)}
    BY <2>1
  <2> HIDE DEF nulls, bytes
  <2>3. bytes = {2 * n}
    BY <2>2
  <2> QED BY <2>2, <2>3
<1>3. {n + i - 1 : i \in DOMAIN s} = {n}
  BY <1>1
<1>4. (2 * n) \div 2 - n + 1 = 1 /\ n - n + 1 = 1 /\ 2 * n # 2 * n + 1
  OBVIOUS
<1>5. AppendCells(t, s, n) =
        IF t.id = "TINYINT"
        THEN [x \in nulls \cup bytes \cup {b + 1 : b \in bytes} |->
                IF x \in nulls THEN Null ELSE IF x \in bytes THEN s[x \div 2 - n + 1] ELSE 0]
        ELSE [x \in {n + i - 1 : i \in DOMAIN s} |-> s[x - n + 1]]
  BY DEF AppendCells
<1> HIDE DEF nulls, bytes
<1>6. CASE t.id = "TINYINT"
  <2>1. AppendCells(t, s, n) =
          [x \in {2 * n, 2 * n + 1} |-> IF x \in {2 * n} THEN s[x \div 2 - n + 1] ELSE 0]
    BY <1>2, <1>5, <1>6
  <2>2. \A x \in {2 * n, 2 * n + 1} :
          (IF x \in {2 * n} THEN s[x \div 2 - n + 1] ELSE 0) = IF x = 2 * n THEN a ELSE 0
    BY <1>1, <1>4
  <2> QED BY <1>6, <2>1, <2>2 DEF s, OneCells, CharCells, CellAt
<1>7. CASE t.id # "TINYINT"
  <2>1. AppendCells(t, s, n) = [x \in {n} |-> s[x - n + 1]]
    BY <1>3, <1>5, <1>7
  <2>2. \A x \in {n} : s[x - n + 1] = a
    BY <1>1, <1>4
  <2> QED BY <1>7, <2>1, <2>2 DEF s, OneCells, CharCells, CellAt
<1> QED BY <1>6, <1>7

\* A cell that is written does not change those of the rows before it, except
\* for a "char", which leaves the first one alone.
LEMMA WrittenCell ==
  ASSUME IInv, col # Null, NEW a, a # Raised, a # Null,
         vec' = [vec EXCEPT !.leaf = Overwrite(@, OneCells(dtype, a, count))]
  PROVE  /\ vec' = [lists |-> vec'.lists, leaf |-> vec'.leaf, invalid |-> vec'.invalid]
         /\ vec'.invalid = vec.invalid
         /\ \A i \in DOMAIN vec'.leaf : vec'.leaf[i] # Raised
         /\ col.pg # "char" \/ count = 0 => count \in DOMAIN vec'.leaf /\ vec'.leaf[count] = a
         /\ \A i \in DOMAIN vec.leaf : i # count /\ (col.pg # "char" \/ (i = 0 /\ count > 0)) =>
              i \in DOMAIN vec'.leaf /\ vec'.leaf[i] = vec.leaf[i]
<1>0. \A i \in DOMAIN vec.leaf : vec.leaf[i] # Raised
  BY DEF IInv, CellInv
<1>1. vec = [lists |-> vec.lists, leaf |-> vec.leaf, invalid |-> vec.invalid]
  BY DEF IInv, CellInv
<1>2. count \in Nat
  BY DEF IInv, ColumnInv
<1>3. CASE dtype.id = "TINYINT"
  <2> DEFINE new == CharCells(a, count)
  <2>7. OneCells(dtype, a, count) = new
    BY <1>2, <1>3, OneCell
  <2>8. DOMAIN new = {2 * count, 2 * count + 1} /\ new[2 * count] = a
    BY DEF CharCells
  <2>9. \A i \in DOMAIN new : new[i] # Raised
    BY RaisedAssumption DEF CharCells
  <2>4. count > 0 => 0 \notin DOMAIN new
    BY <1>2, <2>8
  <2> HIDE DEF new
  <2>1. vec' = [lists |-> vec.lists, leaf |-> Overwrite(vec.leaf, new), invalid |-> vec.invalid]
    BY <1>1, <2>7
  <2>2. vec'.leaf = [i \in DOMAIN vec.leaf \cup DOMAIN new |-> IF i \in DOMAIN new THEN new[i] ELSE vec.leaf[i]]
    BY <2>1 DEF Overwrite
  <2>0. \A i \in DOMAIN vec'.leaf : vec'.leaf[i] # Raised
    BY <1>0, <2>2, <2>9
  <2>3. count = 0 => count \in DOMAIN vec'.leaf /\ vec'.leaf[count] = a
    <3>1. count = 0 => count = 2 * count
      OBVIOUS
    <3> QED BY <2>2, <2>8, <3>1
  <2>5. col.pg = "char"
    BY <1>3, ColumnType, ScalarIsPlain DEF IInv, ColumnInv
  <2>6. count > 0 /\ 0 \in DOMAIN vec.leaf => 0 \in DOMAIN vec'.leaf /\ vec'.leaf[0] = vec.leaf[0]
    BY <2>2, <2>4
  <2> QED BY <2>0, <2>1, <2>3, <2>5, <2>6
<1>4. CASE dtype.id # "TINYINT"
  <2> DEFINE new == CellAt(a, count)
  <2>7. OneCells(dtype, a, count) = new
    BY <1>2, <1>4, OneCell
  <2>8. DOMAIN new = {count} /\ new[count] = a
    BY DEF CellAt
  <2> HIDE DEF new
  <2>1. vec' = [lists |-> vec.lists, leaf |-> Overwrite(vec.leaf, new), invalid |-> vec.invalid]
    BY <1>1, <2>7
  <2>2. vec'.leaf = [i \in DOMAIN vec.leaf \cup DOMAIN new |-> IF i \in DOMAIN new THEN new[i] ELSE vec.leaf[i]]
    BY <2>1 DEF Overwrite
  <2>0. \A i \in DOMAIN vec'.leaf : vec'.leaf[i] # Raised
    BY <1>0, <2>2, <2>8
  <2>3. count \in DOMAIN vec'.leaf /\ vec'.leaf[count] = a
    BY <2>2, <2>8
  <2>4. \A i \in DOMAIN vec.leaf : i # count => i \in DOMAIN vec'.leaf /\ vec'.leaf[i] = vec.leaf[i]
    BY <2>2, <2>8
  <2> QED BY <2>0, <2>1, <2>3, <2>4
<1> QED BY <1>3, <1>4

\* InsertTuple fills the next cell, marks it, or raises for a cause.
LEMMA InsertTupleInv == ASSUME IInv, Scalar, InsertTuple PROVE IInv'
<1> DEFINE v == rows[count + 1]
<1>1. /\ stage = "insert" /\ count < Len(rows)
      /\ UNCHANGED <<col, rows, dtype, duck, out, param>>
  BY DEF InsertTuple
<1>2. /\ col # Null /\ col \in PgColumns /\ IsScalar(col) /\ duck = <<>> /\ out = <<>>
      /\ dtype = ConvertPostgresToDuckColumnType(col)
      /\ rows \in Seq(ScalarValues(col.pg) \cup {Null}) /\ count \in Nat
      /\ dtype.nest = <<>>
  BY <1>1 DEF IInv, ColumnInv, DuckInv, OutInv, Scalar
<1>3. v \in ScalarValues(col.pg) \cup {Null}
  BY <1>1, <1>2
<1>4. ~col.array
  BY <1>2 DEF IsScalar
<1>5. ParamInv'
  BY <1>1 DEF IInv, ParamInv
<1> HIDE DEF v
<1>6. CASE Cannot(col, dtype, v)
  <2>1. stage' = "raised" /\ UNCHANGED <<vec, count>>
    BY <1>6 DEF InsertTuple, v
  <2>2. ColumnInv' /\ CellInv'
    BY <1>1, <2>1, Unmoved
  <2>3. DuckInv' /\ OutInv'
    BY <1>1, <1>2, <2>1 DEF DuckInv, OutInv
  <2>4. v # Null /\ Cell(col, v) = Raised
    BY <1>2, <1>4, <1>6, ScalarIsPlain DEF Cannot, Cell
  <2>5. NoRowValue(dtype, v)
    BY <1>2, <1>3, <2>4, ScalarCell, ScalarIsPlain
  <2>6. CausedRowError'
    BY <1>1, <1>4, <2>1, <2>5 DEF CausedRowError, v
  <2>7. RaisedForCause'
    BY <1>1, <1>2, <2>6 DEF RaisedForCause
  <2> QED BY <1>5, <2>2, <2>3, <2>7 DEF IInv
<1>7. CASE ~Cannot(col, dtype, v)
  <2>1. /\ stage' = "insert" /\ count' = count + 1
        /\ vec' = InsertRow(vec, col, dtype, v, count)
    BY <1>1, <1>7 DEF InsertTuple, v
  <2>2. ColumnInv'
    BY <1>1, <1>2, <2>1 DEF ColumnInv
  <2>3. DuckInv' /\ OutInv' /\ RaisedForCause'
    BY <1>1, <1>2, <2>1 DEF DuckInv, OutInv, RaisedForCause
  <2>4. CellInv'
    <3>1. 1..count' = (1..count) \cup {count + 1}
      BY <1>2, <2>1
    <3>2. /\ vec = [lists |-> vec.lists, leaf |-> vec.leaf, invalid |-> vec.invalid]
          /\ vec.invalid \subseteq 0..(count - 1)
          /\ \A i \in DOMAIN vec.leaf : vec.leaf[i] # Raised
          /\ \A i \in 1..count :
               /\ (rows[i] = Null) <=> (i - 1 \in vec.invalid)
               /\ rows[i] # Null => Cell(col, rows[i]) # Raised
               /\ rows[i] # Null /\ (col.pg # "char" \/ i = 1) =>
                    i - 1 \in DOMAIN vec.leaf /\ vec.leaf[i - 1] = Cell(col, rows[i])
      BY <1>2 DEF IInv, CellInv, HasCell
    <3>3. count \notin vec.invalid
      BY <1>2, <3>2
    <3>4. CASE v = Null
      <4>1. vec' = [lists |-> vec.lists, leaf |-> vec.leaf, invalid |-> vec.invalid \cup {count}]
        BY <2>1, <3>2, <3>4 DEF InsertRow
      <4>2. vec'.invalid \subseteq 0..(count' - 1)
        BY <1>2, <2>1, <3>2, <4>1
      <4>3. ASSUME NEW i \in 1..count'
            PROVE  /\ (rows[i] = Null) <=> (i - 1 \in vec'.invalid)
                   /\ rows[i] # Null =>
                        /\ Cell(col, rows[i]) # Raised
                        /\ col.pg # "char" \/ i = 1 =>
                             i - 1 \in DOMAIN vec'.leaf /\ vec'.leaf[i - 1] = Cell(col, rows[i])
        <5>1. CASE i = count + 1
          BY <1>2, <3>4, <4>1, <5>1 DEF v
        <5>2. CASE i \in 1..count
          <6>1. i - 1 # count
            BY <1>2, <5>2
          <6> QED BY <3>2, <4>1, <5>2, <6>1
        <5> QED BY <3>1, <5>1, <5>2
      <4>4. \A i \in DOMAIN vec'.leaf : vec'.leaf[i] # Raised
        BY <3>2, <4>1
      <4> QED BY <1>1, <4>1, <4>2, <4>3, <4>4 DEF CellInv, HasCell
    <3>5. CASE v # Null
      <4>1. vec' = [vec EXCEPT !.leaf = Overwrite(@, OneCells(dtype, Cell(col, v), count))]
        BY <1>2, <1>4, <2>1, <3>5, ScalarIsPlain DEF InsertRow, Cell, OneCells
      <4>2. Cell(col, v) # Raised /\ Cell(col, v) # Null
        <5>1. Cell(col, v) # Raised
          BY <1>2, <1>4, <1>7, <3>5, ScalarIsPlain DEF Cannot, Cell
        <5> QED BY <1>2, <1>3, <3>5, <5>1, ScalarCell, ScalarIsPlain
      <4>3. /\ vec' = [lists |-> vec'.lists, leaf |-> vec'.leaf, invalid |-> vec'.invalid]
            /\ vec'.invalid = vec.invalid
            /\ \A i \in DOMAIN vec'.leaf : vec'.leaf[i] # Raised
            /\ col.pg # "char" \/ count = 0 => count \in DOMAIN vec'.leaf /\ vec'.leaf[count] = Cell(col, v)
            /\ \A i \in DOMAIN vec.leaf : i # count /\ (col.pg # "char" \/ (i = 0 /\ count > 0)) =>
                 i \in DOMAIN vec'.leaf /\ vec'.leaf[i] = vec.leaf[i]
        BY <1>2, <4>1, <4>2, WrittenCell
      <4>4. vec'.invalid \subseteq 0..(count' - 1)
        BY <1>2, <2>1, <3>2, <4>3
      <4>5. ASSUME NEW i \in 1..count'
            PROVE  /\ (rows[i] = Null) <=> (i - 1 \in vec'.invalid)
                   /\ rows[i] # Null =>
                        /\ Cell(col, rows[i]) # Raised
                        /\ col.pg # "char" \/ i = 1 =>
                             i - 1 \in DOMAIN vec'.leaf /\ vec'.leaf[i - 1] = Cell(col, rows[i])
        <5>1. CASE i = count + 1
          <6>1. i - 1 = count /\ rows[i] = v /\ (i = 1 => count = 0)
            BY <1>2, <5>1 DEF v
          <6> QED BY <3>3, <3>5, <4>2, <4>3, <6>1
        <5>2. CASE i \in 1..count
          <6>1. i - 1 # count /\ (i = 1 => i - 1 = 0 /\ count > 0)
            BY <1>2, <5>2
          <6>2. ASSUME rows[i] # Null, col.pg # "char" \/ i = 1
                PROVE  i - 1 \in DOMAIN vec'.leaf /\ vec'.leaf[i - 1] = Cell(col, rows[i])
            <7>1. i - 1 \in DOMAIN vec.leaf /\ vec.leaf[i - 1] = Cell(col, rows[i])
              BY <3>2, <5>2, <6>2
            <7>2. col.pg # "char" \/ (i - 1 = 0 /\ count > 0)
              BY <6>1, <6>2
            <7> QED BY <4>3, <6>1, <7>1, <7>2
          <6> QED BY <3>2, <4>3, <5>2, <6>2
        <5> QED BY <3>1, <5>1, <5>2
      <4> QED BY <1>1, <4>3, <4>4, <4>5 DEF CellInv, HasCell
    <3> QED BY <3>4, <3>5
  <2> QED BY <1>5, <2>2, <2>3, <2>4 DEF IInv
<1> QED BY <1>6, <1>7

\* The values that ReturnValue meets are those of rows that were inserted, or
\* those DuckDB started with.
LEMMA RowMet ==
  ASSUME IInv, col # Null, NEW i \in 1..Len(duck)
  PROVE  /\ i \in 1..Len(rows)
         /\ duck[i] = Garbage => col.pg = "char"
         /\ Datum(duck[i]) # Raised
         /\ Datum(duck[i]) = Expected(col, rows[i]) \/ KnownLoss(col, dtype, rows[i], i)
<1>1. /\ col \in PgColumns /\ IsScalar(col) /\ dtype = ConvertPostgresToDuckColumnType(col)
      /\ dtype.nest = <<>> /\ count \in Nat
  BY DEF IInv, ColumnInv
<1>2. duck # <<>>
  OBVIOUS
<1>3. count = Len(rows) /\ duck = [j \in 1..count |-> ReadRow(j - 1)]
  BY <1>2 DEF IInv, DuckInv
<1>4. i \in 1..count /\ duck[i] = ReadRow(i - 1)
  BY <1>1, <1>3
<1>5. rows[i] \in ScalarValues(col.pg) \cup {Null}
  BY <1>4, RowRead
<1>6. CASE rows[i] = Null
  <2>1. duck[i] = Null
    BY <1>4, <1>6, RowRead
  <2> QED BY <1>1, <1>3, <1>4, <1>6, <2>1, Special, ScalarIsPlain DEF Datum, ExpectedScalar
<1>7. CASE rows[i] # Null /\ (col.pg # "char" \/ i = 1)
  <2>1. duck[i] = Cell(col, rows[i])
    BY <1>4, <1>7, RowRead
  <2>2. Cell(col, rows[i]) # Raised
    BY <1>4, <1>7 DEF IInv, CellInv
  <2>3. /\ Cell(col, rows[i]) # Null /\ Cell(col, rows[i]) # Garbage
        /\ ToDatum(Cell(col, rows[i]), dtype) # Raised
        /\ ~DomainLoss(col) => ToDatum(Cell(col, rows[i]), dtype) = Expected(col, rows[i])
    BY <1>1, <1>5, <1>7, <2>2, ScalarCell, ScalarIsPlain
  <2>4. Datum(duck[i]) = ToDatum(Cell(col, rows[i]), dtype)
    BY <2>1, <2>3 DEF Datum
  <2>5. DomainLoss(col) => KnownLoss(col, dtype, rows[i], i)
    BY DEF DomainLoss, KnownLoss
  <2> QED BY <1>3, <1>4, <2>1, <2>3, <2>4, <2>5
<1>8. CASE rows[i] # Null /\ col.pg = "char" /\ i # 1
  <2>1. KnownLoss(col, dtype, rows[i], i)
    BY <1>4, <1>8 DEF KnownLoss
  <2>2. duck[i] = ReadCell(vec.leaf, i - 1)
    BY <1>1, <1>4, <1>8 DEF ReadRow, IInv, CellInv
  <2>3. duck[i] # Raised
    BY <2>2, Special DEF ReadCell, IInv, CellInv
  <2>4. GetPostgresDuckDBType(dtype) \notin Timestamps \cup {"date", "timetz", "uuid", "numeric"}
    BY <1>1, <1>8, ColumnType, ResultType, ScalarIsPlain DEF TimestampIds, NumberIds
  <2>5. Datum(duck[i]) = duck[i]
    BY <2>4 DEF Datum, ToDatum, Timestamps
  <2> QED BY <1>3, <1>4, <1>8, <2>1, <2>3, <2>5
<1> QED BY <1>6, <1>7, <1>8

\* The same for the values of DuckDB.
LEMMA ResultMet ==
  ASSUME IInv, col = Null, NEW i \in 1..Len(duck)
  PROVE  /\ duck[i] # Garbage
         /\ Datum(duck[i]) # Raised => StandsFor(dtype, duck[i], Datum(duck[i]))
         /\ Datum(duck[i]) = Raised => NoResultValue(dtype, duck[i])
<1>1. dtype \in DuckColumns /\ IsScalarType(dtype)
  BY DEF IInv, ColumnInv
<1>2. duck[i] \in DuckScalarValues(dtype.id) \cup {Null}
  BY DEF IInv, DuckInv
<1>3. CASE duck[i] = Null
  BY <1>3, Special DEF Datum, StandsFor, ScalarStandsFor
<1>4. CASE duck[i] # Null
  <2>1. duck[i] \in DuckScalarValues(dtype.id)
    BY <1>2, <1>4
  <2>2. duck[i] # Garbage /\ Datum(duck[i]) = ToDatum(duck[i], dtype)
    BY <1>1, <1>4, <2>1, ScalarResult DEF Datum, IsScalarType
  <2> QED BY <1>1, <2>1, <2>2, ScalarResult DEF StandsFor, IsScalarType
<1> QED BY <1>3, <1>4

\* ReturnValue appends what the next value is converted to, or raises.
LEMMA ReturnValueInv == ASSUME IInv, ReturnValue PROVE IInv'
<1> DEFINE n == Len(out) + 1
           d == duck[n]
<1>1. /\ stage = "return" /\ Len(out) < Len(duck)
      /\ UNCHANGED <<col, rows, dtype, vec, count, duck, param>>
  BY DEF ReturnValue
<1>2. dtype.nest = <<>> /\ Len(duck) \in Nat /\ Len(out) \in Nat
  BY DEF IInv, ColumnInv, OutInv
<1>3. n \in 1..Len(duck)
  BY <1>1, <1>2
<1>4. ConvertDuckToPostgresValue(d, dtype) = ToDatum(d, dtype)
  BY <1>2 DEF ConvertDuckToPostgresValue
<1>5. \/ stage' = "unsupported" /\ out' = out
      \/ stage' = "raised" /\ out' = out /\ Datum(d) = Raised
      \/ stage' = stage /\ out' = out \o <<Datum(d)>> /\ Datum(d) # Raised
  BY <1>4 DEF ReturnValue, Datum
<1>6. stage' \in {"return", "unsupported", "raised"}
  BY <1>1, <1>5
<1>7. ColumnInv' /\ CellInv'
  BY <1>1, <1>6, Unmoved
<1>8. ParamInv'
  BY <1>1 DEF IInv, ParamInv
<1>9. DuckInv'
  BY <1>1, <1>6 DEF IInv, DuckInv, ReadRow
<1>10. OutInv'
  <2> DEFINE S == {Datum(duck[i]) : i \in 1..Len(duck)}
  <2>1. S' = S /\ duck' = duck /\ dtype' = dtype
    BY <1>1 DEF Datum
  <2>2. /\ out \in Seq(S) /\ \A i \in 1..Len(out) : out[i] = Datum(duck[i]) /\ out[i] # Raised
        /\ Len(out) <= Len(duck)
    BY DEF IInv, OutInv
  <2>3. Datum(d) \in S
    BY <1>3
  <2> HIDE DEF S
  <2>4. CASE out' = out
    BY <1>2, <1>6, <2>1, <2>2, <2>4 DEF OutInv, S, Datum
  <2>5. CASE out' = out \o <<Datum(d)>> /\ Datum(d) # Raised
    <3>1. out' \in Seq(S) /\ Len(out') = n
      BY <2>2, <2>3, <2>5
    <3>2. \A i \in 1..n : out'[i] = Datum(duck[i]) /\ out'[i] # Raised
      <4>1. \A i \in 1..Len(out) : out'[i] = out[i]
        BY <2>2, <2>3, <2>5
      <4>2. out'[n] = Datum(d)
        BY <2>2, <2>3, <2>5
      <4> QED BY <1>2, <2>2, <2>5, <4>1, <4>2
    <3> QED BY <1>2, <1>3, <1>6, <2>1, <3>1, <3>2 DEF OutInv, S, Datum
  <2> QED BY <1>5, <2>4, <2>5
<1>11. RaisedForCause'
  <2> SUFFICES ASSUME stage' = "raised" PROVE duck' # <<>> /\ CausedResultError'
    BY DEF RaisedForCause
  <2>1. Datum(d) = Raised /\ out' = out
    BY <1>1, <1>5
  <2>2. col = Null
    BY <1>3, <2>1, RowMet
  <2>3. NoResultValue(dtype, d)
    BY <1>3, <2>1, <2>2, ResultMet
  <2>4. duck # <<>>
    BY <1>3
  <2> QED BY <1>1, <1>2, <2>1, <2>3, <2>4 DEF CausedResultError
<1> QED BY <1>7, <1>8, <1>9, <1>10, <1>11 DEF IInv

\* Every step keeps the invariant of a scalar column.
LEMMA NextScalarInv == ScalarInv /\ [Next]_vars => ScalarInv'
<1> SUFFICES ASSUME ScalarInv, [Next]_vars, Scalar' PROVE IInv'
  BY DEF ScalarInv
<1>1. col' = col /\ dtype' = dtype
  BY DEF Next, vars, PlanColumn, InsertTuple, BindParameter, Execute, ReturnValue, Finish
<1>2. Scalar
  BY <1>1 DEF Scalar
<1>3. IInv
  BY <1>2 DEF ScalarInv
<1>4. CASE PlanColumn
  BY <1>3, <1>4, PlanColumnInv
<1>5. CASE InsertTuple
  BY <1>2, <1>3, <1>5, InsertTupleInv
<1>6. CASE BindParameter
  <2>1. col # Null
    BY <1>3, <1>6 DEF BindParameter, IInv, DuckInv
  <2>2. IsScalar(col)
    BY <1>2, <2>1 DEF Scalar
  <2> QED BY <1>3, <1>6, <2>2, BindParameterInv
<1>7. CASE Execute
  BY <1>3, <1>7, ExecuteInv
<1>8. CASE ReturnValue
  BY <1>3, <1>8, ReturnValueInv
<1>9. CASE Finish
  BY <1>3, <1>9, FinishInv
<1>10. CASE UNCHANGED vars
  <2>1. UNCHANGED <<stage, col, rows, dtype, vec, count, duck, out, param>>
    BY <1>10 DEF vars
  <2>2. ColumnInv' /\ CellInv'
    BY <1>3, <2>1, Unmoved DEF IInv, ColumnInv
  <2>3. DuckInv'
    BY <1>3, <2>1 DEF IInv, DuckInv, ReadRow
  <2>4. OutInv'
    BY <1>3, <2>1 DEF IInv, OutInv, Datum
  <2>5. ParamInv'
    BY <1>3, <2>1 DEF IInv, ParamInv
  <2>6. RaisedForCause'
    BY <1>3, <2>1 DEF IInv, RaisedForCause, CausedRowError, CausedResultError
  <2> QED BY <2>2, <2>3, <2>4, <2>5, <2>6 DEF IInv
<1> QED BY <1>4, <1>5, <1>6, <1>7, <1>8, <1>9, <1>10 DEF Next

\* The invariant of the journey of a scalar column.
LEMMA ScalarInvariant == Spec => []ScalarInv
BY InitScalarInv, NextScalarInv, PTL DEF Spec

-----------------------------------------------------------------------------
(* Lists of one dimension *)

\* The value itself is the only list met at the first dimension.
LEMMA MetOnce ==
  ASSUME NEW value
  PROVE  ListsMet(value, 1) = [d \in 1..1 |-> <<value>>]
<1> DEFINE B(g, d) == IF d = 1 THEN <<value>>
                      ELSE FlattenSeq([i \in DOMAIN g[d - 1] |-> SelectSeq(g[d - 1][i], LAMBDA c : c # Null)])
           met == CHOOSE g : g = [d \in 1..1 |-> B(g, d)]
           once == [d \in 1..1 |-> <<value>>]
<1>1. \A g : [d \in 1..1 |-> B(g, d)] = once
  OBVIOUS
<1>2. \A g : (g = [d \in 1..1 |-> B(g, d)]) <=> g = once
  BY <1>1
<1>3. ListsMet(value, 1) = met
  BY DEF ListsMet
<1> HIDE DEF B, once
<1>4. met = once
  BY <1>2
<1> QED BY <1>3, <1>4 DEF once

\* Flattening one sequence gives it back.
LEMMA FlattenOne ==
  ASSUME NEW s
  PROVE  FlattenSeq(<<s>>) = s
<1> DEFINE ss == <<s>>
           B(g, i) == IF i = 1 THEN ss[i] ELSE g[i - 1] \o ss[i]
           flat == CHOOSE g : g = [i \in 1..Len(ss) |-> B(g, i)]
           once == [i \in 1..1 |-> s]
<1>0. Len(ss) = 1 /\ ss[1] = s
  OBVIOUS
<1> HIDE DEF ss
<1>1. \A g : [i \in 1..Len(ss) |-> B(g, i)] = once
  BY <1>0
<1>2. \A g : (g = [i \in 1..Len(ss) |-> B(g, i)]) <=> g = once
  BY <1>1
<1>3. FlattenSeq(ss) = flat[Len(ss)]
  BY <1>0 DEF FlattenSeq
<1> HIDE DEF B
<1>4. flat = once
  <2> HIDE DEF once
  <2> QED BY <1>2
<1>5. once[1] = s
  OBVIOUS
<1> HIDE DEF flat, once
<1>6. FlattenSeq(ss) = s
  BY <1>0, <1>3, <1>4, <1>5
<1> QED BY <1>6 DEF ss

\* The memory of one dimension is the square of its size.
LEMMA ExpectedOnce ==
  ASSUME NEW dims, NEW n \in Nat, dims[1] = n
  PROVE  ExpectedAt(dims, 1) = n * n
<1> DEFINE B(g, d) == IF d = 0 THEN 1 ELSE ExpectedValues(g[d - 1], dims[d])
           expected == CHOOSE g : g = [d \in 0..1 |-> B(g, d)]
           once == [d \in 0..1 |-> IF d = 0 THEN 1 ELSE ExpectedValues(1, n)]
<1>1. ASSUME NEW g, g = [d \in 0..1 |-> B(g, d)] PROVE g = once
  <2>1. g[0] = 1
    BY <1>1
  <2> QED BY <1>1, <2>1
<1>2. once = [d \in 0..1 |-> B(once, d)]
  OBVIOUS
<1>3. ExpectedAt(dims, 1) = expected[1]
  BY DEF ExpectedAt
<1>5. once[1] = n * n
  BY DEF ExpectedValues
<1> HIDE DEF B, once
<1>4. expected = once
  BY <1>1, <1>2
<1> QED BY <1>3, <1>4, <1>5

\* A list of depth one is its only list, and its elements are those of the list.
LEMMA ListsOnce ==
  ASSUME NEW list
  PROVE  /\ ListsAt(list, 1)[1] = {<< <<Len(list)>>, list >>}
         /\ Shapes(list, 1) = {<<Len(list)>>}
         /\ Elements(list, 1) = Range(list)
<1> DEFINE B(g, k) == IF k = 1 THEN {<< <<Len(list)>>, list >>}
                      ELSE UNION {{<<p[1] \o <<Len(c)>>, c>> : c \in Range(p[2]) \ {Null}} : p \in g[k - 1]}
           at == CHOOSE g : g = [k \in 1..1 |-> B(g, k)]
           once == [k \in 1..1 |-> {<< <<Len(list)>>, list >>}]
<1>1. \A g : [k \in 1..1 |-> B(g, k)] = once
  OBVIOUS
<1>2. \A g : (g = [k \in 1..1 |-> B(g, k)]) <=> g = once
  BY <1>1
<1>3. ListsAt(list, 1) = at
  BY DEF ListsAt
<1>5. once[1] = {<< <<Len(list)>>, list >>}
  OBVIOUS
<1> HIDE DEF B, once
<1>4. at = once
  BY <1>2
<1>6. ListsAt(list, 1)[1] = {<< <<Len(list)>>, list >>}
  BY <1>3, <1>4, <1>5
<1> DEFINE pair == << <<Len(list)>>, list >>
<1>9. pair[1] = <<Len(list)>> /\ pair[2] = list
  OBVIOUS
<1> HIDE DEF pair
<1>10. ListsAt(list, 1)[1] = {pair}
  BY <1>6 DEF pair
<1>7. Shapes(list, 1) = {<<Len(list)>>}
  BY <1>9, <1>10 DEF Shapes
<1>8. Elements(list, 1) = Range(list)
  BY <1>9, <1>10 DEF Elements
<1> QED BY <1>6, <1>7, <1>8

\* An array of one dimension stands for the list of its elements.
LEMMA NestOnce ==
  ASSUME NEW n \in Nat, NEW elems
  PROVE  NestOf(<<n>>, elems) = elems
<1> DEFINE dims == <<n>>
           Group(s, m) == [i \in 1..(Len(s) \div m) |-> SubSeq(s, (i - 1) * m + 1, i * m)]
           B(g, k) == IF k = 0 THEN elems ELSE Group(g[k - 1], dims[Len(dims) - k + 1])
           level == CHOOSE g : g = [k \in 0..(Len(dims) - 1) |-> B(g, k)]
           once == [k \in {0} |-> elems]
<1>0. Len(dims) = 1 /\ 0..(Len(dims) - 1) = {0}
  OBVIOUS
<1> HIDE DEF dims
<1>1. \A g : [k \in 0..(Len(dims) - 1) |-> B(g, k)] = once
  BY <1>0
<1>2. \A g : (g = [k \in 0..(Len(dims) - 1) |-> B(g, k)]) <=> g = once
  BY <1>1
<1>3. NestOf(dims, elems) = level[Len(dims) - 1]
  BY <1>0 DEF NestOf
<1>5. once[0] = elems
  OBVIOUS
<1> HIDE DEF B, once
<1>4. level = once
  BY <1>2
<1> HIDE DEF level
<1>6. NestOf(dims, elems) = elems
  BY <1>0, <1>3, <1>4, <1>5
<1> QED BY <1>6 DEF dims

\* DuckDB reads a list of depth one cell by cell.
LEMMA ReadOnce ==
  ASSUME NEW vector, NEW e, NEW n, vector.lists = <<[entry |-> e, size |-> n]>>, NEW j \in DOMAIN e
  PROVE  LET list == [k \in 1..e[j].len |-> ReadCell(vector.leaf, e[j].at + k - 1)] IN
         ReadList(vector, j) = IF Garbage \in Range(list) THEN Garbage ELSE list
<1> DEFINE R(cells, x) == LET list == [k \in 1..x.len |-> ReadCell(cells, x.at + k - 1)]
                          IN  IF Garbage \in Range(list) THEN Garbage ELSE list
           B(g, d) == IF d > Len(vector.lists) THEN vector.leaf
                      ELSE [i \in DOMAIN vector.lists[d].entry |-> R(g[d + 1], vector.lists[d].entry[i])]
           level == CHOOSE g : g = [d \in 1..(Len(vector.lists) + 1) |-> B(g, d)]
           once == [d \in 1..2 |-> IF d = 2 THEN vector.leaf ELSE [i \in DOMAIN e |-> R(vector.leaf, e[i])]]
<1>0. Len(vector.lists) = 1 /\ vector.lists[1].entry = e /\ 1..(Len(vector.lists) + 1) = 1..2
  OBVIOUS
<1>3. ReadList(vector, j) = ReadCell(level[1], j)
  BY DEF ReadList
<1> HIDE DEF R
<1>1. ASSUME NEW g, g = [d \in 1..(Len(vector.lists) + 1) |-> B(g, d)] PROVE g = once
  <2>1. g = [d \in 1..2 |-> B(g, d)]
    BY <1>0, <1>1
  <2>2. g[2] = vector.leaf
    BY <1>0, <2>1
  <2>3. g[1] = [i \in DOMAIN e |-> R(vector.leaf, e[i])]
    BY <1>0, <2>1, <2>2
  <2>4. g = [d \in 1..2 |-> g[d]]
    BY <2>1
  <2>5. \A d \in 1..2 : g[d] = IF d = 2 THEN vector.leaf ELSE [i \in DOMAIN e |-> R(vector.leaf, e[i])]
    BY <2>2, <2>3
  <2> QED BY <2>4, <2>5
<1>2. once = [d \in 1..(Len(vector.lists) + 1) |-> B(once, d)]
  <2>1. once[2] = vector.leaf
    OBVIOUS
  <2>2. B(once, 2) = vector.leaf
    BY <1>0
  <2>3. B(once, 1) = [i \in DOMAIN e |-> R(once[2], e[i])]
    BY <1>0
  <2>4. B(once, 1) = [i \in DOMAIN e |-> R(vector.leaf, e[i])]
    BY <2>1, <2>3
  <2> HIDE DEF B
  <2> QED BY <1>0, <2>2, <2>4
<1>5. once[1] = [i \in DOMAIN e |-> R(vector.leaf, e[i])]
  OBVIOUS
<1> HIDE DEF B, once
<1>4. level = once
  BY <1>1, <1>2
<1> HIDE DEF level
<1>6. ReadCell(once[1], j) = R(vector.leaf, e[j])
  BY <1>5 DEF ReadCell
<1> QED BY <1>3, <1>4, <1>6 DEF R

\* A list of depth one becomes an array of one dimension, unless it asks for too
\* much memory (AppendValueAtDimension).
LEMMA ConvertOnce ==
  ASSUME NEW value, Len(value) \in Nat, NEW nest, Len(nest) = 1, NEW text, NEW raised
  PROVE  ConvertDuckToPostgresArray(value, nest, text, raised) =
           IF Len(value) * Len(value) > MaxDatums THEN raised
           ELSE IF Len(value) = 0 THEN [dims |-> <<>>, elems |-> <<>>]
           ELSE [dims |-> <<Len(value)>>, elems |-> value]
<1> DEFINE depth == DepthReached(nest)
           met == ListsMet(value, depth)
           dims == [d \in 1..Len(nest) |-> IF d > depth \/ met[d] = <<>> THEN 0 ELSE Len(met[d][1])]
           SizesDiffer == \E d \in 1..depth : \E i \in DOMAIN met[d] : Len(met[d][i]) # dims[d]
           NullBetween == \E d \in 1..(depth - 1) : \E i \in DOMAIN met[d] : Null \in Range(met[d][i])
           TooLarge == met[depth] # <<>> /\ ExpectedAt(dims, depth) > MaxDatums
           ArrayInside == depth < Len(nest) /\ ~text /\ \E i \in DOMAIN met[depth] : met[depth][i] # <<>>
<1>0. ConvertDuckToPostgresArray(value, nest, text, raised) =
        IF SizesDiffer \/ NullBetween \/ TooLarge \/ ArrayInside THEN raised
        ELSE ConstructArray(dims, FlattenSeq(met[depth]))
  BY DEF ConvertDuckToPostgresArray
<1>1. depth = 1
  BY DEF DepthReached
<1> HIDE DEF depth
<1>2. met[1] = <<value>>
  BY <1>1, MetOnce
<1> HIDE DEF met
<1>3. dims = <<Len(value)>>
  <2>1. met[1] # <<>> /\ met[1][1] = value
    BY <1>2
  <2>2. dims = [d \in 1..1 |-> Len(value)]
    BY <1>1, <2>1
  <2> QED BY <2>2
<1> HIDE DEF dims
<1>4. ~SizesDiffer /\ ~NullBetween /\ ~ArrayInside
  BY <1>1, <1>2, <1>3
<1>5. ExpectedAt(dims, 1) = Len(value) * Len(value)
  BY <1>3, ExpectedOnce
<1>6. TooLarge <=> Len(value) * Len(value) > MaxDatums
  BY <1>1, <1>2, <1>5
<1>7. FlattenSeq(met[depth]) = value
  BY <1>1, <1>2, FlattenOne
<1> HIDE DEF SizesDiffer, NullBetween, TooLarge, ArrayInside
<1>8. ConstructArray(dims, value) =
        IF Len(value) = 0 THEN [dims |-> <<>>, elems |-> <<>>] ELSE [dims |-> <<Len(value)>>, elems |-> value]
  BY <1>3 DEF ConstructArray
<1> QED BY <1>0, <1>4, <1>6, <1>7, <1>8

-----------------------------------------------------------------------------
(* Arrays of one dimension *)

IsFlat(c) == IsArray(c) /\ c.attndims <= 1 /\ c.pg # "char"
Flat == IF col = Null THEN IsListType(dtype) ELSE IsFlat(col)

\* What the cell of an element is given.
ElementCell(c, v) == AppendElement(c.pg, v, ConvertPostgresToDuckColumnType(c))

Entries == vec.lists[1].entry
Size == vec.lists[1].size

ListColumnInv ==
  /\ col # Null =>
       /\ col \in PgColumns /\ IsFlat(col) /\ dtype = ConvertPostgresToDuckColumnType(col)
       /\ rows \in Seq(ArrayValues(col.pg) \cup {Null})
  /\ col = Null => rows = <<>> /\ dtype \in DuckColumns /\ IsListType(dtype)
  /\ Len(dtype.nest) = 1 /\ dtype.nest # <<>>
  /\ count \in 0..Len(rows)
  /\ stage \in {"plan", "insert", "return", "done", "unsupported", "raised"}
  /\ param = NoParam

\* Each row has an entry, whose cells hold its elements and lie behind those of
\* the rows before it, or is marked as NULL.
HasElements(a, at) == \A k \in 1..Len(a.elems) :
  /\ ElementCell(col, a.elems[k]) # Raised
  /\ at + k - 1 \in DOMAIN vec.leaf
  /\ vec.leaf[at + k - 1] = ElementCell(col, a.elems[k])
HasList(i) ==
  /\ Len(rows[i].dims) <= 1
  /\ i - 1 \in DOMAIN Entries
  /\ Entries[i - 1].at \in Nat /\ Entries[i - 1].len = Len(rows[i].elems)
  /\ Entries[i - 1].at + Entries[i - 1].len <= Size
  /\ HasElements(rows[i], Entries[i - 1].at)
ListCellInv == col # Null =>
  /\ vec = [lists |-> <<[entry |-> Entries, size |-> Size]>>, leaf |-> vec.leaf, invalid |-> vec.invalid]
  /\ Size \in Nat
  /\ vec.invalid \subseteq 0..(count - 1)
  /\ \A i \in 1..count :
       /\ (rows[i] = Null) <=> (i - 1 \in vec.invalid)
       /\ rows[i] # Null => HasList(i)

ListDuckInv ==
  /\ col # Null =>
       /\ stage \in {"plan", "insert"} => duck = <<>>
       /\ duck # <<>> => count = Len(rows) /\ duck = [i \in 1..count |-> ReadRow(i - 1)]
  /\ col = Null =>
       /\ stage \notin {"plan", "insert"}
       /\ duck \in Seq(Seq(DuckScalarValues(dtype.id) \cup {Null}) \cup {Null})

ListDatum(d) == IF d \in {Null, Garbage} THEN d ELSE ConvertDuckToPostgresValue(d, dtype)
ListOutInv ==
  /\ Len(duck) \in Nat
  /\ out \in Seq({ListDatum(duck[i]) : i \in 1..Len(duck)})
  /\ Len(out) <= Len(duck)
  /\ \A i \in 1..Len(out) : out[i] = ListDatum(duck[i]) /\ out[i] # Raised
  /\ out # <<>> => Supported(dtype)
  /\ stage \in {"plan", "insert"} => out = <<>>

ListInv == ListColumnInv /\ ListCellInv /\ ListDuckInv /\ ListOutInv /\ RaisedForCause
FlatInv == Flat => ListInv

\* The DuckDB type of an array column: a list of the type of its elements.
LEMMA FlatType ==
  ASSUME NEW c \in PgColumns, IsFlat(c)
  PROVE  LET t == ConvertPostgresToDuckColumnType(c) IN
         /\ Plain(c) /\ c.array
         /\ Len(t.nest) = 1 /\ t.nest # <<>>
         /\ t.id # "TINYINT"
<1> DEFINE t == ConvertPostgresToDuckColumnType(c)
<1>1. Plain(c) /\ c.array /\ c.attndims \in {0, 1} /\ c.pg # "char"
  BY ColumnAssumption DEF IsFlat, IsArray, Plain
<1>2. t.nest = [d \in 1..1 |-> "LIST"]
  BY <1>1 DEF ConvertPostgresToDuckColumnType
<1>3. t.id # "TINYINT"
  BY <1>1, ColumnType
<1> HIDE DEF t
<1>4. Len(t.nest) = 1
  BY <1>2
<1>5. t.nest # <<>>
  BY <1>4
<1> QED BY <1>1, <1>3, <1>4, <1>5 DEF t

\* An element is refused only for a timestamp that DuckDB cannot hold; any
\* other fills a cell that is returned as it must be.
LEMMA FlatElement ==
  ASSUME NEW c \in PgColumns, IsFlat(c), NEW v \in ScalarValues(c.pg) \cup {Null}
  PROVE  LET t == ConvertPostgresToDuckColumnType(c) IN
         /\ ElementCell(c, v) = Raised => v # Null /\ NoRowValue(t, v)
         /\ ElementCell(c, v) # Raised =>
              /\ ElementCell(c, v) \in AnyScalar \cup {Null}
              /\ ElementDatum(ElementCell(c, v), t) = ExpectedScalar(c, v)
              /\ ElementDatum(ElementCell(c, v), t) \in AnyScalar \cup {Null}
<1> DEFINE t == ConvertPostgresToDuckColumnType(c)
<1>1. Plain(c) /\ c.array
  BY FlatType
<1>2. CASE v = Null
  <2>1. ElementCell(c, v) = Null
    BY <1>2 DEF ElementCell, AppendElement
  <2>2. ElementDatum(Null, t) = Null /\ ExpectedScalar(c, v) = Null
    BY <1>2 DEF ElementDatum, ExpectedScalar
  <2> QED BY <2>1, <2>2, Special
<1>3. CASE v # Null
  <2>1. v \in ScalarValues(c.pg)
    BY <1>3
  <2>2. ElementCell(c, v) = Cell(c, v)
    BY <1>1, <1>3 DEF ElementCell, AppendElement, Cell, ElementType
  <2>3. ~DomainLoss(c)
    BY <1>1 DEF DomainLoss
  <2>4. /\ Cell(c, v) = Raised => NoRowValue(t, v)
        /\ Cell(c, v) # Raised =>
             /\ Cell(c, v) # Null /\ Cell(c, v) \in AnyScalar
             /\ ToDatum(Cell(c, v), t) \in AnyScalar /\ ToDatum(Cell(c, v), t) = ExpectedScalar(c, v)
    BY <1>1, <2>1, <2>3, ScalarCell
  <2>5. Cell(c, v) # Null => ElementDatum(Cell(c, v), t) = ToDatum(Cell(c, v), t)
    BY DEF ElementDatum
  <2> HIDE DEF t
  <2> QED BY <1>3, <2>2, <2>4, <2>5 DEF t
<1> QED BY <1>2, <1>3

\* The special values are no lists and no arrays.
Lists == Seq(AnyScalar \cup {Null})
LEMMA SpecialList ==
  /\ \A d \in Lists : d # Null /\ d # Garbage /\ d # Raised
  /\ \A a \in [dims : Seq(Nat), elems : Lists] : a # Null /\ a # Garbage /\ a # Raised
BY SpecialAssumption DEF Lists

\* The array that a list is returned as.
FlatArray(d, t) ==
  [dims |-> IF Len(d) = 0 THEN <<>> ELSE <<Len(d)>>, elems |-> [i \in 1..Len(d) |-> ElementDatum(d[i], t)]]

\* A list is refused for the memory it asks for or for one of its elements, and
\* is returned element by element otherwise.
LEMMA ListReturned ==
  ASSUME NEW t, Len(t.nest) = 1, t.nest # <<>>, NEW d \in Lists,
         \A i \in 1..Len(d) : ElementDatum(d[i], t) # Raised => ElementDatum(d[i], t) \in AnyScalar \cup {Null}
  PROVE  LET Large == Len(d) * Len(d) > MaxDatums
             Refused == \E i \in 1..Len(d) : ElementDatum(d[i], t) = Raised
         IN  /\ (ConvertDuckToPostgresValue(d, t) = Raised) <=> (Large \/ Refused)
             /\ ~Large /\ ~Refused => ConvertDuckToPostgresValue(d, t) = FlatArray(d, t)
<1> DEFINE n == Len(d)
           Large == n * n > MaxDatums
           Refused == \E i \in 1..n : ElementDatum(d[i], t) = Raised
           a == ConvertDuckToPostgresArray(d, t.nest, t.id = "VARCHAR", Raised)
           elems == [i \in DOMAIN a.elems |-> ElementDatum(a.elems[i], t)]
<1>1. n \in Nat /\ DOMAIN d = 1..n
  BY DEF Lists
<1>2. a = IF Large THEN Raised
          ELSE IF n = 0 THEN [dims |-> <<>>, elems |-> <<>>] ELSE [dims |-> <<n>>, elems |-> d]
  BY <1>1, ConvertOnce
<1>3. ConvertDuckToPostgresValue(d, t) =
        IF a = Raised THEN Raised
        ELSE IF Raised \in Range(elems) THEN Raised ELSE [a EXCEPT !.elems = elems]
  BY DEF ConvertDuckToPostgresValue
<1> HIDE DEF a
<1>4. CASE Large
  BY <1>2, <1>3, <1>4
<1>5. CASE ~Large
  <2> DEFINE dims == IF n = 0 THEN <<>> ELSE <<n>>
  <2>1. n = 0 => d = <<>>
    BY DEF Lists
  <2>2. a = [dims |-> dims, elems |-> d]
    BY <1>2, <1>5, <2>1
  <2>3. dims \in Seq(Nat)
    BY <1>1
  <2>4. a # Raised
    BY <2>2, <2>3, SpecialList
  <2> HIDE DEF dims
  <2>5. elems = [i \in 1..n |-> ElementDatum(d[i], t)]
    BY <1>1, <2>2
  <2>6. (Raised \in Range(elems)) <=> Refused
    BY <2>5 DEF Range
  <2>7. [a EXCEPT !.elems = elems] = [dims |-> dims, elems |-> elems]
    BY <2>2
  <2>8. CASE Refused
    BY <1>3, <2>4, <2>6, <2>8
  <2>9. CASE ~Refused
    <3>1. elems \in Lists
      BY <1>1, <2>5, <2>9 DEF Lists
    <3> HIDE DEF elems
    <3>2. [dims |-> dims, elems |-> elems] # Raised
      BY <2>3, <3>1, SpecialList
    <3>3. ConvertDuckToPostgresValue(d, t) = [dims |-> dims, elems |-> elems]
      BY <1>3, <2>4, <2>6, <2>7, <2>9
    <3>4. FlatArray(d, t) = [dims |-> dims, elems |-> elems]
      BY <2>5 DEF FlatArray, dims
    <3> QED BY <1>5, <2>9, <3>2, <3>3, <3>4
  <2> QED BY <2>8, <2>9
<1> QED BY <1>4, <1>5

\* A column starts with an empty vector, or with lists of DuckDB.
LEMMA InitFlatInv == Init => FlatInv
<1> SUFFICES ASSUME Init, Flat PROVE ListInv
  BY DEF FlatInv
<1>1. vec = EmptyVector(Len(dtype.nest)) /\ count = 0 /\ out = <<>> /\ param = NoParam
  BY DEF Init
<1>2. CASE \E c \in PgColumns : \E r \in PgRows(c) :
             /\ stage = "plan" /\ col = c /\ rows = r
             /\ dtype = ConvertPostgresToDuckColumnType(c)
             /\ duck = <<>>
  <2>1. col \in PgColumns /\ rows \in PgRows(col) /\ stage = "plan" /\ duck = <<>>
        /\ dtype = ConvertPostgresToDuckColumnType(col)
    BY <1>2
  <2>2. col # Null /\ IsFlat(col)
    BY <2>1, SpecialAssumption DEF Flat
  <2>3. rows \in Seq(ArrayValues(col.pg) \cup {Null})
    BY <2>1, <2>2, ColumnAssumption DEF IsFlat
  <2>4. Len(dtype.nest) = 1 /\ dtype.nest # <<>>
    BY <2>1, <2>2, FlatType
  <2>5. ListColumnInv
    BY <1>1, <2>1, <2>2, <2>3, <2>4 DEF ListColumnInv
  <2>6. ListCellInv
    <3> DEFINE f == [d \in 1..1 |-> [entry |-> <<>>, size |-> 0]]
    <3>1. vec = [lists |-> f, leaf |-> <<>>, invalid |-> {}]
      BY <1>1, <2>4 DEF EmptyVector
    <3>2. f = <<[entry |-> <<>>, size |-> 0]>> /\ f[1] = [entry |-> <<>>, size |-> 0]
      OBVIOUS
    <3> HIDE DEF f
    <3>3. Entries = <<>> /\ Size = 0
      BY <3>1, <3>2 DEF Entries, Size
    <3> QED BY <1>1, <3>1, <3>2, <3>3 DEF ListCellInv
  <2>7. ListDuckInv /\ RaisedForCause
    BY <1>1, <2>1, <2>2 DEF ListDuckInv, RaisedForCause
  <2>8. ListOutInv
    BY <1>1, <2>1 DEF ListOutInv
  <2> QED BY <2>5, <2>6, <2>7, <2>8 DEF ListInv
<1>3. CASE \E t \in DuckColumns : \E r \in DuckRows(t) :
             /\ stage = "return" /\ col = Null /\ rows = <<>>
             /\ dtype = t
             /\ duck = r
  <2>1. dtype \in DuckColumns /\ duck \in DuckRows(dtype) /\ stage = "return" /\ col = Null /\ rows = <<>>
    BY <1>3
  <2>2. IsListType(dtype)
    BY <2>1 DEF Flat
  <2>3. duck \in Seq(Seq(DuckScalarValues(dtype.id) \cup {Null}) \cup {Null})
    BY <2>1, <2>2, ColumnAssumption
  <2>4. Len(dtype.nest) = 1 /\ dtype.nest # <<>>
    BY <2>2 DEF IsListType
  <2>5. ListColumnInv
    BY <1>1, <2>1, <2>2, <2>4 DEF ListColumnInv
  <2>6. ListCellInv /\ ListDuckInv /\ RaisedForCause
    BY <1>1, <2>1, <2>3 DEF ListCellInv, ListDuckInv, RaisedForCause
  <2>7. ListOutInv
    BY <1>1, <2>1, <2>3 DEF ListOutInv
  <2> QED BY <2>5, <2>6, <2>7 DEF ListInv
<1> QED BY <1>2, <1>3 DEF Init

\* The elements of an array have the type of its column.
LEMMA ArrayShape ==
  ASSUME NEW pg, NEW v \in ArrayValues(pg)
  PROVE  /\ v = [dims |-> v.dims, elems |-> v.elems]
         /\ v.dims \in Seq(Nat) /\ v.elems \in Seq(ScalarValues(pg) \cup {Null})
         /\ Len(v.dims) \in Nat /\ Len(v.elems) \in Nat /\ DOMAIN v.elems = 1..Len(v.elems)
         /\ Len(v.dims) = 0 => v.dims = <<>> /\ v.elems = <<>>
         /\ Len(v.dims) = 1 => v.dims = <<Len(v.elems)>> /\ Len(v.elems) > 0
<1>1. /\ v \in [dims : Seq(Nat \ {0}), elems : Seq(ScalarValues(pg) \cup {Null})]
      /\ v.dims = <<>> => v.elems = <<>>
      /\ Len(v.dims) = 1 => Len(v.elems) = v.dims[1]
  BY DEF ArrayValues
<1>2. /\ v = [dims |-> v.dims, elems |-> v.elems]
      /\ v.dims \in Seq(Nat \ {0}) /\ v.elems \in Seq(ScalarValues(pg) \cup {Null})
  BY <1>1
<1>3. v.dims \in Seq(Nat) /\ Len(v.dims) \in Nat /\ Len(v.elems) \in Nat /\ DOMAIN v.elems = 1..Len(v.elems)
  BY <1>2
<1>4. Len(v.dims) = 0 => v.dims = <<>>
  BY <1>2
<1>5. ASSUME Len(v.dims) = 1 PROVE v.dims = <<Len(v.elems)>> /\ Len(v.elems) > 0
  <2>1. v.dims[1] \in Nat \ {0} /\ v.dims = <<v.dims[1]>>
    BY <1>2, <1>5
  <2> QED BY <1>1, <1>5, <2>1
<1> QED BY <1>1, <1>2, <1>3, <1>4, <1>5

\* What DuckDB reads in a row that was inserted: the cells of its elements.
CellsOf(a) == [k \in 1..Len(a.elems) |-> ElementCell(col, a.elems[k])]
LEMMA ListRead ==
  ASSUME ListInv, col # Null, NEW i \in 1..count
  PROVE  /\ rows[i] \in ArrayValues(col.pg) \cup {Null}
         /\ rows[i] = Null => ReadRow(i - 1) = Null
         /\ rows[i] # Null =>
              /\ ReadRow(i - 1) = CellsOf(rows[i]) /\ CellsOf(rows[i]) \in Lists
              /\ Len(rows[i].dims) <= 1
              /\ \A k \in 1..Len(rows[i].elems) : ElementCell(col, rows[i].elems[k]) # Raised
<1>1. /\ col \in PgColumns /\ IsFlat(col) /\ rows \in Seq(ArrayValues(col.pg) \cup {Null})
      /\ count \in 0..Len(rows) /\ dtype.nest # <<>>
  BY DEF ListInv, ListColumnInv
<1>2. rows[i] \in ArrayValues(col.pg) \cup {Null}
  BY <1>1
<1>3. (rows[i] = Null) <=> (i - 1 \in vec.invalid)
  BY DEF ListInv, ListCellInv
<1>4. rows[i] = Null => ReadRow(i - 1) = Null
  BY <1>3 DEF ReadRow
<1>5. ASSUME rows[i] # Null
      PROVE  /\ ReadRow(i - 1) = CellsOf(rows[i]) /\ CellsOf(rows[i]) \in Lists
             /\ Len(rows[i].dims) <= 1
             /\ \A k \in 1..Len(rows[i].elems) : ElementCell(col, rows[i].elems[k]) # Raised
  <2> DEFINE a == rows[i]
             e == Entries
             j == i - 1
             list == [k \in 1..e[j].len |-> ReadCell(vec.leaf, e[j].at + k - 1)]
  <2>1. a \in ArrayValues(col.pg)
    BY <1>2, <1>5
  <2>2. HasList(i)
    BY <1>5 DEF ListInv, ListCellInv
  <2>3. /\ Len(a.dims) <= 1 /\ j \in DOMAIN e /\ e[j].len = Len(a.elems)
        /\ \A k \in 1..Len(a.elems) :
             /\ ElementCell(col, a.elems[k]) # Raised
             /\ e[j].at + k - 1 \in DOMAIN vec.leaf
             /\ vec.leaf[e[j].at + k - 1] = ElementCell(col, a.elems[k])
    BY <2>2 DEF HasList, HasElements
  <2>4. vec.lists = <<[entry |-> e, size |-> Size]>>
    BY DEF ListInv, ListCellInv
  <2>5. ReadRow(j) = ReadList(vec, j)
    BY <1>1, <1>3, <1>5 DEF ReadRow
  <2> HIDE DEF a, e, j
  <2>6. ReadList(vec, j) = IF Garbage \in Range(list) THEN Garbage ELSE list
    BY <2>3, <2>4, ReadOnce
  <2>7. list = CellsOf(a)
    <3>1. \A k \in 1..Len(a.elems) : ReadCell(vec.leaf, e[j].at + k - 1) = ElementCell(col, a.elems[k])
      BY <2>3 DEF ReadCell
    <3> QED BY <2>3, <3>1 DEF CellsOf
  <2>8. \A k \in 1..Len(a.elems) : ElementCell(col, a.elems[k]) \in AnyScalar \cup {Null}
    <3> SUFFICES ASSUME NEW k \in 1..Len(a.elems) PROVE ElementCell(col, a.elems[k]) \in AnyScalar \cup {Null}
      OBVIOUS
    <3>0. a.elems \in Seq(ScalarValues(col.pg) \cup {Null})
      BY <2>1, ArrayShape
    <3>1. a.elems[k] \in ScalarValues(col.pg) \cup {Null}
      BY <3>0
    <3> QED BY <1>1, <2>3, <3>1, FlatElement
  <2>9. CellsOf(a) \in Lists
    <3>1. Len(a.elems) \in Nat
      BY <2>1, ArrayShape
    <3> QED BY <2>8, <3>1 DEF CellsOf, Lists
  <2>10. Garbage \notin Range(list)
    <3>1. Range(CellsOf(a)) \subseteq AnyScalar \cup {Null}
      BY <2>8 DEF CellsOf, Range
    <3>2. Garbage \notin AnyScalar \cup {Null}
      BY SpecialAssumption
    <3> QED BY <2>7, <3>1, <3>2
  <2> QED BY <2>3, <2>5, <2>6, <2>7, <2>9, <2>10 DEF a, j
<1> QED BY <1>2, <1>4, <1>5

\* Elements that are written go behind what is there, one to a cell.
CellsFrom(s, n) == [x \in {n + i - 1 : i \in DOMAIN s} |-> s[x - n + 1]]
LEMMA ElementCells ==
  ASSUME NEW t, t.id # "TINYINT", NEW s, NEW n
  PROVE  AppendCells(t, s, n) = CellsFrom(s, n)
BY DEF AppendCells, CellsFrom

\* An array that is inserted gets an entry of its own, behind the elements of
\* the rows before it, which it leaves alone.
LEMMA WrittenList ==
  ASSUME ListInv, col # Null, NEW v \in ArrayValues(col.pg), Len(v.dims) <= 1,
         vec' = InsertRow(vec, col, dtype, v, count)
  PROVE  LET n == Len(v.elems) IN
         /\ vec' = [lists |-> <<[entry |-> Entries', size |-> Size']>>, leaf |-> vec'.leaf, invalid |-> vec.invalid]
         /\ Size' = Size + n
         /\ DOMAIN Entries' = DOMAIN Entries \cup {count}
         /\ \A i \in DOMAIN Entries : i # count => Entries'[i] = Entries[i]
         /\ Entries'[count].at = Size /\ Entries'[count].len = n
         /\ DOMAIN vec.leaf \subseteq DOMAIN vec'.leaf
         /\ \A x \in DOMAIN vec.leaf : x \in Nat /\ x < Size => vec'.leaf[x] = vec.leaf[x]
         /\ \A k \in 1..n : /\ Size + k - 1 \in DOMAIN vec'.leaf
                            /\ vec'.leaf[Size + k - 1] = ElementCell(col, v.elems[k])
<1> DEFINE n == Len(v.elems)
           elems == [i \in DOMAIN v.elems |-> AppendElement(col.pg, v.elems[i], dtype)]
           e == Entries
           z == Size
           new == [i \in {count} |-> [at |-> z, len |-> n]]
<1>1. /\ col \in PgColumns /\ IsFlat(col) /\ dtype = ConvertPostgresToDuckColumnType(col) /\ count \in Nat
  BY DEF ListInv, ListColumnInv
<1>2. /\ vec = [lists |-> <<[entry |-> e, size |-> z]>>, leaf |-> vec.leaf, invalid |-> vec.invalid]
      /\ z \in Nat
  BY DEF ListInv, ListCellInv
<1>3. col.array /\ dtype.id # "TINYINT"
  BY <1>1, FlatType
<1>4. /\ v = [dims |-> v.dims, elems |-> v.elems]
      /\ Len(v.dims) \in Nat /\ n \in Nat /\ DOMAIN v.elems = 1..n
      /\ Len(v.dims) = 0 => v.dims = <<>> /\ v.elems = <<>>
      /\ Len(v.dims) = 1 => v.dims = <<n>> /\ n > 0
  BY ArrayShape
<1>5. v # Null
  <2>1. v.dims \in Seq(Nat) /\ v.elems \in Seq(ScalarValues(col.pg) \cup {Null})
    BY ArrayShape
  <2>2. ScalarValues(col.pg) \subseteq AnyScalar
    <3>1. PgDates \subseteq Int
      BY DateAssumption DEF PgDates, DATEVAL_NOBEGIN, DATEVAL_NOEND
    <3>2. PgTimestamps \subseteq Int
      BY TimestampAssumption DEF PgTimestamps, DT_NOBEGIN, DT_NOEND
    <3> QED BY <3>1, <3>2 DEF ScalarValues, AnyScalar
  <2>3. v.elems \in Lists
    BY <2>1, <2>2 DEF Lists
  <2> QED BY <1>4, <2>1, <2>3, SpecialList
<1>6. vec' = AppendArray(vec, v, CellsFrom(elems, z), count)
  <2>1. ElementOffset(vec) = z
    <3>1. vec.lists = <<[entry |-> e, size |-> z]>>
      BY <1>2
    <3> QED BY <3>1 DEF ElementOffset
  <2>2. AppendCells(dtype, elems, ElementOffset(vec)) = CellsFrom(elems, z)
    BY <1>3, <2>1, ElementCells
  <2>3. vec' = AppendArray(vec, v, AppendCells(dtype, elems, ElementOffset(vec)), count)
    BY <1>3, <1>5 DEF InsertRow
  <2> QED BY <2>2, <2>3
<1>7. \A k \in 1..n : elems[k] = ElementCell(col, v.elems[k])
  BY <1>1, <1>4 DEF ElementCell
<1>8. /\ CellsFrom(elems, z) = [x \in {z + i - 1 : i \in 1..n} |-> elems[x - z + 1]]
      /\ DOMAIN elems = 1..n
  BY <1>4 DEF CellsFrom
<1> HIDE DEF elems, e, z
<1>0. Len(v.dims) = 0 \/ Len(v.dims) = 1
  <2> DEFINE m == Len(v.dims)
  <2>1. m \in Nat /\ m <= 1
    BY <1>4
  <2> HIDE DEF m
  <2>2. m = 0 \/ m = 1
    BY <2>1
  <2> QED BY <2>2 DEF m
<1>9. /\ vec' = [lists |-> <<[entry |-> Overwrite(e, new), size |-> z + n]>>, leaf |-> vec'.leaf, invalid |-> vec.invalid]
      /\ \/ n = 0 /\ vec'.leaf = vec.leaf
         \/ vec'.leaf = Overwrite(vec.leaf, CellsFrom(elems, z))
  <2>1. vec.lists = <<[entry |-> e, size |-> z]>> /\ vec.lists[1].entry = e /\ vec.lists[1].size = z
    BY <1>2
  <2>2. CASE Len(v.dims) = 0
    <3>1. n = 0 /\ v.dims = <<>>
      BY <1>4, <2>2
    <3>3. [i \in {count} |-> [at |-> vec.lists[1].size, len |-> 0]] = new
      BY <2>1, <3>1
    <3> HIDE DEF new
    <3>4. vec' = [vec EXCEPT !.lists[1].entry = Overwrite(@, new)]
      BY <1>6, <2>2, <3>3 DEF AppendArray
    <3>5. [vec.lists EXCEPT ![1].entry = Overwrite(@, new)] = <<[entry |-> Overwrite(e, new), size |-> z]>>
      BY <2>1
    <3>6. vec' = [lists |-> <<[entry |-> Overwrite(e, new), size |-> z]>>, leaf |-> vec.leaf, invalid |-> vec.invalid]
      BY <1>2, <2>1, <3>4, <3>5
    <3>7. z + n = z
      BY <1>2, <3>1 DEF z
    <3> QED BY <3>1, <3>6, <3>7
  <2>3. CASE Len(v.dims) = 1
    <3> DEFINE size(d) == vec.lists[d].size
               written(d) == [i \in {WriteOffset(vec, count, d) + f : f \in 0..(ListsWritten(v.dims, d) - 1)} |->
                                [at |-> size(d) + v.dims[d] * (i - WriteOffset(vec, count, d)), len |-> v.dims[d]]]
               next(d) == size(d) + v.dims[d] * ListsWritten(v.dims, d)
               L == [d \in 1..1 |-> [entry |-> Overwrite(vec.lists[d].entry, written(d)), size |-> next(d)]]
    <3>1. v.dims[1] = n /\ Len(v.dims) = 1
      BY <1>4, <2>3
    <3>2. vec' = [vec EXCEPT
                    !.lists = [d \in 1..Len(v.dims) |->
                                 [entry |-> Overwrite(vec.lists[d].entry, written(d)), size |-> next(d)]],
                    !.leaf = Overwrite(@, CellsFrom(elems, z))]
      BY <1>6, <3>1 DEF AppendArray
    <3>3. WriteOffset(vec, count, 1) = count /\ ListsWritten(v.dims, 1) = 1
      BY DEF WriteOffset, ListsWritten
    <3>4. written(1) = new
      <4>1. {count + f : f \in 0..(1 - 1)} = {count}
        BY <1>1
      <4>2. \A i \in {count} : z + n * (i - count) = z
        BY <1>1, <1>2, <1>4 DEF z
      <4>3. written(1) = [i \in {count} |-> [at |-> z + n * (i - count), len |-> n]]
        BY <2>1, <3>1, <3>3, <4>1
      <4> QED BY <4>2, <4>3
    <3>5. next(1) = z + n
      BY <1>4, <2>1, <3>1, <3>3
    <3>8. vec' = [vec EXCEPT !.lists = L, !.leaf = Overwrite(@, CellsFrom(elems, z))]
      BY <3>1, <3>2
    <3> HIDE DEF written, size, new, next
    <3>6. L[1] = [entry |-> Overwrite(e, new), size |-> z + n]
      BY <2>1, <3>4, <3>5
    <3>7. L = <<L[1]>>
      OBVIOUS
    <3> HIDE DEF L
    <3>9. vec' = [lists |-> L, leaf |-> Overwrite(vec.leaf, CellsFrom(elems, z)), invalid |-> vec.invalid]
      BY <1>2, <3>8
    <3> QED BY <3>6, <3>7, <3>9
  <2> HIDE DEF new
  <2> QED BY <1>0, <2>2, <2>3
<1>10. Entries' = Overwrite(e, new) /\ Size' = z + n
  <2> HIDE DEF new
  <2>1. vec'.lists[1] = [entry |-> Overwrite(e, new), size |-> z + n]
    BY <1>9
  <2> QED BY <2>1 DEF Entries, Size
<1>11. /\ DOMAIN Entries' = DOMAIN e \cup {count}
       /\ \A i \in DOMAIN e : i # count => Entries'[i] = e[i]
       /\ Entries'[count].at = z /\ Entries'[count].len = n
  BY <1>10 DEF Overwrite
<1>12. \/ n = 0 /\ vec'.leaf = vec.leaf
       \/ vec'.leaf = [x \in DOMAIN vec.leaf \cup DOMAIN CellsFrom(elems, z) |->
                         IF x \in DOMAIN CellsFrom(elems, z) THEN CellsFrom(elems, z)[x] ELSE vec.leaf[x]]
  BY <1>9 DEF Overwrite
<1>13. /\ \A x \in Nat : x < z => x \notin DOMAIN CellsFrom(elems, z)
       /\ \A k \in 1..n : /\ z + k - 1 \in DOMAIN CellsFrom(elems, z)
                          /\ CellsFrom(elems, z)[z + k - 1] = elems[k]
  <2>1. \A k \in 1..n : z + k - 1 \in {z + i - 1 : i \in 1..n} /\ (z + k - 1) - z + 1 = k
    BY <1>2, <1>4 DEF z
  <2>2. \A x \in Nat : x < z => x \notin {z + i - 1 : i \in 1..n}
    BY <1>2, <1>4 DEF z
  <2> QED BY <1>8, <2>1, <2>2
<1>14. /\ DOMAIN vec.leaf \subseteq DOMAIN vec'.leaf
       /\ \A x \in DOMAIN vec.leaf : x \in Nat /\ x < z => vec'.leaf[x] = vec.leaf[x]
       /\ \A k \in 1..n : z + k - 1 \in DOMAIN vec'.leaf /\ vec'.leaf[z + k - 1] = elems[k]
  BY <1>12, <1>13
<1> QED BY <1>7, <1>9, <1>10, <1>11, <1>14 DEF e, z


\* A list of depth one asks for the square of its length.
LEMMA SquareOnce ==
  ASSUME NEW t, Len(t.nest) = 1, NEW d, Len(d) \in Nat, Len(d) * Len(d) > MaxDatums
  PROVE  SquareTooLarge(d, t)
<1> DEFINE s == <<Len(d)>>
           B(g, k) == IF k = 0 THEN 1 ELSE g[k - 1] * s[k] * s[k]
           square == CHOOSE g : g = [k \in 0..1 |-> B(g, k)]
           once == [k \in 0..1 |-> IF k = 0 THEN 1 ELSE Len(d) * Len(d)]
<1>0. s[1] = Len(d) /\ s \in Shapes(d, 1)
  BY ListsOnce
<1> HIDE DEF s
<1>1. ASSUME NEW g, g = [k \in 0..1 |-> B(g, k)] PROVE g = once
  <2>1. g[0] = 1
    BY <1>1
  <2>2. g[1] = Len(d) * Len(d)
    BY <1>0, <1>1, <2>1
  <2> HIDE DEF B
  <2>3. g = [k \in 0..1 |-> g[k]]
    BY <1>1
  <2>4. \A k \in 0..1 : g[k] = IF k = 0 THEN 1 ELSE Len(d) * Len(d)
    BY <2>1, <2>2
  <2> QED BY <2>3, <2>4
<1>2. once = [k \in 0..1 |-> B(once, k)]
  <2>1. \A k \in 0..1 : once[k] = B(once, k)
    BY <1>0
  <2>2. once = [k \in 0..1 |-> once[k]]
    OBVIOUS
  <2> HIDE DEF B, once
  <2> QED BY <2>1, <2>2
<1>3. once[1] = Len(d) * Len(d)
  OBVIOUS
<1>4. square[1] > MaxDatums => SquareTooLarge(d, t)
  BY <1>0 DEF SquareTooLarge, Depth
<1> HIDE DEF B, once
<1>5. square = once
  BY <1>1, <1>2
<1> HIDE DEF square
<1> QED BY <1>3, <1>4, <1>5

\* A list that was inserted is refused only for the memory it asks for, and is
\* returned as the array it was made of.
LEMMA ListRowMet ==
  ASSUME ListInv, col # Null, NEW i \in 1..Len(duck)
  PROVE  /\ i \in 1..Len(rows) /\ duck[i] # Garbage
         /\ ListDatum(duck[i]) = Raised => SquareTooLarge(duck[i], dtype)
         /\ ListDatum(duck[i]) # Raised => ListDatum(duck[i]) = Expected(col, rows[i])
<1> DEFINE a == rows[i]
           d == CellsOf(a)
           n == Len(a.elems)
<1>1. /\ col \in PgColumns /\ IsFlat(col) /\ dtype = ConvertPostgresToDuckColumnType(col)
      /\ Len(dtype.nest) = 1 /\ dtype.nest # <<>> /\ count \in Nat
  BY DEF ListInv, ListColumnInv
<1>2. count = Len(rows) /\ duck = [j \in 1..count |-> ReadRow(j - 1)]
  <2>1. duck # <<>>
    OBVIOUS
  <2> QED BY <2>1 DEF ListInv, ListDuckInv
<1>3. i \in 1..count /\ duck[i] = ReadRow(i - 1)
  BY <1>1, <1>2
<1>4. CASE a = Null
  <2>1. duck[i] = Null /\ ListDatum(duck[i]) = Null
    BY <1>3, <1>4, ListRead DEF ListDatum
  <2>2. Expected(col, a) = Null
    BY <1>4 DEF Expected, ExpectedScalar
  <2> QED BY <1>2, <1>3, <2>1, <2>2, Special
<1>5. CASE a # Null
  <2>1. /\ duck[i] = d /\ d \in Lists /\ a \in ArrayValues(col.pg) /\ Len(a.dims) <= 1
        /\ \A k \in 1..n : ElementCell(col, a.elems[k]) # Raised
    BY <1>3, <1>5, ListRead
  <2>2. /\ a = [dims |-> a.dims, elems |-> a.elems]
        /\ a.elems \in Seq(ScalarValues(col.pg) \cup {Null})
        /\ Len(a.dims) \in Nat /\ n \in Nat /\ DOMAIN a.elems = 1..n
        /\ Len(a.dims) = 0 => a.dims = <<>> /\ a.elems = <<>>
        /\ Len(a.dims) = 1 => a.dims = <<n>> /\ n > 0
    BY <2>1, ArrayShape
  <2>3. Len(d) = n /\ \A k \in 1..n : d[k] = ElementCell(col, a.elems[k])
    BY <2>2 DEF CellsOf
  <2>4. col.array
    BY <1>1, FlatType
  <2> HIDE DEF a, d, n
  <2>5. \A k \in 1..n : /\ ElementDatum(d[k], dtype) = ExpectedScalar(col, a.elems[k])
                        /\ ElementDatum(d[k], dtype) \in AnyScalar \cup {Null}
    <3> SUFFICES ASSUME NEW k \in 1..n
                 PROVE  /\ ElementDatum(d[k], dtype) = ExpectedScalar(col, a.elems[k])
                        /\ ElementDatum(d[k], dtype) \in AnyScalar \cup {Null}
      OBVIOUS
    <3>1. a.elems[k] \in ScalarValues(col.pg) \cup {Null}
      BY <2>2
    <3> QED BY <1>1, <2>1, <2>3, <3>1, FlatElement
  <2>6. \A k \in 1..Len(d) : ElementDatum(d[k], dtype) # Raised /\ ElementDatum(d[k], dtype) \in AnyScalar \cup {Null}
    BY <2>3, <2>5, SpecialAssumption
  <2>7. /\ (ConvertDuckToPostgresValue(d, dtype) = Raised) <=> (n * n > MaxDatums)
        /\ ~(n * n > MaxDatums) => ConvertDuckToPostgresValue(d, dtype) = FlatArray(d, dtype)
    BY <1>1, <2>1, <2>3, <2>6, ListReturned
  <2>8. ListDatum(d) = ConvertDuckToPostgresValue(d, dtype) /\ d # Garbage
    BY <2>1, SpecialList DEF ListDatum
  <2>9. n * n > MaxDatums => SquareTooLarge(d, dtype)
    BY <1>1, <2>2, <2>3, SquareOnce
  <2>10. FlatArray(d, dtype) = Expected(col, a)
    <3> DEFINE es == [k \in 1..n |-> ExpectedScalar(col, a.elems[k])]
               m == Len(a.dims)
    <3>1. FlatArray(d, dtype) = [dims |-> IF n = 0 THEN <<>> ELSE <<n>>, elems |-> es]
      <4>1. [k \in 1..n |-> ElementDatum(d[k], dtype)] = es
        BY <2>5
      <4> QED BY <2>3, <4>1 DEF FlatArray
    <3>2. Expected(col, a) = [a EXCEPT !.elems = es]
      BY <1>5, <2>2, <2>4 DEF Expected, a
    <3> HIDE DEF es
    <3>3. Expected(col, a) = [dims |-> a.dims, elems |-> es]
      BY <2>2, <3>2
    <3>4. m = 0 \/ m = 1
      <4>1. m \in Nat /\ m <= 1
        BY <2>1, <2>2
      <4> HIDE DEF m
      <4> QED BY <4>1
    <3>5. a.dims = IF n = 0 THEN <<>> ELSE <<n>>
      <4>1. CASE m = 0
        <5>1. a.elems = <<>> /\ a.dims = <<>>
          BY <2>2, <4>1
        <5> QED BY <5>1 DEF n
      <4>2. CASE m = 1
        BY <2>2, <4>2
      <4> QED BY <3>4, <4>1, <4>2
    <3> QED BY <3>1, <3>3, <3>5
  <2> QED BY <1>2, <1>3, <2>1, <2>7, <2>8, <2>9, <2>10 DEF a
<1> QED BY <1>4, <1>5

\* A list of DuckDB is refused for its memory or for one of its elements, and
\* is returned as an array that stands for it.
LEMMA ListResultMet ==
  ASSUME ListInv, col = Null, Supported(dtype), NEW i \in 1..Len(duck)
  PROVE  /\ duck[i] # Garbage
         /\ ListDatum(duck[i]) # Raised => StandsFor(dtype, duck[i], ListDatum(duck[i]))
         /\ ListDatum(duck[i]) = Raised =>
              \/ SquareTooLarge(duck[i], dtype)
              \/ \E e \in Elements(duck[i], Depth(dtype)) \ {Null} : NoResultValue(dtype, e)
<1> DEFINE d == duck[i]
           n == Len(d)
           r == FlatArray(d, dtype)
<1>1. dtype \in DuckColumns /\ dtype.id \notin NumberIds /\ Len(dtype.nest) = 1 /\ dtype.nest # <<>>
  BY DEF ListInv, ListColumnInv, IsListType
<1>2. d \in Seq(DuckScalarValues(dtype.id) \cup {Null}) \cup {Null}
  BY DEF ListInv, ListDuckInv
<1> HIDE DEF d
<1>3. CASE d = Null
  BY <1>3, Special DEF ListDatum, StandsFor, ScalarStandsFor, d
<1>4. CASE d # Null
  <2>1. d \in Seq(DuckScalarValues(dtype.id) \cup {Null}) /\ n \in Nat /\ DOMAIN d = 1..n
    BY <1>2, <1>4
  <2>2. ASSUME NEW k \in 1..n
        PROVE  /\ d[k] \in AnyScalar \cup {Null}
               /\ ElementDatum(d[k], dtype) # Raised =>
                    /\ ElementDatum(d[k], dtype) \in AnyScalar \cup {Null}
                    /\ ScalarStandsFor(dtype, d[k], ElementDatum(d[k], dtype))
               /\ ElementDatum(d[k], dtype) = Raised => d[k] # Null /\ NoResultValue(dtype, d[k])
    <3>1. d[k] \in DuckScalarValues(dtype.id) \cup {Null}
      BY <2>1
    <3>2. CASE d[k] = Null
      BY <3>2, Special DEF ElementDatum, ScalarStandsFor
    <3>3. CASE d[k] # Null
      <4>1. d[k] \in DuckScalarValues(dtype.id)
        BY <3>1, <3>3
      <4>2. d[k] \in AnyScalar
        BY <4>1 DEF DuckScalarValues, AnyScalar
      <4>3. ElementDatum(d[k], dtype) = ToDatum(d[k], dtype)
        BY <3>3 DEF ElementDatum
      <4> QED BY <1>1, <3>3, <4>1, <4>2, <4>3, ScalarResult
    <3> QED BY <3>2, <3>3
  <2>3. d \in Lists
    BY <2>1, <2>2 DEF Lists
  <2>4. d # Garbage /\ ListDatum(d) = ConvertDuckToPostgresValue(d, dtype)
    BY <1>4, <2>3, SpecialList DEF ListDatum
  <2>5. /\ (ConvertDuckToPostgresValue(d, dtype) = Raised) <=>
             (n * n > MaxDatums \/ \E k \in 1..n : ElementDatum(d[k], dtype) = Raised)
        /\ ~(n * n > MaxDatums) /\ ~(\E k \in 1..n : ElementDatum(d[k], dtype) = Raised) =>
             ConvertDuckToPostgresValue(d, dtype) = r
    BY <1>1, <2>2, <2>3, ListReturned
  <2>6. n * n > MaxDatums => SquareTooLarge(d, dtype)
    BY <1>1, <2>1, SquareOnce
  <2>7. \A k \in 1..n : ElementDatum(d[k], dtype) = Raised =>
          \E e \in Elements(d, Depth(dtype)) \ {Null} : NoResultValue(dtype, e)
    <3>1. Elements(d, Depth(dtype)) = Range(d)
      BY <1>1, ListsOnce DEF Depth
    <3>2. \A k \in 1..n : d[k] \in Range(d)
      BY <2>1 DEF Range
    <3> QED BY <2>2, <3>1, <3>2
  <2>8. ASSUME \A k \in 1..n : ElementDatum(d[k], dtype) # Raised
        PROVE  StandsFor(dtype, d, r)
    <3>1. r.dims = (IF n = 0 THEN <<>> ELSE <<n>>) /\ r.elems = [k \in 1..n |-> ElementDatum(d[k], dtype)]
      BY DEF FlatArray
    <3> HIDE DEF r
    <3>2. CASE n = 0
      <4>1. NoElements(d, 1)
        <5> DEFINE s == <<n>>
        <5>1. Shapes(d, 1) = {s}
          BY ListsOnce
        <5>2. s[1] = 0
          BY <3>2
        <5> HIDE DEF s
        <5> QED BY <5>1, <5>2 DEF NoElements
      <4> QED BY <1>1, <1>4, <3>1, <3>2, <4>1 DEF StandsFor, ListStandsFor, Depth
    <3>3. CASE n # 0
      <4>1. r.dims = <<n>> /\ Len(r.dims) = 1 /\ r.dims # <<>> /\ DOMAIN r.elems = 1..n
        BY <3>1, <3>3
      <4>2. Elements(d, 1) = Range(d)
        BY ListsOnce
      <4>3. d \in [DOMAIN r.elems -> Elements(d, 1)]
        BY <2>1, <4>1, <4>2 DEF Range
      <4>4. NestOf(r.dims, d) = d
        BY <2>1, <4>1, NestOnce
      <4>5. \A k \in DOMAIN d : ScalarStandsFor(dtype, d[k], r.elems[k])
        BY <2>1, <2>2, <2>8, <3>1
      <4>6. ListStandsFor(dtype, d, r)
        BY <1>1, <4>1, <4>3, <4>4, <4>5 DEF ListStandsFor, Depth
      <4> QED BY <1>1, <1>4, <4>6 DEF StandsFor
    <3> QED BY <3>2, <3>3
  <2> QED BY <2>4, <2>5, <2>6, <2>7, <2>8 DEF d
<1> QED BY <1>3, <1>4

\* A step that leaves the vector alone.
LEMMA ListUnmoved ==
  ASSUME ListInv, UNCHANGED <<col, rows, dtype, vec, count, param>>
  PROVE  (stage' \in {"plan", "insert", "return", "done", "unsupported", "raised"} => ListColumnInv') /\ ListCellInv'
<1>1. stage' \in {"plan", "insert", "return", "done", "unsupported", "raised"} => ListColumnInv'
  BY DEF ListInv, ListColumnInv
<1>2. ListCellInv'
  BY DEF ListInv, ListCellInv, HasList, HasElements, Entries, Size
<1> QED BY <1>1, <1>2

\* PlanColumn only moves on.
LEMMA ListPlanColumn == ASSUME ListInv, PlanColumn PROVE ListInv'
<1>1. /\ stage = "plan" /\ stage' \in {"insert", "unsupported"}
      /\ UNCHANGED <<col, rows, dtype, vec, count, duck, out, param>>
  BY DEF PlanColumn
<1>2. ListColumnInv' /\ ListCellInv'
  BY <1>1, ListUnmoved
<1>3. ListDuckInv'
  BY <1>1 DEF ListInv, ListDuckInv, ReadRow
<1>4. ListOutInv'
  BY <1>1 DEF ListInv, ListOutInv, ListDatum
<1>5. RaisedForCause'
  BY <1>1 DEF RaisedForCause
<1> QED BY <1>2, <1>3, <1>4, <1>5 DEF ListInv

\* Finish only moves on.
LEMMA ListFinish == ASSUME ListInv, Finish PROVE ListInv'
<1>1. /\ stage = "return" /\ stage' = "done"
      /\ UNCHANGED <<col, rows, dtype, vec, count, duck, out, param>>
  BY DEF Finish
<1>2. ListColumnInv' /\ ListCellInv'
  BY <1>1, ListUnmoved
<1>3. ListDuckInv'
  BY <1>1 DEF ListInv, ListDuckInv, ReadRow
<1>4. ListOutInv'
  BY <1>1 DEF ListInv, ListOutInv, ListDatum
<1>5. RaisedForCause'
  BY <1>1 DEF RaisedForCause
<1> QED BY <1>2, <1>3, <1>4, <1>5 DEF ListInv

\* Execute hands over what every row reads as.
LEMMA ListExecute == ASSUME ListInv, Execute PROVE ListInv'
<1>1. /\ stage = "insert" /\ stage' = "return" /\ count = Len(rows)
      /\ duck' = [i \in 1..count |-> ReadRow(i - 1)]
      /\ UNCHANGED <<col, rows, dtype, vec, count, out, param>>
  BY DEF Execute
<1>2. ListColumnInv' /\ ListCellInv'
  BY <1>1, ListUnmoved
<1>3. col # Null
  BY <1>1 DEF ListInv, ListDuckInv
<1>4. ListDuckInv'
  <2>1. duck' = [i \in 1..count' |-> ReadRow(i - 1)']
    BY <1>1 DEF ReadRow
  <2> QED BY <1>1, <1>3, <2>1 DEF ListDuckInv
<1>5. ListOutInv'
  <2>1. count \in Nat
    BY DEF ListInv, ListColumnInv
  <2>2. Len(duck') \in Nat
    BY <1>1, <2>1
  <2>3. out' = <<>>
    BY <1>1 DEF ListInv, ListOutInv
  <2> QED BY <1>1, <2>2, <2>3 DEF ListOutInv
<1>6. RaisedForCause'
  BY <1>1 DEF RaisedForCause
<1> QED BY <1>2, <1>4, <1>5, <1>6 DEF ListInv

\* A row that was inserted keeps its list.
LEMMA ListKept ==
  ASSUME NEW i \in Nat, HasList(i), rows' = rows, col' = col, Size \in Nat, Size' \in Nat, Size <= Size',
         Len(rows[i].elems) \in Nat,
         DOMAIN Entries \subseteq DOMAIN Entries', Entries'[i - 1] = Entries[i - 1],
         DOMAIN vec.leaf \subseteq DOMAIN vec'.leaf,
         \A x \in DOMAIN vec.leaf : x \in Nat /\ x < Size => vec'.leaf[x] = vec.leaf[x]
  PROVE  HasList(i)'
<1> DEFINE a == rows[i]
           e == Entries[i - 1]
<1>1. /\ Len(a.dims) <= 1 /\ i - 1 \in DOMAIN Entries /\ e.at \in Nat /\ e.len = Len(a.elems)
      /\ e.at + e.len <= Size
      /\ \A k \in 1..Len(a.elems) :
           /\ ElementCell(col, a.elems[k]) # Raised
           /\ e.at + k - 1 \in DOMAIN vec.leaf
           /\ vec.leaf[e.at + k - 1] = ElementCell(col, a.elems[k])
  BY DEF HasList, HasElements
<1>2. Entries'[i - 1] = e /\ i - 1 \in DOMAIN Entries' /\ rows'[i] = a
  BY <1>1
<1> HIDE DEF a, e
<1>3. e.at + e.len <= Size'
  <2>1. Len(a.elems) \in Nat
    BY DEF a
  <2> QED BY <1>1, <2>1
<1>4. ASSUME NEW k \in 1..Len(a.elems)
      PROVE  /\ e.at + k - 1 \in DOMAIN vec'.leaf
             /\ vec'.leaf[e.at + k - 1] = ElementCell(col, a.elems[k])
  <2>1. Len(a.elems) \in Nat
    BY DEF a
  <2>2. e.at + k - 1 \in Nat /\ e.at + k - 1 < Size
    BY <1>1, <2>1
  <2> QED BY <1>1, <2>2
<1> QED BY <1>1, <1>2, <1>3, <1>4 DEF HasList, HasElements

\* InsertTuple writes the list of the next row, marks it, or raises for a cause.
LEMMA ListInsertTuple == ASSUME ListInv, InsertTuple PROVE ListInv'
<1> DEFINE v == rows[count + 1]
<1>1. /\ stage = "insert" /\ count < Len(rows)
      /\ UNCHANGED <<col, rows, dtype, duck, out, param>>
  BY DEF InsertTuple
<1>2. /\ col # Null /\ col \in PgColumns /\ IsFlat(col) /\ duck = <<>> /\ out = <<>>
      /\ dtype = ConvertPostgresToDuckColumnType(col)
      /\ rows \in Seq(ArrayValues(col.pg) \cup {Null}) /\ count \in Nat
      /\ Len(dtype.nest) = 1
  BY <1>1 DEF ListInv, ListColumnInv, ListDuckInv, ListOutInv
<1>3. v \in ArrayValues(col.pg) \cup {Null}
  BY <1>1, <1>2
<1>4. col.array
  BY <1>2, FlatType
<1>5. vec = [lists |-> <<[entry |-> Entries, size |-> Size]>>, leaf |-> vec.leaf, invalid |-> vec.invalid]
  BY <1>2 DEF ListInv, ListCellInv
<1>6. Len(vec.lists) = 1
  BY <1>5
<1> HIDE DEF v
<1>7. CASE Cannot(col, dtype, v)
  <2>1. stage' = "raised" /\ UNCHANGED <<vec, count>>
    BY <1>7 DEF InsertTuple, v
  <2>2. ListColumnInv' /\ ListCellInv'
    BY <1>1, <2>1, ListUnmoved
  <2>3. ListDuckInv' /\ ListOutInv'
    BY <1>1, <1>2, <2>1 DEF ListDuckInv, ListOutInv
  <2>4. /\ v # Null
        /\ ~DimensionsMatch(vec, v) \/ \E e \in Range(v.elems) : ElementCell(col, e) = Raised
    BY <1>2, <1>4, <1>7 DEF Cannot, ElementCell
  <2>5. /\ v.elems \in Seq(ScalarValues(col.pg) \cup {Null}) /\ Len(v.dims) \in Nat
        /\ Len(v.dims) = 0 => v.dims = <<>>
        /\ v.dims = <<>> => Len(v.dims) = 0
    BY <1>3, <2>4, ArrayShape
  <2>6. ~DimensionsMatch(vec, v) => Len(v.dims) # 1 /\ v.dims # <<>>
    BY <1>6, <2>5 DEF DimensionsMatch
  <2>7. \A e \in Range(v.elems) : ElementCell(col, e) = Raised => e # Null /\ NoRowValue(dtype, e)
    <3>1. Range(v.elems) \subseteq ScalarValues(col.pg) \cup {Null}
      BY <2>5 DEF Range
    <3> QED BY <1>2, <3>1, FlatElement
  <2>8. \/ Len(v.dims) # Depth(dtype) /\ v.dims # <<>>
        \/ \E e \in Range(v.elems) \ {Null} : NoRowValue(dtype, e)
    BY <1>2, <2>4, <2>6, <2>7 DEF Depth
  <2>9. CausedRowError'
    BY <1>1, <1>4, <2>1, <2>8 DEF CausedRowError, v
  <2>10. RaisedForCause'
    BY <1>1, <1>2, <2>9 DEF RaisedForCause
  <2> QED BY <2>2, <2>3, <2>10 DEF ListInv
<1>8. CASE ~Cannot(col, dtype, v)
  <2>1. /\ stage' = "insert" /\ count' = count + 1
        /\ vec' = InsertRow(vec, col, dtype, v, count)
    BY <1>1, <1>8 DEF InsertTuple, v
  <2>2. ListColumnInv'
    BY <1>1, <1>2, <2>1 DEF ListInv, ListColumnInv
  <2>3. ListDuckInv' /\ ListOutInv' /\ RaisedForCause'
    BY <1>1, <1>2, <2>1 DEF ListDuckInv, ListOutInv, RaisedForCause
  <2>4. ListCellInv'
    <3>1. 1..count' = (1..count) \cup {count + 1}
      BY <1>2, <2>1
    <3>2. /\ Size \in Nat
          /\ vec.invalid \subseteq 0..(count - 1)
          /\ \A i \in 1..count :
               /\ (rows[i] = Null) <=> (i - 1 \in vec.invalid)
               /\ rows[i] # Null => HasList(i)
      BY <1>2 DEF ListInv, ListCellInv
    <3>3. count \notin vec.invalid
      BY <1>2, <3>2
    <3>4. \A i \in 1..count : rows[i] # Null => Len(rows[i].elems) \in Nat
      <4> SUFFICES ASSUME NEW i \in 1..count, rows[i] # Null PROVE Len(rows[i].elems) \in Nat
        OBVIOUS
      <4>1. rows[i] \in ArrayValues(col.pg)
        BY <1>1, <1>2
      <4> QED BY <4>1, ArrayShape
    <3>5. CASE v = Null
      <4>1. vec' = [lists |-> vec.lists, leaf |-> vec.leaf, invalid |-> vec.invalid \cup {count}]
        BY <1>5, <2>1, <3>5 DEF InsertRow
      <4>2. vec'.lists = vec.lists /\ vec'.leaf = vec.leaf /\ vec'.invalid = vec.invalid \cup {count}
        BY <4>1
      <4>3. Entries' = Entries /\ Size' = Size
        BY <4>2 DEF Entries, Size
      <4>4. vec' = [lists |-> <<[entry |-> Entries', size |-> Size']>>, leaf |-> vec'.leaf, invalid |-> vec'.invalid]
        <5>1. vec.lists = <<[entry |-> Entries, size |-> Size]>>
          BY <1>5
        <5> QED BY <4>1, <4>2, <4>3, <5>1
      <4>5. vec'.invalid \subseteq 0..(count' - 1)
        BY <1>2, <2>1, <3>2, <4>2
      <4>6. ASSUME NEW i \in 1..count'
            PROVE  ((rows[i] = Null) <=> (i - 1 \in vec'.invalid)) /\ (rows[i] # Null => HasList(i)')
        <5>1. CASE i = count + 1
          BY <1>2, <3>5, <4>2, <5>1 DEF v
        <5>2. CASE i \in 1..count
          <6>1. i - 1 # count
            BY <1>2, <5>2
          <6>2. rows[i] # Null => HasList(i)'
            BY <1>1, <3>2, <4>2, <4>3, <5>2 DEF HasList, HasElements
          <6> QED BY <3>2, <4>2, <5>2, <6>1, <6>2
        <5> QED BY <3>1, <5>1, <5>2
      <4> QED BY <1>1, <3>2, <4>3, <4>4, <4>5, <4>6 DEF ListCellInv
    <3>6. CASE v # Null
      <4> DEFINE n == Len(v.elems)
      <4>1. v \in ArrayValues(col.pg)
        BY <1>3, <3>6
      <4>2. /\ DimensionsMatch(vec, v)
            /\ \A e \in Range(v.elems) : ElementCell(col, e) # Raised
        BY <1>2, <1>4, <1>8, <3>6 DEF Cannot, ElementCell
      <4>3. /\ Len(v.dims) \in {0, 1} /\ n \in Nat /\ DOMAIN v.elems = 1..n
        BY <1>6, <4>1, <4>2, ArrayShape DEF DimensionsMatch
      <4>4. Len(v.dims) <= 1
        <5> DEFINE m == Len(v.dims)
        <5>1. m \in {0, 1}
          BY <4>3
        <5> HIDE DEF m
        <5>2. m <= 1
          BY <5>1
        <5> QED BY <5>2 DEF m
      <4>5. /\ vec' = [lists |-> <<[entry |-> Entries', size |-> Size']>>, leaf |-> vec'.leaf, invalid |-> vec.invalid]
            /\ Size' = Size + n
            /\ DOMAIN Entries' = DOMAIN Entries \cup {count}
            /\ \A i \in DOMAIN Entries : i # count => Entries'[i] = Entries[i]
            /\ Entries'[count].at = Size /\ Entries'[count].len = n
            /\ DOMAIN vec.leaf \subseteq DOMAIN vec'.leaf
            /\ \A x \in DOMAIN vec.leaf : x \in Nat /\ x < Size => vec'.leaf[x] = vec.leaf[x]
            /\ \A k \in 1..n : /\ Size + k - 1 \in DOMAIN vec'.leaf
                               /\ vec'.leaf[Size + k - 1] = ElementCell(col, v.elems[k])
        BY <1>2, <2>1, <4>1, <4>4, WrittenList
      <4>6. vec'.invalid = vec.invalid
        BY <4>5
      <4>7. vec' = [lists |-> <<[entry |-> Entries', size |-> Size']>>, leaf |-> vec'.leaf, invalid |-> vec'.invalid]
        BY <4>5, <4>6
      <4>8. Size' \in Nat /\ Size <= Size' /\ Size + n <= Size'
        BY <3>2, <4>3, <4>5
      <4>9. vec'.invalid \subseteq 0..(count' - 1)
        BY <1>2, <2>1, <3>2, <4>6
      <4>10. ASSUME NEW i \in 1..count'
             PROVE  ((rows[i] = Null) <=> (i - 1 \in vec'.invalid)) /\ (rows[i] # Null => HasList(i)')
        <5>1. CASE i = count + 1
          <6>1. i - 1 = count /\ rows[i] = v /\ rows'[i] = v
            BY <1>1, <1>2, <5>1 DEF v
          <6>2. HasList(i)'
            <7>1. \A k \in 1..n : ElementCell(col, v.elems[k]) # Raised
              BY <4>2, <4>3 DEF Range
            <7>2. /\ count \in DOMAIN Entries' /\ Entries'[count].at = Size /\ Entries'[count].len = n
                  /\ Size + n <= Size'
              BY <4>5, <4>8
            <7>3. HasElements(rows[i], Entries[i - 1].at)'
              BY <1>1, <4>5, <6>1, <7>1, <7>2 DEF HasElements
            <7> QED BY <3>2, <4>4, <6>1, <7>2, <7>3 DEF HasList
          <6> QED BY <3>3, <3>6, <4>6, <6>1, <6>2
        <5>2. CASE i \in 1..count
          <6>1. i - 1 # count /\ i \in Nat
            BY <1>2, <5>2
          <6>2. ASSUME rows[i] # Null PROVE HasList(i)'
            <7>1. HasList(i) /\ Len(rows[i].elems) \in Nat
              BY <3>2, <3>4, <5>2, <6>2
            <7>2. i - 1 \in DOMAIN Entries
              BY <7>1 DEF HasList
            <7>3. Entries'[i - 1] = Entries[i - 1] /\ DOMAIN Entries \subseteq DOMAIN Entries'
              BY <4>5, <6>1, <7>2
            <7> QED BY <1>1, <3>2, <4>5, <4>8, <6>1, <7>1, <7>3, ListKept
          <6> QED BY <3>2, <4>6, <5>2, <6>1, <6>2
        <5> QED BY <3>1, <5>1, <5>2
      <4> QED BY <1>1, <4>7, <4>8, <4>9, <4>10 DEF ListCellInv
    <3> QED BY <3>5, <3>6
  <2> QED BY <2>2, <2>3, <2>4 DEF ListInv
<1> QED BY <1>7, <1>8

\* ReturnValue appends the array of the next list, or raises for a cause.
LEMMA ListReturnValue == ASSUME ListInv, ReturnValue PROVE ListInv'
<1> DEFINE n == Len(out) + 1
           d == duck[n]
<1>1. /\ stage = "return" /\ Len(out) < Len(duck)
      /\ UNCHANGED <<col, rows, dtype, vec, count, duck, param>>
  BY DEF ReturnValue
<1>2. dtype.nest # <<>> /\ Len(duck) \in Nat /\ Len(out) \in Nat
  BY DEF ListInv, ListColumnInv, ListOutInv
<1>3. n \in 1..Len(duck)
  BY <1>1, <1>2
<1>4. \/ stage' = "unsupported" /\ out' = out
      \/ stage' = "raised" /\ out' = out /\ ListDatum(d) = Raised /\ Supported(dtype)
      \/ stage' = stage /\ out' = out \o <<ListDatum(d)>> /\ ListDatum(d) # Raised /\ Supported(dtype)
  BY DEF ReturnValue, ListDatum, Supported
<1>5. stage' \in {"return", "unsupported", "raised"}
  BY <1>1, <1>4
<1>6. ListColumnInv' /\ ListCellInv'
  BY <1>1, <1>5, ListUnmoved
<1>7. ListDuckInv'
  BY <1>1, <1>5 DEF ListInv, ListDuckInv, ReadRow
<1>8. ListOutInv'
  <2> DEFINE S == {ListDatum(duck[i]) : i \in 1..Len(duck)}
  <2>1. S' = S /\ duck' = duck /\ dtype' = dtype
    BY <1>1 DEF ListDatum
  <2>2. /\ out \in Seq(S) /\ \A i \in 1..Len(out) : out[i] = ListDatum(duck[i]) /\ out[i] # Raised
        /\ Len(out) <= Len(duck) /\ (out # <<>> => Supported(dtype))
    BY DEF ListInv, ListOutInv
  <2>3. ListDatum(d) \in S
    BY <1>3
  <2> HIDE DEF S
  <2>4. CASE out' = out
    BY <1>2, <1>5, <2>1, <2>2, <2>4 DEF ListOutInv, S, ListDatum
  <2>5. CASE out' = out \o <<ListDatum(d)>> /\ ListDatum(d) # Raised /\ Supported(dtype)
    <3>1. out' \in Seq(S) /\ Len(out') = n
      BY <2>2, <2>3, <2>5
    <3>2. \A i \in 1..n : out'[i] = ListDatum(duck[i]) /\ out'[i] # Raised
      <4>1. \A i \in 1..Len(out) : out'[i] = out[i]
        BY <2>2, <2>3, <2>5
      <4>2. out'[n] = ListDatum(d)
        BY <2>2, <2>3, <2>5
      <4> QED BY <1>2, <2>2, <2>5, <4>1, <4>2
    <3>3. Supported(dtype)'
      BY <2>1, <2>5
    <3> QED BY <1>2, <1>3, <1>5, <2>1, <3>1, <3>2, <3>3 DEF ListOutInv, S, ListDatum
  <2> QED BY <1>4, <2>4, <2>5
<1>9. RaisedForCause'
  <2> SUFFICES ASSUME stage' = "raised" PROVE duck' # <<>> /\ CausedResultError'
    BY DEF RaisedForCause
  <2>1. ListDatum(d) = Raised /\ out' = out /\ Supported(dtype)
    BY <1>1, <1>4
  <2>2. \/ SquareTooLarge(d, dtype)
        \/ \E e \in Elements(d, Depth(dtype)) \ {Null} : NoResultValue(dtype, e)
    BY <1>3, <2>1, ListRowMet, ListResultMet
  <2>3. duck # <<>>
    BY <1>3
  <2>4. CausedResultError
    BY <1>2, <2>2 DEF CausedResultError
  <2>5. CausedResultError' <=> CausedResultError
    BY <1>1, <2>1 DEF CausedResultError
  <2> QED BY <1>1, <2>3, <2>4, <2>5
<1> QED BY <1>6, <1>7, <1>8, <1>9 DEF ListInv

\* Every step keeps the invariant of an array column; no parameter is an array.
LEMMA NextFlatInv == FlatInv /\ [Next]_vars => FlatInv'
<1> SUFFICES ASSUME FlatInv, [Next]_vars, Flat' PROVE ListInv'
  BY DEF FlatInv
<1>1. col' = col /\ dtype' = dtype
  BY DEF Next, vars, PlanColumn, InsertTuple, BindParameter, Execute, ReturnValue, Finish
<1>2. Flat
  BY <1>1 DEF Flat
<1>3. ListInv
  BY <1>2 DEF FlatInv
<1>4. CASE PlanColumn
  BY <1>3, <1>4, ListPlanColumn
<1>5. CASE InsertTuple
  BY <1>3, <1>5, ListInsertTuple
<1>6. CASE BindParameter
  <2>1. col # Null
    BY <1>3, <1>6 DEF BindParameter, ListInv, ListDuckInv
  <2>2. col.array
    BY <1>2, <2>1 DEF Flat, IsFlat, IsArray
  <2> QED BY <1>6, <2>2 DEF BindParameter
<1>7. CASE Execute
  BY <1>3, <1>7, ListExecute
<1>8. CASE ReturnValue
  BY <1>3, <1>8, ListReturnValue
<1>9. CASE Finish
  BY <1>3, <1>9, ListFinish
<1>10. CASE UNCHANGED vars
  <2>1. UNCHANGED <<stage, col, rows, dtype, vec, count, duck, out, param>>
    BY <1>10 DEF vars
  <2>2. ListColumnInv' /\ ListCellInv'
    BY <1>3, <2>1, ListUnmoved DEF ListInv, ListColumnInv
  <2>3. ListDuckInv'
    BY <1>3, <2>1 DEF ListInv, ListDuckInv, ReadRow
  <2>4. ListOutInv'
    BY <1>3, <2>1 DEF ListInv, ListOutInv, ListDatum
  <2>5. RaisedForCause'
    BY <1>3, <2>1 DEF ListInv, RaisedForCause, CausedRowError, CausedResultError
  <2> QED BY <2>2, <2>3, <2>4, <2>5 DEF ListInv
<1> QED BY <1>4, <1>5, <1>6, <1>7, <1>8, <1>9, <1>10 DEF Next

\* The invariant of the journey of an array column.
LEMMA FlatInvariant == Spec => []FlatInv
BY InitFlatInv, NextFlatInv, PTL DEF Spec

-----------------------------------------------------------------------------
(* Results *)

\* Types of a scalar and of an array column; every cell that is read was
\* written, except those of a "char" (Append with a value wider than the cell).
THEOREM ColumnTypes == Spec => [](Scalar \/ Flat => TypeOK)
<1>1. ASSUME ScalarInv, Scalar PROVE TypeOK
  <2>1. IInv
    BY <1>1 DEF ScalarInv
  <2>2. ASSUME NEW i \in 1..Len(duck), duck[i] = Garbage PROVE col.pg = "char"
    BY <2>1, <2>2, RowMet, ResultMet
  <2> QED BY <2>1, <2>2 DEF TypeOK, IInv, ColumnInv, OutInv
<1>2. ASSUME FlatInv, Flat PROVE TypeOK
  <2>1. ListInv
    BY <1>2 DEF FlatInv
  <2>2. ASSUME NEW i \in 1..Len(duck) PROVE duck[i] # Garbage
    <3>1. CASE col = Null
      <4>1. duck[i] \in Seq(DuckScalarValues(dtype.id) \cup {Null}) \cup {Null}
        BY <2>1, <3>1 DEF ListInv, ListDuckInv
      <4>2. DuckScalarValues(dtype.id) \subseteq AnyScalar
        BY DEF DuckScalarValues, AnyScalar
      <4>3. duck[i] \in Lists \cup {Null}
        BY <4>1, <4>2 DEF Lists
      <4> QED BY <4>3, SpecialList, Special
    <3>2. CASE col # Null
      BY <2>1, <3>2, ListRowMet
    <3> QED BY <3>1, <3>2
  <2> QED BY <2>1, <2>2 DEF TypeOK, ListInv, ListColumnInv, ListOutInv
<1> QED BY <1>1, <1>2, ScalarInvariant, FlatInvariant, PTL

\* Every row of a scalar column, and every array of one dimension, comes back as
\* it was, however many rows are before and after it
\* (ConvertPostgresToDuckValue, ConvertDuckToPostgresValue).
THEOREM RowsComeBack == Spec => [](Scalar \/ Flat => RowsPreserved)
<1>1. ASSUME ScalarInv, Scalar PROVE RowsPreserved
  <2>1. IInv
    BY <1>1 DEF ScalarInv
  <2>2. ASSUME col # Null, NEW i \in 1..Len(out)
        PROVE  out[i] = Expected(col, rows[i]) \/ KnownLoss(col, dtype, rows[i], i)
    <3>1. i \in 1..Len(duck) /\ out[i] = Datum(duck[i])
      BY <2>1 DEF IInv, OutInv
    <3> QED BY <2>1, <2>2, <3>1, RowMet
  <2> QED BY <2>2 DEF RowsPreserved
<1>2. ASSUME FlatInv, Flat PROVE RowsPreserved
  <2>1. ListInv
    BY <1>2 DEF FlatInv
  <2>2. ASSUME col # Null, NEW i \in 1..Len(out) PROVE out[i] = Expected(col, rows[i])
    <3>1. i \in 1..Len(duck) /\ out[i] = ListDatum(duck[i]) /\ out[i] # Raised
      BY <2>1 DEF ListInv, ListOutInv
    <3> QED BY <2>1, <2>2, <3>1, ListRowMet
  <2> QED BY <2>2 DEF RowsPreserved
<1> QED BY <1>1, <1>2, ScalarInvariant, FlatInvariant, PTL

\* What DuckDB computes in a scalar type, or in a list of one, is returned as a
\* value that stands for it (ConvertDuckToPostgresValue).
THEOREM ResultsStand == Spec => [](Scalar \/ Flat => ResultsFaithful)
<1>1. ASSUME ScalarInv, Scalar PROVE ResultsFaithful
  <2>1. IInv
    BY <1>1 DEF ScalarInv
  <2>2. ASSUME col = Null, NEW i \in 1..Len(out) PROVE StandsFor(dtype, duck[i], out[i])
    <3>1. i \in 1..Len(duck) /\ out[i] = Datum(duck[i])
      BY <2>1 DEF IInv, OutInv
    <3>2. Datum(duck[i]) # Raised
      BY <2>1, <3>1 DEF IInv, OutInv
    <3> QED BY <2>1, <2>2, <3>1, <3>2, ResultMet
  <2> QED BY <2>2 DEF ResultsFaithful
<1>2. ASSUME FlatInv, Flat PROVE ResultsFaithful
  <2>1. ListInv
    BY <1>2 DEF FlatInv
  <2>2. ASSUME col = Null, NEW i \in 1..Len(out) PROVE StandsFor(dtype, duck[i], out[i])
    <3>1. i \in 1..Len(duck) /\ out[i] = ListDatum(duck[i]) /\ out[i] # Raised
      BY <2>1 DEF ListInv, ListOutInv
    <3>2. Supported(dtype)
      BY <2>1 DEF ListInv, ListOutInv
    <3> QED BY <2>1, <2>2, <3>1, <3>2, ListResultMet
  <2> QED BY <2>2 DEF ResultsFaithful
<1> QED BY <1>1, <1>2, ScalarInvariant, FlatInvariant, PTL

\* A value is refused only for a cause (the range checks of AppendTimestamp,
\* ConvertDateDatum and ConvertTimestampDatum; for an array also its dimensions
\* and the memory that AppendValueAtDimension asks for).
THEOREM RaisesHaveCause == Spec => [](Scalar \/ Flat => RaisedForCause)
<1>1. ScalarInv /\ Scalar => RaisedForCause
  BY DEF ScalarInv, IInv
<1>2. FlatInv /\ Flat => RaisedForCause
  BY DEF FlatInv, ListInv
<1> QED BY <1>1, <1>2, ScalarInvariant, FlatInvariant, PTL

\* The cells of two rows compare as the rows do.
LEMMA CellOrder ==
  ASSUME NEW c \in PgColumns, IsScalar(c), c.pg \in Ordered,
         NEW v \in ScalarValues(c.pg), NEW w \in ScalarValues(c.pg),
         Cell(c, v) # Raised, Cell(c, w) # Raised
  PROVE  IF c.pg = "uuid"
         THEN (Hugeint(Cell(c, v)) < Hugeint(Cell(c, w))) <=> (v[1] < w[1] \/ (v[1] = w[1] /\ v[2] < w[2]))
         ELSE (Cell(c, v) < Cell(c, w)) <=> (v < w)
<1>1. CASE c.pg = "date"
  <2>1. v \in PgDates /\ w \in PgDates
    BY <1>1 DEF ScalarValues
  <2> QED BY <1>1, <2>1, DateCell, ScalarIsPlain, DateOrder
<1>2. CASE c.pg \in Timestamps
  <2>1. v \in PgTimestamps /\ w \in PgTimestamps
    BY <1>2 DEF ScalarValues, Timestamps
  <2>2. Cell(c, v) = AppendTimestamp(v) /\ Cell(c, w) = AppendTimestamp(w)
    BY <1>2, <2>1, TimestampCell, ScalarIsPlain
  <2> QED BY <1>2, <2>1, <2>2, TimestampOrder DEF Timestamps
<1>3. CASE c.pg = "uuid"
  <2>1. v \in UUIDs /\ w \in UUIDs
    BY <1>3 DEF ScalarValues
  <2> QED BY <1>3, <2>1, UUIDCell, ScalarIsPlain, UUIDOrder
<1>4. CASE c.pg = "int4"
  <2>1. v \in Int /\ w \in Int /\ Copied(c.pg)
    BY <1>4 DEF ScalarValues, Copied, Texts, Timestamps, Nested
  <2> QED BY <1>4, <2>1, CopiedCell, ScalarIsPlain
<1> QED BY <1>1, <1>2, <1>3, <1>4 DEF Ordered, IsScalar, Timestamps

\* DuckDB sorts and filters the rows of a scalar column as Postgres would (the
\* Append functions).
THEOREM RowsKeepOrder == Spec => [](Scalar => OrderPreserved)
<1>1. ASSUME ScalarInv, Scalar PROVE OrderPreserved
  <2>1. IInv
    BY <1>1 DEF ScalarInv
  <2> SUFFICES ASSUME stage = "insert", col.pg \in Ordered, NEW i \in 1..count, NEW j \in 1..count,
                      rows[i] # Null, rows[j] # Null
               PROVE  DuckLess(ReadRow(i - 1), ReadRow(j - 1)) <=> PgLess(rows[i], rows[j])
    BY DEF OrderPreserved
  <2>2. col # Null /\ col \in PgColumns /\ IsScalar(col)
    BY <2>1 DEF IInv, DuckInv, ColumnInv
  <2>3. col.pg # "char"
    BY DEF Ordered
  <2>4. \A k \in {i, j} : rows[k] \in ScalarValues(col.pg) /\ ReadRow(k - 1) = Cell(col, rows[k])
    BY <2>1, <2>2, <2>3, RowRead
  <2>5. \A k \in {i, j} : Cell(col, rows[k]) # Raised
    BY <2>1, <2>2 DEF IInv, CellInv
  <2> QED BY <2>2, <2>4, <2>5, CellOrder DEF DuckLess, PgLess
<1> QED BY <1>1, ScalarInvariant, PTL

\* A parameter equals the cells of the rows that it equals itself.
LEMMA CellParameter ==
  ASSUME NEW c \in PgColumns, IsScalar(c), c.pg \in ParameterTypes, ~DomainLoss(c),
         NEW p \in ScalarValues(c.pg), NEW v \in ScalarValues(c.pg),
         ~KnownParameter(c.pg, p), Cell(c, v) # Raised
  PROVE  (ConvertPostgresParameterToDuckValue(c.pg, p) = Cell(c, v)) <=> PgEqual(c.pg, p, v)
<1> DEFINE q == ConvertPostgresParameterToDuckValue(c.pg, p)
<1>1. CASE c.pg = "date"
  <2>1. p \in PgDates /\ v \in PgDates
    BY <1>1 DEF ScalarValues
  <2>2. q = ParameterDate(p) /\ Cell(c, v) = AppendDate(v)
    BY <1>1, <2>1, DateCell, ScalarIsPlain DEF ConvertPostgresParameterToDuckValue
  <2>3. p \notin {DATEVAL_NOBEGIN, DATEVAL_NOEND}
    BY <1>1 DEF KnownParameter
  <2> HIDE DEF q
  <2>4. (q = Cell(c, v)) <=> (p = v)
    BY <2>1, <2>2, <2>3, DateParameterAgrees
  <2> QED BY <1>1, <2>4 DEF PgEqual, q
<1>2. CASE c.pg \in Timestamps
  <2>1. p \in PgTimestamps /\ v \in PgTimestamps
    BY <1>2 DEF ScalarValues, Timestamps
  <2>2. q = ParameterTimestamp(p) /\ Cell(c, v) = AppendTimestamp(v)
    BY <1>2, <2>1, TimestampCell, ScalarIsPlain DEF ConvertPostgresParameterToDuckValue, Timestamps
  <2>3. p \notin {DT_NOBEGIN, DT_NOEND} /\ ParameterTimestamp(p) \notin {DuckTsNinfinity, DuckTsInfinity}
    BY <1>2 DEF KnownParameter, Timestamps
  <2> HIDE DEF q
  <2>4. (q = Cell(c, v)) <=> (p = v)
    BY <2>1, <2>2, <2>3, TimestampParameterAgrees
  <2> QED BY <1>2, <2>4 DEF PgEqual, Timestamps, q
<1>3. CASE c.pg = "timetz"
  <2>1. p \in PgTimeTz /\ v \in PgTimeTz
    BY <1>3 DEF ScalarValues
  <2>2. q = DatumGetTimeTz(p) /\ Cell(c, v) = DatumGetTimeTz(v)
    BY <1>3, <2>1, TimeTzCell, ScalarIsPlain DEF ConvertPostgresParameterToDuckValue
  <2> HIDE DEF q
  <2>3. \A x \in PgTimeTz : ConvertTimeTzDatum(DatumGetTimeTz(x)) = x
    BY DEF DatumGetTimeTz, ConvertTimeTzDatum, PgTimeTz
  <2>4. (q = Cell(c, v)) <=> (p = v)
    BY <2>1, <2>2, <2>3
  <2> QED BY <1>3, <2>4 DEF PgEqual, q
<1>4. CASE c.pg = "uuid"
  <2>1. p \in UUIDs /\ v \in UUIDs
    BY <1>4 DEF ScalarValues
  <2>2. q = DatumGetUUID(p) /\ Cell(c, v) = DatumGetUUID(v)
    BY <1>4, <2>1, UUIDCell, ScalarIsPlain DEF ConvertPostgresParameterToDuckValue
  <2> HIDE DEF q
  <2>3. (q = Cell(c, v)) <=> (p = v)
    BY <2>1, <2>2, UUIDRoundTrip
  <2> QED BY <1>4, <2>3 DEF PgEqual, q
<1>5. CASE c.pg \in Texts
  <2>1. c.pg # "jsonb"
    BY DEF ParameterTypes
  <2>2. p \in Text("txt") /\ v \in Text("txt")
    BY <1>5, <2>1 DEF ScalarValues, Texts
  <2>3. q = p
    BY <1>5 DEF ConvertPostgresParameterToDuckValue, Texts
  <2>4. Cell(c, v) = ExpectedScalar(c, v)
    BY <1>5, TextCell, ScalarIsPlain
  <2>5. v # Null
    BY <2>2, Special
  <2> HIDE DEF q
  <2>6. CASE c.pg = "bpchar"
    <3>1. Cell(c, v) = [v EXCEPT !.pad = 0]
      BY <2>4, <2>5, <2>6 DEF ExpectedScalar
    <3>2. p.pad = 0
      <4>1. ~(p.pad > 0)
        BY <2>6 DEF KnownParameter
      <4> QED BY <2>2, <4>1 DEF Text
    <3>3. (p = [v EXCEPT !.pad = 0]) <=> (p.body = v.body)
      BY <2>2, <3>2 DEF Text
    <3> QED BY <2>3, <2>6, <3>1, <3>3 DEF PgEqual, q
  <2>7. CASE c.pg # "bpchar"
    <3>1. Cell(c, v) = v
      BY <2>1, <2>4, <2>5, <2>7 DEF ExpectedScalar, IsScalar
    <3> QED BY <2>3, <2>7, <3>1 DEF PgEqual, q
  <2> QED BY <2>6, <2>7
<1>6. CASE Copied(c.pg)
  <2>1. v \in Int
    BY <1>6 DEF ScalarValues, Copied, Texts, Timestamps
  <2>2. q = p /\ c.pg # "bpchar"
    BY <1>6 DEF ConvertPostgresParameterToDuckValue, Copied, Texts, Timestamps
  <2>3. Cell(c, v) = v
    BY <1>6, <2>1, CopiedCell, ScalarIsPlain
  <2> HIDE DEF q
  <2> QED BY <2>2, <2>3 DEF PgEqual, q
<1>7. \/ c.pg = "date" \/ c.pg \in Timestamps \/ c.pg = "timetz" \/ c.pg = "uuid"
      \/ c.pg \in Texts \/ Copied(c.pg)
  BY DEF Copied, IsScalar, ParameterTypes, Nested
<1> HIDE DEF q
<1> QED BY <1>1, <1>2, <1>3, <1>4, <1>5, <1>6, <1>7 DEF q

\* A parameter and the rows of a scalar column are equal in DuckDB if they are
\* equal in Postgres (ConvertPostgresParameterToDuckValue).
THEOREM ParametersAgree == Spec => [](Scalar => ParameterAgrees)
<1>1. ASSUME ScalarInv, Scalar PROVE ParameterAgrees
  <2>1. IInv
    BY <1>1 DEF ScalarInv
  <2> SUFFICES ASSUME param # NoParam, ~KnownParameter(col.pg, param.pg),
                      NEW i \in 1..count, rows[i] # Null, ~KnownLoss(col, dtype, rows[i], i)
               PROVE  (param.duck = ReadRow(i - 1)) <=> PgEqual(col.pg, param.pg, rows[i])
    BY DEF ParameterAgrees
  <2>2. /\ col # Null /\ col.pg \in ParameterTypes
        /\ param.pg \in ScalarValues(col.pg)
        /\ param.duck = ConvertPostgresParameterToDuckValue(col.pg, param.pg)
    BY <2>1 DEF IInv, ParamInv
  <2>3. col \in PgColumns /\ IsScalar(col)
    BY <2>1, <2>2 DEF IInv, ColumnInv
  <2>4. col.pg # "char" /\ ~DomainLoss(col)
    BY <2>2 DEF ParameterTypes, KnownLoss, DomainLoss
  <2>5. rows[i] \in ScalarValues(col.pg) /\ ReadRow(i - 1) = Cell(col, rows[i])
    BY <2>1, <2>2, <2>4, RowRead
  <2>6. Cell(col, rows[i]) # Raised
    BY <2>1, <2>2 DEF IInv, CellInv
  <2> QED BY <2>2, <2>3, <2>4, <2>5, <2>6, CellParameter
<1> QED BY <1>1, ScalarInvariant, PTL

=============================================================================
