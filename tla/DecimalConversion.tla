-------------------------- MODULE DecimalConversion -------------------------
(***************************************************************************)
(* NUMERIC and DECIMAL (pgduckdb_types.cpp).  Postgres keeps digits to the *)
(* base NBASE with a weight, DuckDB one integer in the smallest type that  *)
(* holds the width.  The base and the types are constants: with two        *)
(* decimal digits per digit and a type for five, the largest scale is no   *)
(* multiple of the digits, as 9, 18 and 38 are none of four.               *)
(***************************************************************************)
EXTENDS Integers, Sequences

CONSTANTS
  NaN,           \* the NUMERIC that is no number
  DEC_DIGITS,    \* decimal digits of a digit: 4
  TypeHalf,      \* 2^15, 2^31 ... of each physical type, the smallest first
  TypeWidth,     \* its largest width: 4, 9, 18, 38
  DigitMod       \* 2^16: a digit is a uint16_t

ASSUME DecimalAssumption ==
  /\ DEC_DIGITS \in Nat \ {0} /\ DigitMod \in Nat \ {0}
  /\ Len(TypeHalf) = Len(TypeWidth) /\ Len(TypeWidth) > 0
  /\ \A i \in 1..Len(TypeWidth) : 10 ^ TypeWidth[i] <= TypeHalf[i] /\ 10 ^ DEC_DIGITS <= TypeHalf[i]
  /\ \A i \in 1..(Len(TypeWidth) - 1) : TypeWidth[i] < TypeWidth[i + 1]

NBASE == 10 ^ DEC_DIGITS
MaxPrecision == TypeWidth[Len(TypeWidth)]

\* DecimalType's choice of the physical type.
InternalType(width) == CHOOSE i \in 1..Len(TypeWidth) :
  width <= TypeWidth[i] /\ \A j \in 1..(i - 1) : width > TypeWidth[j]

\* A result in a type of the given half range.
Fit(x, half) == ((x + half) % (2 * half)) - half
GetPowerOfTen(n) == 10 ^ n
Abs(x) == IF x < 0 THEN -x ELSE x

\* Digits of a number that is not negative, the most significant first.
NDigits(x) == CHOOSE n \in 0..12 : NBASE ^ n > x /\ (n > 0 => NBASE ^ (n - 1) <= x)

-----------------------------------------------------------------------------
(* The modifier of a NUMERIC column *)

VARHDRSZ == 4
make_numeric_typmod(precision, scale) == precision * 65536 + (scale % 2048) + VARHDRSZ
numeric_typmod_precision(typmod) == ((typmod - VARHDRSZ) \div 65536) % 65536
numeric_typmod_scale(typmod) ==
  LET low == (typmod - VARHDRSZ) % 2048 IN IF low >= 1024 THEN low - 2048 ELSE low

\* The DuckDB type of a NUMERIC column is a DECIMAL.
DecimalSupported(typmod) ==
  LET precision == numeric_typmod_precision(typmod)
      scale == numeric_typmod_scale(typmod)
  IN  /\ typmod # -1
      /\ precision \in 1..MaxPrecision
      /\ scale \in 0..MaxPrecision
      /\ scale <= precision

-----------------------------------------------------------------------------
(* What Postgres stores: no zero digit leads or trails *)

MakeResult(n) ==
  LET kept == {i \in 1..Len(n.digits) : n.digits[i] # 0}
      first == CHOOSE i \in kept : \A j \in kept : i <= j
      last == CHOOSE i \in kept : \A j \in kept : i >= j
  IN  IF kept = {}
      THEN [sign |-> "pos", weight |-> 0, dscale |-> n.dscale, digits |-> <<>>]
      ELSE [n EXCEPT !.weight = @ - (first - 1), !.digits = SubSeq(@, first, last)]

\* The NUMERIC for value / 10^scale, as Postgres defines it.
StoredNumeric(value, scale) ==
  LET tail == (scale + DEC_DIGITS - 1) \div DEC_DIGITS
      \* the digits of the number with tail digits after the point
      shifted == Abs(value) * 10 ^ (tail * DEC_DIGITS - scale)
      n == NDigits(shifted)
  IN  MakeResult([sign |-> IF value < 0 THEN "neg" ELSE "pos", dscale |-> scale,
                  weight |-> n - tail - 1,
                  digits |-> [i \in 1..n |-> (shifted \div (NBASE ^ (n - i))) % NBASE]])

NumericNaN == [sign |-> "nan", weight |-> 0, dscale |-> 0, digits |-> <<>>]

-----------------------------------------------------------------------------
(* DuckDB to Postgres *)

\* ConvertNumeric: the integral part and the fractional part, which is moved
\* to the left of its last digit first.
FractionUnshifted(fraction, correction, half) == fraction
FractionShift(fraction, correction, half) == Fit(fraction * GetPowerOfTen(correction), half)
ConvertNumeric(value, scale, half) ==
  LET integral == Abs(value) \div GetPowerOfTen(scale)
      integralN == NDigits(integral)
      fractionalN == (scale + DEC_DIGITS - 1) \div DEC_DIGITS
      fraction == FractionShift(Abs(value) % GetPowerOfTen(scale),
                                fractionalN * DEC_DIGITS - scale, half)
      \* C++ keeps the sign of an overflow in each remainder
      Digit(k) == LET d == (Abs(fraction) \div (NBASE ^ k)) % NBASE
                  IN  IF fraction < 0 THEN (-d) % DigitMod ELSE d
  IN  [sign |-> IF value < 0 THEN "neg" ELSE "pos", dscale |-> scale,
       weight |-> integralN - 1,
       digits |-> [i \in 1..integralN |-> (integral \div (NBASE ^ (integralN - i))) % NBASE]
                  \o [i \in 1..fractionalN |-> Digit(fractionalN - i)]]

-----------------------------------------------------------------------------
(* Postgres to DuckDB *)

\* The last digit after the point stands for fewer or for more decimal
\* digits than NBASE has.
Compensate(digit, correction, half) ==
  IF correction >= 0
  THEN [base |-> NBASE \div GetPowerOfTen(correction), digit |-> digit \div GetPowerOfTen(correction)]
  ELSE [base |-> Fit(NBASE * GetPowerOfTen(-correction), half),
        digit |-> Fit(digit * GetPowerOfTen(-correction), half)]

ConvertDecimal(n, half) ==
  LET ndigits == Len(n.digits)
      integral[i \in 0..n.weight] ==
        LET digit == IF i < ndigits THEN n.digits[i + 1] ELSE 0
        IN  IF i = 0 THEN digit ELSE Fit(integral[i - 1] * NBASE + digit, half)
      correction == (ndigits - n.weight - 1) * DEC_DIGITS - n.dscale
      start == IF n.weight + 1 > 0 THEN n.weight + 1 ELSE 0
      fraction[i \in (start - 1)..(ndigits - 1)] ==
        IF i < start THEN 0
        ELSE LET step == IF i + 1 < ndigits THEN [base |-> NBASE, digit |-> n.digits[i + 1]]
                         ELSE Compensate(n.digits[i + 1], correction, half)
             IN  Fit(fraction[i - 1] * step.base + step.digit, half)
      whole == IF n.weight >= 0 THEN Fit(integral[n.weight] * GetPowerOfTen(n.dscale), half) ELSE 0
      part == IF ndigits > n.weight + 1 THEN fraction[ndigits - 1] ELSE 0
  IN  IF ndigits = 0 THEN 0
      ELSE IF n.sign = "neg" THEN -Fit(whole + part, half) ELSE Fit(whole + part, half)

=============================================================================
