------------------------------- MODULE Values -------------------------------
(***************************************************************************)
(* The type execsql gives a column that IMPORT or COPY creates (models.py, *)
(* types.py), and what becomes of each value that is then loaded: into the *)
(* new table, and into a table that was there before (db/target_types.py). *)
(* A value is a record: its Python class, what its text or content is      *)
(* (`form`), its number m / 10^s, the superfluous zeros its text begins    *)
(* with, whether it is written with an exponent, and the length of its     *)
(* text.  A number has no sign but "-"; floats are finite.                 *)
(***************************************************************************)
EXTENDS Integers, FiniteSets, SequencesExt

CONSTANTS
  FileValues,   \* the values of a column of a file, as records
  CursorValues, \* the values of a column of a database's cursor
  MaxValues,    \* how many of them it holds
  MaxInt,       \* the setting max_int
  ExactDigits,  \* the decimal digits a double holds exactly: 15
  LongText      \* the longest varchar: 255

VARIABLES
  conf,           \* the settings the scan reads
  infer_strings,  \* FALSE when the rows come from a database's cursor
  seen,           \* the values scanned so far, a bag
  rowcount, nullrows,
  accums,         \* per type: failed, count, maxlen, varlen
  digits          \* the decimal accumulator's precision and scale

columnVars == <<conf, infer_strings, seen, rowcount, nullrows, accums, digits>>

TextTypes == {"character", "varchar", "text"}
Moments == {"timestamptz", "timestamp", "date", "time"}
Numbers == {"integer", "long", "decimal", "float"}
Inferred == <<"timestamptz", "timestamp", "date", "time", "boolean", "integer", "long", "decimal",
              "float", "character", "varchar", "text", "binary">>
FromCursor == SubSeq(Inferred, 1, 9) \o <<"binary", "character", "varchar", "text">>

Order == IF conf.only_strings THEN <<"character", "varchar", "text">>
         ELSE IF infer_strings THEN Inferred ELSE FromCursor
Types == Range(Order)

-----------------------------------------------------------------------------
(* Numbers. *)
Abs(n) == IF n < 0 THEN -n ELSE n
Larger(a, b) == IF a > b THEN a ELSE b
DigitsOf(n) == CHOOSE d \in 1..9 : 10 ^ d > Abs(n) /\ (d = 1 \/ 10 ^ (d - 1) <= Abs(n))
\* m / 10^s as a pair with s >= 0; a typed Decimal's exponent may be positive.
Expanded(v) == IF v.s >= 0 THEN <<v.m, v.s>> ELSE <<v.m * 10 ^ (-v.s), 0>>
SameNumber(v, w) == LET a == Expanded(v) b == Expanded(w)
                    IN a[1] * 10 ^ b[2] = b[1] * 10 ^ a[2]
IsWhole(v) == LET a == Expanded(v) IN a[1] % 10 ^ a[2] = 0
\* n without its last digits, towards zero.
Cut(n, unit) == IF n < 0 THEN -((-n \div unit) * unit) ELSE (n \div unit) * unit
WholePart(v) == LET a == Expanded(v) IN Cut(a[1], 10 ^ a[2]) \div 10 ^ a[2]
Significant(v) == IF v.m = 0 THEN 1
                  ELSE Min({DigitsOf(v.m \div 10 ^ k) : k \in {k \in 0..(DigitsOf(v.m) - 1) : v.m % 10 ^ k = 0}})

\* The code measures a value's text, and counts the digits of its number.
ASSUME ValuesAssumption ==
  /\ ExactDigits \in Nat
  /\ \A v \in FileValues \cup CursorValues : v.len \in Nat /\ v.s \in Int /\ DigitsOf(v.m) \in Nat \ {0}

IsStr(v) == v.py = "str"
IsNumber(v) == v.form = "number"
IsNumberText(v) == IsStr(v) /\ IsNumber(v)

\* "007" and "05.5" are identifiers, not numbers; "0.5", "0" and "-01" are numbers.
leading_zero_num(v) ==
  /\ IsNumberText(v) /\ v.m >= 0
  /\ \/ v.zeros > 1
     \/ v.zeros = 1 /\ (v.m > 10 ^ v.s \/ (v.s > 0 /\ v.m < 10 ^ v.s))

PlainInteger(v) == IsNumberText(v) /\ v.s = 0 /\ ~v.exp
PlainDecimal(v) == IsNumberText(v) /\ ~v.exp

-----------------------------------------------------------------------------
(* Does a value match a type: DataType._is_match().  Of the bytes a driver *)
(* returns, a bytearray is no text.                                        *)
TruthText(v) ==
  /\ IsStr(v)
  /\ \/ v.form = "truth"
     \/ v.form = "letter" /\ ~conf.boolean_words
     \/ conf.boolean_int /\ PlainInteger(v) /\ v.zeros = 0 /\ v.m \in {0, 1}

InRange(v) == v.m <= MaxInt /\ v.m >= -1 * MaxInt - 1

matches_moment(t, v) ==
  CASE t = "timestamptz" -> v.form = "tz"
    [] t = "timestamp" -> v.form \in {"timestamp", "date"} \/ (v.form = "tz" /\ ~IsStr(v))
    [] t = "date" -> v.form = "date"
    [] t = "time" -> v.form = "time" \/ v.py = "datetime"

matches_number(t, v) ==
  CASE t = "integer" -> (v.py = "int" \/ (PlainInteger(v) /\ ~leading_zero_num(v))) /\ InRange(v)
    [] t = "long" -> \/ v.py \in {"int", "bool"} \/ (v.py = "float" /\ IsWhole(v))
                     \/ PlainInteger(v) /\ v.m >= 0 /\ ~leading_zero_num(v)
    [] t = "decimal" -> v.py = "decimal" \/ (PlainDecimal(v) /\ ~leading_zero_num(v))
    [] t = "float" -> v.py \in {"float", "int", "bool", "decimal"} \/ (IsNumberText(v) /\ ~leading_zero_num(v))

is_match(t, v) ==
  CASE t \in Moments -> matches_moment(t, v)
    [] t = "boolean" -> \/ v.py = "bool" \/ TruthText(v)
                        \/ conf.boolean_int /\ v.py = "int" /\ v.m \in {0, 1}
    [] t \in Numbers -> matches_number(t, v)
    [] t = "character" -> IsStr(v) \/ (v.py # "bytearray" /\ v.len <= LongText)
    [] t = "varchar" -> v.py # "bytearray" /\ v.len <= LongText
    [] t = "text" -> v.py # "bytearray"
    [] t = "binary" -> v.form = "bytes" \/ (v.py \in {"int", "bool"} /\ v.m >= 0)

-----------------------------------------------------------------------------
(* The value stored for it: DataType._from_data().  Refused is its         *)
(* DataTypeError.  A double keeps ExactDigits digits of a number.          *)
Refused == [py |-> "error", form |-> "", m |-> 0, s |-> 0, zeros |-> 0, exp |-> FALSE, len |-> 0]

As(v, py, form) == [v EXCEPT !.py = py, !.form = form]
AsInt(v) == [As(v, "int", "number") EXCEPT !.m = WholePart(v), !.s = 0, !.zeros = 0, !.exp = FALSE]
AsFloat(v) ==
  LET extra == Larger(0, Significant(v) - ExactDigits)
      cut == 10 ^ (DigitsOf(v.m) - Significant(v) + extra)
  IN [As(v, "float", "number") EXCEPT !.m = Cut(v.m, cut), !.zeros = 0, !.exp = FALSE]
\* str(b"ab") is the seven characters b'ab'.
AsText(v) == As(v, "str", CASE v.py = "bool" -> "truth" [] v.form = "bytes" -> "repr" [] OTHER -> v.form)
\* bytearray(n) is n zero bytes: nothing of n's own is left.
AsBytes(v) == IF v.form = "bytes" THEN v ELSE As(v, "bytearray", "zeros")

moment_from_data(t, v) ==
  IF ~matches_moment(t, v) THEN Refused
  ELSE IF t \in {"timestamptz", "timestamp"} THEN As(v, "datetime", v.form) ELSE As(v, t, t)

number_from_data(t, v) ==
  CASE t = "integer" -> IF \/ v.py \in {"int", "bool", "decimal"} \/ (v.py = "float" /\ IsWhole(v))
                           \/ PlainInteger(v) /\ ~leading_zero_num(v)
                        THEN AsInt(v) ELSE Refused
    [] t = "long" -> IF matches_number(t, v) THEN AsInt(v) ELSE Refused
    [] t = "decimal" -> IF matches_number(t, v) THEN [As(v, "decimal", "number") EXCEPT !.zeros = 0] ELSE Refused
    [] t = "float" -> IF matches_number(t, v) THEN AsFloat(v) ELSE Refused

text_from_data(t, v) ==
  IF t = "text" \/ v.len <= LongText \/ (t = "character" /\ IsStr(v)) THEN AsText(v) ELSE Refused

from_data(t, v) ==
  CASE t \in Moments -> moment_from_data(t, v)
    [] t = "boolean" -> IF is_match(t, v) THEN As(v, "bool", "number") ELSE Refused
    [] t \in Numbers -> number_from_data(t, v)
    [] t \in TextTypes -> text_from_data(t, v)
    [] t = "binary" -> IF is_match(t, v) THEN AsBytes(v) ELSE Refused

-----------------------------------------------------------------------------
(* The scan. *)
Fresh == [failed |-> FALSE, count |-> 0, maxlen |-> 0, varlen |-> FALSE]
NoDigits == [maxprecision |-> 0, scale |-> 0, varscale |-> FALSE, maxscale |-> 0, max_int_digits |-> 0]

\* DT_Decimal.set_scale_prec(): as_tuple() of "0.05" is the digit 5 and exponent -2.
Precision(v) == IF v.s < 0 THEN DigitsOf(v.m) - v.s
                ELSE IF v.s > DigitsOf(v.m) THEN v.s + 1 ELSE DigitsOf(v.m)
Scale(v) == Larger(0, v.s)

Accum_record_lastLength(a, v) ==
  [a EXCEPT !.count = @ + 1, !.varlen = @ \/ (a.maxlen > 0 /\ v.len # a.maxlen), !.maxlen = v.len]

Accum_record(a, v) ==
  [a EXCEPT !.count = @ + 1,
            !.varlen = @ \/ (a.maxlen > 0 /\ v.len # a.maxlen),
            !.maxlen = Larger(@, v.len)]

record_digits(d, v) ==
  [maxprecision |-> Larger(d.maxprecision, Precision(v)),
   scale |-> IF d.maxprecision = 0 THEN Scale(v) ELSE d.scale,
   varscale |-> d.varscale \/ (d.maxprecision > 0 /\ Scale(v) # d.scale),
   maxscale |-> Larger(d.maxscale, Scale(v)),
   max_int_digits |-> Larger(d.max_int_digits, Precision(v) - Scale(v))]

IsNull(v) == v.py = "none" \/ (~conf.empty_strings /\ IsStr(v) /\ v.form = "empty")

\* From a cursor a str is text and bytes are binary or text, whatever they look like.
Live(v) ==
  {t \in Types : /\ ~accums[t].failed
                 /\ infer_strings \/ ~IsStr(v) \/ t \in TextTypes
                 /\ infer_strings \/ v.form # "bytes" \/ t \in TextTypes \cup {"binary"}}

eval_types(v) ==
  /\ rowcount' = rowcount + 1
  /\ seen' = seen (+) SetToBag({v})
  /\ IF IsNull(v)
     THEN nullrows' = nullrows + 1 /\ UNCHANGED <<accums, digits>>
     ELSE LET live == Live(v)
              matched == {t \in live : is_match(t, v)}
          IN /\ accums' = [t \in Types |->
                  IF t \in matched THEN Accum_record(accums[t], v)
                  ELSE [accums[t] EXCEPT !.failed = @ \/ t \in live]]
             /\ digits' = IF "decimal" \in matched THEN record_digits(digits, v) ELSE digits
             /\ UNCHANGED nullrows
  /\ UNCHANGED <<conf, infer_strings>>

chooses_float(d) == d.varscale /\ ~conf.exact_decimals /\ d.maxprecision <= ExactDigits

\* The first type that matched every value; an empty column is text.
Fits(t) ==
  /\ ~accums[t].failed /\ accums[t].count = rowcount - nullrows
  /\ t = "character" => ~accums[t].varlen
  /\ t = "decimal" => ~chooses_float(digits)

FirstOf(S) == IF S = {} THEN "none" ELSE Order[Min({i \in DOMAIN Order : Order[i] \in S})]

column_type_maxprecision ==
  LET t == FirstOf({u \in Types : Fits(u)})
  IN [type |-> t, maxlen |-> IF t \in {"character", "varchar"} THEN accums[t].maxlen ELSE 0,
      precision |-> digits.maxprecision, scale |-> digits.maxscale]

column_type ==
  IF nullrows = rowcount THEN [type |-> "text", maxlen |-> 0, precision |-> 0, scale |-> 0]
  ELSE LET t == FirstOf({u \in Types : Fits(u)})
       IN [type |-> t,
           maxlen |-> IF t \in {"character", "varchar"} THEN accums[t].maxlen ELSE 0,
           precision |-> IF t = "decimal" THEN digits.max_int_digits + digits.maxscale ELSE 0,
           scale |-> IF t = "decimal" THEN digits.maxscale ELSE 0]

-----------------------------------------------------------------------------
Settings == [only_strings : BOOLEAN, empty_strings : BOOLEAN, exact_decimals : BOOLEAN,
             boolean_int : BOOLEAN, boolean_words : BOOLEAN]
Defaults == [only_strings |-> FALSE, empty_strings |-> TRUE, exact_decimals |-> FALSE,
             boolean_int |-> TRUE, boolean_words |-> FALSE]
OneChanged == {c \in Settings : Cardinality({f \in DOMAIN c : c[f] # Defaults[f]}) <= 1}

ColumnInit ==
  /\ conf \in OneChanged /\ infer_strings \in BOOLEAN
  /\ seen = EmptyBag /\ rowcount = 0 /\ nullrows = 0 /\ digits = NoDigits
  /\ accums = [t \in Types |-> Fresh]

\* A text file's values are all str; those of JSON, a spreadsheet or a cursor are typed.
Scan(v) ==
  /\ rowcount < MaxValues
  /\ eval_types(v)

ColumnNext == \E v \in IF infer_strings THEN FileValues ELSE CursorValues : Scan(v)
ColumnSpec == ColumnInit /\ [][ColumnNext]_columnVars

-----------------------------------------------------------------------------
Held == {v \in BagToSet(seen) : ~IsNull(v)}

\* What the values themselves say, whatever their order: the first type that
\* matches them all, and how long and how precise its column must be.
Matches(t) ==
  \A v \in Held : /\ is_match(t, v)
                  /\ infer_strings \/ ~IsStr(v) \/ t \in TextTypes
                  /\ infer_strings \/ v.form # "bytes" \/ t \in TextTypes \cup {"binary"}
OneLength == Cardinality({v.len : v \in Held}) = 1
ManyScales == Cardinality({Scale(v) : v \in Held}) > 1
Described ==
  LET t == FirstOf({u \in Types : /\ Matches(u)
                                  /\ u = "character" => OneLength
                                  /\ u = "decimal" => \/ ~ManyScales \/ conf.exact_decimals
                                                      \/ \E v \in Held : Precision(v) > ExactDigits})
      s == Max({Scale(v) : v \in Held})
  IN [type |-> t,
      maxlen |-> IF t \in {"character", "varchar"} THEN Max({v.len : v \in Held}) ELSE 0,
      precision |-> IF t = "decimal" THEN s + Max({Precision(v) - Scale(v) : v \in Held}) ELSE 0,
      scale |-> IF t = "decimal" THEN s ELSE 0]

\* A column's type is that of its values, in whatever order the rows come (Column.eval_types keeps
\* only running counts and the types still live); the one exception is an empty string, which
\* Accum.record does not see as a length.
TypeIsOrderFree ==
  Held # {} /\ ~(\E v \in Held : v.len = 0) => column_type = Described

\* What a conversion must keep: the number, the parts of a moment, the text, the bytes.
PartsOf(form) == CASE form = "tz" -> {"date", "time", "zone"} [] form = "timestamp" -> {"date", "time"}
                   [] form = "date" -> {"date"} [] form = "time" -> {"time"} [] OTHER -> {}
\* Columns that mix a double or an exponent with decimals, dates with times, zoned with unzoned
\* moments, or numbers with bytes, or bytes where strings are expected: the conversion is to what the
\* values have in common, and loses the rest.
Mixed(t) ==
  \/ t = "float" /\ \E v \in Held : v.py \notin {"str", "decimal"} \/ v.exp
  \/ t \in {"time", "timestamp"} /\ \E v \in Held : ~IsStr(v)
  \/ t \in TextTypes \cup {"binary"} /\ \E v \in Held : v.form = "bytes" /\ (t = "binary" => \E u \in Held : u.form # "bytes")
Keeps(v, w) ==
  IF IsStr(w) THEN w.form \in {v.form, "truth"} /\ w.zeros = v.zeros /\ w.len = v.len
  ELSE SameNumber(v, w) /\ PartsOf(v.form) \subseteq PartsOf(w.form) /\ (v.form = "bytes") = (w.form = "bytes")

\* DT_Text refuses a bytearray: where all is read as text, and beside a value that is not binary, no
\* type takes the column, and column_type() raises an error before anything is created.
Untyped == \E v \in Held : v.py = "bytearray" /\ (conf.only_strings \/ \E u \in Held : u.form # "bytes")

\* The scan finds a type, but for the columns of Untyped, and every value it scanned is loaded by that type's conversion,
\* which is other code (_is_match and _from_data): nothing is refused, cut, padded, rounded or wider
\* than the column declared for it, and an identifier with leading zeros stays text.
ColumnHoldsItsValues ==
  Held # {} =>
    LET c == column_type IN
    /\ c.type = "none" => Untyped
    /\ \A v \in Held : c.type # "none" =>
         LET w == from_data(c.type, v) IN
         /\ w # Refused
         /\ Mixed(c.type) \/ Keeps(v, w)
         /\ c.type = "decimal" => /\ Scale(v) <= c.scale
                                  /\ Precision(v) - Scale(v) <= c.precision - c.scale
         /\ c.type = "varchar" => w.len <= c.maxlen
         /\ c.type = "character" => w.len = c.maxlen \/ (\E u \in Held : u.len = 0)
         /\ IsNumberText(v) /\ v.zeros > 0 /\ v.m > 10 ^ v.s => c.type \in TextTypes
=============================================================================
