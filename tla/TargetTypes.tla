---------------------------- MODULE TargetTypes ----------------------------
(***************************************************************************)
(* What a value becomes in a table that was there before the load: the     *)
(* column a dialect declares for a scanned type (types.py), the name the   *)
(* DBMS's catalog or driver gives that column, the execsql type read from  *)
(* that name, and the conversion it calls for (db/target_types.py).        *)
(***************************************************************************)
EXTENDS Values, TLC

CONSTANTS
  Scales,       \* the scales of existing DECIMAL(p,s) columns
  BindingDigits \* the digits DuckDB binds as a number: 38

Dbms == {"PostgreSQL", "SQLite", "DuckDB", "SQL Server", "Access", "DSN", "MySQL", "Firebird", "Oracle"}

-----------------------------------------------------------------------------
(* The dialects: the name of each type, and the types declared with a      *)
(* length (DbType.name_datatype, the dbt_ objects).                        *)
Access == [timestamptz |-> "varchar", timestamp |-> "varchar", date |-> "varchar", time |-> "varchar",
           boolean |-> "long", integer |-> "long", long |-> "double", decimal |-> "numeric",
           float |-> "double", character |-> "varchar", varchar |-> "varchar", text |-> "longtext",
           binary |-> "longbinary"]
Postgres == [timestamptz |-> "timestamp with time zone", timestamp |-> "timestamp", date |-> "date",
             time |-> "time", boolean |-> "boolean", integer |-> "integer", long |-> "bigint",
             decimal |-> "numeric", float |-> "double precision", character |-> "character",
             varchar |-> "character varying", text |-> "text", binary |-> "bytea"]
Oracle == [Postgres EXCEPT !.time = "varchar2", !.boolean = "integer", !.integer = "number", !.long = "number",
                           !.float = "float", !.decimal = "number", !.character = "char",
                           !.varchar = "nvarchar2", !.text = "clob", !.binary = "blob"]
name_datatype == [
  PostgreSQL |-> Postgres,
  SQLite |-> [Postgres EXCEPT !.long = "hugeint", !.float = "double", !.decimal = "decimal", !.character = "varchar",
                              !.varchar = "varchar", !.text = "varchar", !.binary = "blob"],
  DuckDB |-> [Postgres EXCEPT !.timestamptz = "timestamptz", !.float = "double", !.character = "text",
                              !.varchar = "text", !.binary = "blob"],
  MySQL |-> [Postgres EXCEPT !.timestamptz = "varchar", !.timestamp = "datetime", !.text = "longtext",
                             !.binary = "longblob"],
  Firebird |-> [Postgres EXCEPT !.timestamptz = "char", !.boolean = "integer", !.character = "char",
                                !.varchar = "varchar", !.text = "blob", !.binary = "blob"],
  Oracle |-> Oracle,
  DSN |-> Access]
  @@ ("SQL Server" :> [Postgres EXCEPT !.timestamptz = "varchar", !.timestamp = "datetime", !.boolean = "bit",
                                       !.integer = "int", !.decimal = "decimal", !.varchar = "varchar",
                                       !.text = "varchar(max)", !.binary = "varbinary(max)"])
  @@ ("Access" :> Access)

\* Access's decimals are doubles, unless access_use_numeric is set.
spec_type(d, t) == IF d = "Access" /\ t = "decimal" THEN "float" ELSE t

\* column_spec(): the name, and the numbers in its parentheses.
column_spec(d, c) ==
  LET t == spec_type(d, c.type)
  IN [base |-> name_datatype[d][t],
      args |-> IF t = "decimal" THEN <<c.precision, c.scale>> ELSE <<>>]

-----------------------------------------------------------------------------
(* The column's type, as the DBMS reports it: the name in its catalog, or  *)
(* the Python class its driver returns.                                    *)
Reported(d, spec) ==
  LET Named(base, args) == [base |-> base, args |-> args]
      b == spec.base
  IN CASE d = "PostgreSQL" /\ b \in {"timestamp", "time"} -> Named(b \o " without time zone", <<>>)
       [] d = "DuckDB" /\ b = "timestamptz" -> Named("timestamp with time zone", <<>>)
       [] d = "DuckDB" /\ b = "numeric" -> Named("decimal", spec.args)
       [] d = "DuckDB" /\ b = "text" -> Named("varchar", <<>>)
       [] d = "MySQL" /\ b = "boolean" -> Named("tinyint", <<1>>)
       [] d = "MySQL" /\ b = "double precision" -> Named("double", <<>>)
       [] d = "MySQL" /\ b = "numeric" -> Named("decimal", spec.args)
       [] d = "Oracle" /\ b = "integer" -> Named("number", <<38, 0>>)
       [] d = "SQL Server" /\ b = "double precision" -> Named("float", <<>>)
       [] d = "SQL Server" /\ b = "varchar(max)" -> Named("varchar", <<>>)
       [] d = "SQL Server" /\ b = "varbinary(max)" -> Named("varbinary", <<>>)
       [] OTHER -> spec

PythonType(d, spec) ==
  CASE spec.base \in {"long", "integer", "bigint"} -> "int"
    [] spec.base \in {"double", "double precision"} -> "float"
    [] spec.base = "numeric" -> "decimal"
    [] spec.base = "boolean" -> "bool"
    [] spec.base \in {"char", "varchar", "longtext", "character", "text"} -> "str"
    [] spec.base = "timestamp" -> "datetime"
    [] spec.base \in {"date", "time"} -> spec.base
    [] OTHER -> "bytes"

-----------------------------------------------------------------------------
TextNames == {"char", "character", "varchar", "character varying", "nvarchar2", "varchar2", "text", "longtext", "clob"}
IntegerNames == {"integer", "int", "tinyint", "bigint", "hugeint"}
DecimalNames == {"decimal", "numeric", "number"}
FloatNames == {"float", "double", "double precision"}
BinaryNames == {"bytea", "blob", "longblob", "varbinary"}

kind_for_type_name_anyDecimal(type, oracle) ==
  IF type.base \in DecimalNames /\ type.args # <<>> THEN "long" ELSE "text"

kind_for_type_name(type, oracle) ==
  CASE type.base = "tinyint" /\ type.args = <<1>> -> "boolean"
    [] type.base = "bit" -> IF type.args \in {<<>>, <<1>>} THEN "boolean" ELSE "none"
    [] type.base \in TextNames -> "text"
    [] type.base \in IntegerNames /\ ~(type.base = "tinyint" /\ type.args = <<1>>) -> "long"
    [] type.base \in DecimalNames ->
         IF Len(type.args) = 1 \/ (Len(type.args) = 2 /\ type.args[2] = 0) THEN "long" ELSE "decimal"
    [] type.base \in FloatNames -> "float"
    [] type.base = "boolean" -> "boolean"
    [] type.base = "date" -> IF oracle THEN "timestamp" ELSE "date"
    [] type.base \in {"timestamp", "timestamp without time zone", "datetime"} -> "timestamp"
    [] type.base \in {"timestamptz", "timestamp with time zone"} -> "timestamptz"
    [] type.base \in {"time", "time without time zone"} -> "time"
    [] type.base \in BinaryNames -> "binary"
    [] OTHER -> "none"

kind_for_python_type(py, args) ==
  CASE py = "bool" -> "boolean" [] py = "int" -> "long" [] py = "float" -> "float"
    [] py = "decimal" -> IF args # <<>> /\ args[2] = 0 THEN "long" ELSE "decimal"
    [] py = "str" -> "text" [] py = "datetime" -> "timestamp" [] py \in {"date", "time"} -> py
    [] OTHER -> "none"

Unknown == -1000
\* kind_and_scale_for_type_name() and the adapters' _described_column(): the kind, and a decimal's scale.
column_kinds(d, spec) ==
  LET described == d \in {"Access", "DSN", "Firebird"}
      kind == IF described THEN kind_for_python_type(PythonType(d, spec), spec.args)
              ELSE kind_for_type_name(Reported(d, spec), d = "Oracle")
  IN [kind |-> kind,
      scale |-> IF kind = "decimal" /\ Len(spec.args) = 2 /\ d # "SQLite" THEN spec.args[2] ELSE Unknown]

-----------------------------------------------------------------------------
(* The conversions.  default is the conversion to the scanned type and the *)
(* dialect's adjustment of it (conv_mod_fn); NULL is left alone.           *)
ISOText == "isoformat()"
adjust(d, scanned, w) ==
  CASE w = Refused -> w
    [] scanned = "boolean" /\ d \in {"MySQL", "Firebird", "Oracle"} -> AsInt(w)
    [] scanned = "time" /\ d = "Oracle" -> As(w, "str", ISOText)
    [] OTHER -> w
default(d, scanned, v) == IF v.py = "none" THEN v ELSE adjust(d, scanned, from_data(scanned, v))

whole_number_converter_truncates(v, otherwise) ==
  IF v.py \in {"int", "decimal", "float"} \/ IsNumberText(v) THEN AsInt(v) ELSE otherwise

whole_number_converter(v, otherwise) ==
  CASE v.py = "int" -> v
    [] v.py \in {"decimal", "float"} \/ IsNumberText(v) -> IF IsWhole(v) THEN AsInt(v) ELSE Refused
    [] OTHER -> otherwise

true_false_as_number(v, d) ==
  LET flag == default(d, "boolean", v) IN IF flag.py = "bool" THEN AsInt(flag) ELSE flag

\* A digit other than 0 beyond the column's scale.
Rounds(v, scale) == v.m # 0 /\ v.s > scale /\ Abs(v.m) % 10 ^ (v.s - scale) # 0
check_decimal_scale(v, scale) == IF scale # Unknown /\ Rounds(v, scale) THEN Refused ELSE v

decimal_parameter(v, d) ==
  IF d = "DuckDB" /\ v.m # 0 /\ v.s < 0 /\ DigitsOf(v.m) - v.s > BindingDigits THEN Refused ELSE v

exact_decimal_converter(scanned, v, scale, d) ==
  CASE v.py = "int" -> check_decimal_scale(v, scale)
    [] v.py = "decimal" \/ IsNumberText(v) ->
         IF check_decimal_scale(v, scale) = Refused THEN Refused
         ELSE decimal_parameter([As(v, "decimal", "number") EXCEPT !.zeros = 0], d)
    [] OTHER -> default(d, scanned, v)

existing_table_converter(kind, scanned, v, scale, d) ==
  CASE kind = "text" -> v
    [] kind \in {"long", "decimal", "float"} /\ scanned = "boolean" ->
         IF kind = "decimal" THEN check_decimal_scale(true_false_as_number(v, d), scale) ELSE true_false_as_number(v, d)
    [] kind = "long" /\ scanned # "boolean" -> whole_number_converter(v, default(d, scanned, v))
    [] kind = "decimal" /\ scanned # "boolean" -> exact_decimal_converter(scanned, v, scale, d)
    [] OTHER -> default(d, scanned, v)

\* The text a driver makes of a value that is not a str: that of an integer or a Decimal is its digits,
\* and anything else's is the driver's own, which need not be what str() or isoformat() makes of it.
DriverText(w) == As(w, "str", IF w.py \in {"str", "int", "decimal"} THEN w.form ELSE "driver's text")

\* What the DBMS keeps of a value it is given for a column: it rounds a number to the column's type,
\* takes a number's text for a number and refuses other text, and keeps a text as it is given.
\* oracledb cannot bind a time.
InColumn(d, kind, scale, w) ==
  LET unit == IF kind = "long" THEN 10 ^ Larger(0, w.s)
              ELSE IF scale = Unknown THEN 1 ELSE 10 ^ Larger(0, w.s - scale)
  IN
  CASE w.py = "none" \/ w = Refused -> w
    [] d = "Oracle" /\ w.py = "time" -> Refused
    [] kind \in {"long", "decimal", "float"} /\ w.form # "number" -> Refused
    [] kind \in {"long", "decimal"} -> [As(w, "decimal", "number") EXCEPT !.m = Cut(@, unit), !.zeros = 0]
    [] kind = "float" -> AsFloat(w)
    [] kind = "text" -> DriverText(w)
    [] OTHER -> w

-----------------------------------------------------------------------------
\* Loaded into a table that was there, a number is stored as it is or stops the load: the database
\* never gets one it would round, whatever type the column was scanned as, and text is stored as
\* written.  (A double, or a true among numbers, keeps the conversion it has in a new table.)
ExistingColumnIsExact ==
  Held # {} /\ column_type.type # "none" =>
    LET scanned == column_type.type IN
    \A v \in Held, kind \in {"long", "decimal", "text"}, scale \in Scales :
      LET w == InColumn("DuckDB", kind, scale, existing_table_converter(kind, scanned, v, scale, "DuckDB"))
      IN IF kind = "text" THEN IsStr(v) => w = v
         ELSE IsNumber(v) /\ (v.py \in {"float", "bool"} => scanned = "boolean") => w = Refused \/ SameNumber(v, w)

\* SQLite's populate_table binds the values as they come; the others convert them by the scanned type.
FirstLoad(d, scanned, v) == IF d = "SQLite" THEN v ELSE default(d, scanned, v)
SecondLoad(d, scanned, v, k) ==
  IF d = "SQLite" THEN (IF k.kind = "long" THEN whole_number_converter(v, v) ELSE v)
  ELSE existing_table_converter(k.kind, scanned, v, k.scale, d)

\* A text column whose first load made a text of its own of a value that the second gives as it is:
\* one declared for moments (isoformat() of Oracle's time, the driver's text of a datetime where a
\* dialect has no such type), and str() of a bool, a double or a moment in a column of texts.
TextIsMade(d, c, v) ==
  IF c.type \in Moments THEN IsStr(v) \/ d = "Oracle"
  ELSE d # "SQLite" /\ v.py \notin {"str", "int", "decimal"}

\* Loading the same rows again into the table that execsql itself declared for them stores what the
\* first load stored (the text as written too, where the column is one of texts), whatever the DBMS:
\* the dialect's names, the catalog's names for them, the types read back from those and the
\* conversions are one round trip.  The text columns of TextIsMade are left out: there they do not.
SecondLoadAgrees ==
  LET c == column_type IN
  Held # {} /\ c.type # "none" /\ ~Mixed(c.type) =>
    \A d \in Dbms :
      LET k == column_kinds(d, column_spec(d, c)) IN
      \A v \in Held :
        LET once == InColumn(d, k.kind, k.scale, FirstLoad(d, c.type, v))
            again == InColumn(d, k.kind, k.scale, SecondLoad(d, c.type, v, k))
        IN ~(k.kind = "text" /\ TextIsMade(d, c, v)) =>
             once.form = again.form /\ once.zeros = again.zeros /\ SameNumber(once, again)
=============================================================================
