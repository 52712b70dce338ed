---------------------------- MODULE ConditionTable ----------------------------
(***************************************************************************)
(* The conditional tests of IF, ELSEIF, LOOP and the like: their patterns, *)
(* in the order build_conditional_table registers them                     *)
(* (metacommands/conditions.py), and how a pattern reads a test's          *)
(* arguments.                                                              *)
(*                                                                         *)
(* Here the blanks, quotes and commas matter, so a text is a sequence of   *)
(* words and marks.  A pattern is a sequence of elements, as in a regular  *)
(* expression: a literal, a run of tokens of a class (as many as will do), *)
(* an optional part (taken when the rest still fits).  Case is left out.   *)
(***************************************************************************)
EXTENDS Integers, Sequences, FiniteSets, SequencesExt

Blank == " "
dq == "dq"
sq == "sq"
bq == "bq"
Quote == {dq, sq, bq}
Mark == {Blank, "(", ")", ",", ".", "[", "]"} \cup Quote

Lit(token) == [kind |-> "lit", token |-> token]
Maybe(part) == [kind |-> "maybe", part |-> part]
\* `but`: the tokens it does not take; `ends`: those it may not end on.
OneOf(arg, tokens) == [kind |-> "one", arg |-> arg, tokens |-> tokens]
Run(arg, but, least, ends) == [kind |-> "run", arg |-> arg, but |-> but, least |-> least, ends |-> ends]

Blanks == [kind |-> "blanks"]
Some(arg, but) == Run(arg, but, 1, {})
Bare(arg) == Some(arg, {Blank, ")"})                      \* [^ )]+
Within(arg) == Run(arg, {")"}, 0, {})                     \* [^)]*
Name(arg) == Some(arg, Mark)                              \* \w+
Named(arg) == Some(arg, Mark \ {Blank})                   \* [A-Za-z0-9_: ]+
Quoted(arg, q) == <<Lit(q), Some(arg, {q}), Lit(q)>>
Either(arg, q) == IF q = "" THEN <<Bare(arg)>> ELSE Quoted(arg, q)

-----------------------------------------------------------------------------
(* Reading a text by a pattern, from its start: none or one way. *)

Stop == "end of the text"
Given(arg, value, ways) == { [way EXCEPT !.args = @ \cup {<<arg, value>>}] : way \in ways }

RECURSIVE Read(_, _), Longest(_, _, _, _)
\* A run takes n tokens of the text, or the most below n that the rest allows.
Longest(e, n, rest, text) ==
  IF n < e.least THEN {}
  ELSE LET ways == IF n > 0 /\ text[n] \in e.ends THEN {} ELSE Read(rest, SubSeq(text, n + 1, Len(text)))
       IN IF ways # {} THEN Given(e.arg, SubSeq(text, 1, n), ways) ELSE Longest(e, n - 1, rest, text)

Read(pattern, text) ==
  IF pattern = <<>> THEN {[args |-> {}, rest |-> text]}
  ELSE LET e == Head(pattern)
           rest == Tail(pattern)
       IN CASE e.kind = "lit" ->
                 IF text # <<>> /\ Head(text) = e.token THEN Read(rest, Tail(text)) ELSE {}
            [] e.kind = "blanks" ->
                 IF text # <<>> /\ Head(text) = Blank THEN Read(pattern, Tail(text)) ELSE Read(rest, text)
            [] e.kind = "maybe" ->
                 LET ways == Read(e.part \o rest, text) IN IF ways # {} THEN ways ELSE Read(rest, text)
            [] e.kind = "one" ->
                 IF text # <<>> /\ Head(text) \in e.tokens
                 THEN Given(e.arg, <<Head(text)>>, Read(rest, Tail(text))) ELSE {}
            [] e.kind = "run" ->
                 Longest(e, SelectInSeq(Append(text, Stop), LAMBDA t : t \in e.but \cup {Stop}) - 1, rest, text)

-----------------------------------------------------------------------------
(* The rows, in the order of registration. *)

Row(test, pattern) == [test |-> test, pattern |-> pattern]
Call(name, args) == <<Lit(name), Blanks, Lit("("), Blanks>> \o args \o <<Lit(")")>>
Tight(name, args) == <<Lit(name), Lit("("), Blanks>> \o args \o <<Lit(")")>>
Comma == <<Blanks, Lit(","), Blanks>>
IgnoreCase == Maybe(Comma \o <<OneOf("ignorecase", {"I"})>>)

\* How the two strings are quoted, registration by registration.
StringQuotes == <<
  <<"", "">>, <<dq, "">>, <<"", dq>>, <<"", sq>>, <<"", bq>>, <<bq, "">>, <<sq, "">>, <<dq, dq>>,
  <<sq, sq>>, <<sq, dq>>, <<dq, sq>>, <<bq, bq>>, <<bq, dq>>, <<dq, bq>>, <<bq, sq>>, <<sq, bq>> >>

\* In two of them the blanks come before the flag, and none may follow it.
StringRow(name, q) ==
  Row(name, Call(name, Either("string1", q[1]) \o Comma \o Either("string2", q[2])
                       \o (IF q \in {<<"", sq>>, <<sq, "">>} THEN <<Blanks, IgnoreCase>> ELSE <<IgnoreCase, Blanks>>)))
StringRows(name) == [k \in DOMAIN StringQuotes |-> StringRow(name, StringQuotes[k])]
SearchRows == StringRows("CONTAINS") \o StringRows("STARTS_WITH") \o StringRows("ENDS_WITH")

\* A table's name here may hold quotes and brackets, and no blank.
Counted(name) ==
  Row(name, Call(name, <<Some("queryname", {Blank, "(", ")", ",", bq})>> \o Comma \o <<OneOf("n", {"0", "2"}), Blanks>>))
RowCountRows == <<
  Row("HASROWS", <<Lit("HASROWS"), Lit("("), Some("queryname", {")"}), Lit(")")>>),
  Row("HASROWS", <<Lit("HAS_ROWS"), Lit("("), Some("queryname", {")"}), Lit(")")>>),
  Counted("ROW_COUNT_GT"), Counted("ROW_COUNT_GTE"), Counted("ROW_COUNT_EQ"), Counted("ROW_COUNT_LT") >>

StatusRows == <<
  Row("SQL_ERROR", Tight("SQL_ERROR", <<>>)), Row("DIALOG_CANCELED", Tight("DIALOG_CANCELED", <<>>)),
  Row("METACOMMAND_ERROR", Tight("METACOMMAND_ERROR", <<>>)), Row("CONSOLE_ON", <<Lit("CONSOLE_ON")>>) >>

\* A file's name: bare, of anything but blanks and double quotes, or quoted.
FileName(arg, q) == IF q = "" THEN <<Run(arg, {Blank, dq}, 1, {")"})>> ELSE Quoted(arg, dq)
FileRows == <<
  Row("FILE_EXISTS", Tight("FILE_EXISTS", FileName("filename", ""))),
  Row("FILE_EXISTS", Tight("FILE_EXISTS", FileName("filename", dq))),
  Row("DIRECTORY_EXISTS", Tight("DIRECTORY_EXISTS", <<Some("dirname", {dq, ")"})>>)),
  Row("DIRECTORY_EXISTS", Tight("DIRECTORY_EXISTS", <<Lit(dq), Some("dirname", {dq, ")"}), Lit(dq)>>)) >>

\* A schema and a table, bare, in brackets or in double quotes.
Opening == [bare |-> <<>>, bracket |-> <<Lit("[")>>, quote |-> <<Lit(dq)>>]
Closing == [bare |-> <<>>, bracket |-> <<Lit("]")>>, quote |-> <<Lit(dq)>>]
Table(style) ==
  <<Maybe(Opening[style] \o <<Named("schema")>> \o Closing[style] \o <<Lit(".")>>)>>
  \o Opening[style] \o <<Named("tablename")>> \o Closing[style]
Column(style, quoted) ==
  (IF quoted THEN Quoted("columnname", dq) ELSE <<Name("columnname")>>)
  \o <<Lit(Blank), Blanks, Lit("IN"), Lit(Blank), Blanks>> \o Table(style)

ObjectRows == <<
  Row("SCHEMA_EXISTS", Tight("SCHEMA_EXISTS", <<Named("schema"), Blanks>>)),
  Row("SCHEMA_EXISTS", Tight("SCHEMA_EXISTS", <<Lit(dq), Named("schema"), Lit(dq), Blanks>>)),
  Row("TABLE_EXISTS", Tight("TABLE_EXISTS", Table("bare"))), Row("TABLE_EXISTS", Tight("TABLE_EXISTS", Table("bracket"))),
  Row("TABLE_EXISTS", Tight("TABLE_EXISTS", Table("quote"))),
  Row("TABLE_EXISTS", Tight("TABLE_EXISTS", <<Maybe(<<Name("schema"), Lit(".")>>), Name("tablename")>>)),
  Row("ROLE_EXISTS", Tight("ROLE_EXISTS", <<Named("role"), Blanks>>)),
  Row("ROLE_EXISTS", Tight("ROLE_EXISTS", <<Lit(dq), Named("role"), Lit(dq), Blanks>>)),
  Row("VIEW_EXISTS", Tight("VIEW_EXISTS", <<Some("viewname", {dq, ")"})>>)),
  Row("VIEW_EXISTS", Tight("VIEW_EXISTS", <<Lit(dq), Some("viewname", {dq, ")"}), Lit(dq)>>)),
  Row("COLUMN_EXISTS", Tight("COLUMN_EXISTS", Column("bare", FALSE))),
  Row("COLUMN_EXISTS", Tight("COLUMN_EXISTS", Column("bracket", FALSE))),
  Row("COLUMN_EXISTS", Tight("COLUMN_EXISTS", Column("quote", FALSE))),
  Row("COLUMN_EXISTS", Tight("COLUMN_EXISTS", Column("bare", TRUE))),
  Row("COLUMN_EXISTS", Tight("COLUMN_EXISTS", Column("bracket", TRUE))),
  Row("COLUMN_EXISTS", Tight("COLUMN_EXISTS", Column("quote", TRUE))),
  Row("ALIAS_DEFINED", Call("ALIAS_DEFINED", <<Name("alias"), Blanks>>)) >>

VariableRows == <<
  Row("SUB_DEFINED", Call("SUB_DEFINED", <<Name("match_str"), Blanks>>)),
  Row("SUB_EMPTY", Call("SUB_EMPTY", <<Name("match_str"), Blanks>>)),
  Row("SCRIPT_EXISTS", Call("SCRIPT_EXISTS", <<Name("script_id"), Blanks>>)) >>

CompareRows(name, first, firstOf) == <<
  Row(name, Call(name, <<Some("string1", first)>> \o Comma \o <<Bare("string2"), Blanks>>)),
  Row(name, Call(name, Quoted("string1", dq) \o Comma \o <<Bare("string2"), Blanks>>)),
  Row(name, Call(name, <<Some("string1", firstOf)>> \o Comma \o Quoted("string2", dq) \o <<Blanks>>)),
  Row(name, Call(name, Quoted("string1", dq) \o Comma \o Quoted("string2", dq) \o <<Blanks>>)) >>
EqualRows == CompareRows("EQUAL", {Blank, ")"}, {Blank, ")"})
IdenticalRows == CompareRows("IDENTICAL", {Blank, ",", ")"}, {Blank, ","})

Compared(name) == Row(name, Tight(name, <<Within("value1")>> \o Comma \o <<Within("value2"), Blanks>>))
ValueRows == <<
  Row("IS_NULL", Tight("IS_NULL", <<Lit(dq), Run("item", {dq}, 0, {}), Lit(dq), Blanks>>)),
  Row("IS_ZERO", Tight("IS_ZERO", <<Within("value"), Blanks>>)), Compared("IS_GT"), Compared("IS_GTE"),
  Row("IS_TRUE", Tight("IS_TRUE", <<Within("value"), Blanks>>)), Row("IS_FALSE", Tight("IS_FALSE", <<Within("value"), Blanks>>)) >>

Literal == {"1", "0", "YES", "NO", "FALSE", "TRUE"}
LiteralRow(quote) == Row("literal", quote \o <<OneOf("value", Literal)>> \o quote \o <<Blanks>>)
LiteralRows == << LiteralRow(<<>>), LiteralRow(<<Lit(dq)>>) >>

\* These take an opening parenthesis in the name, and quoted ones a closing one.
DatabaseRow(name, arg) == <<
  Row(name, Tight(name, <<Some(arg, Mark \ {Blank, "(", "."}), Blanks>>)),
  Row(name, Tight(name, <<Lit(dq), Some(arg, Mark \ {Blank, "(", ")", "."}), Lit(dq), Blanks>>)) >>

\* ins_fn_rxs of ins_fn_rxs: the second file's forms within the first's.
NewerRows ==
  << Row("NEWER_FILE", Call("NEWER_FILE", FileName("file1", "") \o Comma \o FileName("file2", "") \o <<Blanks>>)),
     Row("NEWER_FILE", Call("NEWER_FILE", FileName("file1", "") \o Comma \o FileName("file2", dq) \o <<Blanks>>)),
     Row("NEWER_FILE", Call("NEWER_FILE", FileName("file1", dq) \o Comma \o FileName("file2", "") \o <<Blanks>>)),
     Row("NEWER_FILE", Call("NEWER_FILE", FileName("file1", dq) \o Comma \o FileName("file2", dq) \o <<Blanks>>)),
     Row("NEWER_DATE", Call("NEWER_DATE", FileName("file1", "") \o Comma \o <<Some("datestr", {")"}), Blanks>>)),
     Row("NEWER_DATE", Call("NEWER_DATE", FileName("file1", dq) \o Comma \o <<Some("datestr", {")"}), Blanks>>)) >>

CONDITIONAL_TABLE ==
  SearchRows \o RowCountRows \o StatusRows \o FileRows \o ObjectRows \o VariableRows \o EqualRows \o IdenticalRows
  \o ValueRows \o LiteralRows \o DatabaseRow("DBMS", "dbms") \o DatabaseRow("DATABASE_NAME", "dbname") \o NewerRows

=============================================================================
