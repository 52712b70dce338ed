------------------------------ MODULE Conditions ------------------------------
(***************************************************************************)
(* What IF, ELSEIF, LOOP and WAIT_UNTIL ask, and SET COUNTER computes      *)
(* (parser.py, metacommands/conditions.py): a test read out of its text,   *)
(* an expression of tests and one of numbers parsed and evaluated, and the *)
(* answers of the tests that have siblings.                                *)
(*                                                                         *)
(* A behaviour writes one of these: a documented test (its quotes, blanks  *)
(* and arguments chosen), a condition or a number (a token at a time), or  *)
(* the world the tests are asked about.                                    *)
(***************************************************************************)
EXTENDS ConditionTable, FiniteSetsExt

CONSTANTS
  Registered,      \* the rows build_conditional_table registers: CONDITIONAL_TABLE
  Contents,        \* what a quoted argument may hold
  MaxTokens,       \* bound: tokens of an expression
  Worlds           \* what the tests may be asked about

VARIABLES writes, expr, given

vars == <<writes, expr, given>>

-----------------------------------------------------------------------------
(* The documented tests, as they may be written. *)

Arg(name, value, quote) == [name |-> name, value |-> value, quote |-> quote]
Using(name, values, quotes) == { Arg(name, value, quote) : value \in values, quote \in quotes }
Test(test, args, sep, flags, blanks) ==
  { [test |-> test, args |-> args, sep |-> sep, ignorecase |-> flag, blanks |-> b] : flag \in flags, b \in blanks }
Tests(names, args, sep, flags, blanks) ==
  UNION { Test(name, a, sep, flags, blanks) : name \in names, a \in args }
One(as) == { <<a>> : a \in as }
Two(as, bs) == { <<a, b>> : a \in as, b \in bs }

Word == {<<"ab">>}
NameOrPath == {<<"ab">>, <<"ab", ".", "cd">>}
Close == {"tight", "usual"}                        \* a blank after the comma, or none
Anywhere == Close \cup {"wide"}                    \* one around each part
Plain(name, quotes) == Using(name, Word, quotes)
Odd(name, quotes) == Using(name, Contents, quotes)

\* Two strings, one at least quoted: CONTAINS(ab,cd,I) has two arguments and a
\* flag for its writer alone (and none has a blank after its flag).
Searches ==
  Tests({"CONTAINS", "STARTS_WITH", "ENDS_WITH"},
        Two(Plain("string1", Quote \cup {""}), Plain("string2", Quote) \cup Odd("string2", Quote))
          \cup Two(Odd("string1", Quote), Plain("string2", Quote)),
        ",", BOOLEAN, Close)
Comparisons ==
  Tests({"EQUAL", "IDENTICAL"},
        Two(Plain("string1", {"", dq}), Plain("string2", {"", dq}) \cup Odd("string2", {dq}))
          \cup Two(Odd("string1", {dq}), Plain("string2", {"", dq})),
        ",", {FALSE}, Anywhere)
Objects ==
  UNION { Tests({test[1]}, One(Plain(test[2], {"", dq})), ",", {FALSE}, Close) :
          test \in {<<"SCHEMA_EXISTS", "schema">>, <<"ROLE_EXISTS", "role">>, <<"VIEW_EXISTS", "viewname">>,
                    <<"DBMS", "dbms">>, <<"DATABASE_NAME", "dbname">>} }
  \cup Tests({"TABLE_EXISTS"}, One(Plain("tablename", {"", dq, "["})), ",", {FALSE}, Close)
  \cup Tests({"COLUMN_EXISTS"}, Two(Plain("columnname", {"", dq}), Plain("tablename", {"", dq, "["})), "IN", {FALSE}, Close)
  \cup Tests({"DIRECTORY_EXISTS"}, One(Using("dirname", NameOrPath, {"", dq})), ",", {FALSE}, Close)
  \cup Tests({"FILE_EXISTS"}, One(Using("filename", NameOrPath, {"", dq})), ",", {FALSE}, Close)
  \cup Tests({"NEWER_FILE"}, Two(Using("file1", NameOrPath, {"", dq}), Using("file2", NameOrPath, {"", dq})), ",", {FALSE}, Anywhere)
Values ==
  UNION { Tests({test[1]}, One(Plain(test[2], {""})), ",", {FALSE}, Close) :
          test \in {<<"IS_ZERO", "value">>, <<"IS_TRUE", "value">>, <<"IS_FALSE", "value">>, <<"SUB_DEFINED", "match_str">>,
                    <<"SUB_EMPTY", "match_str">>, <<"ALIAS_DEFINED", "alias">>, <<"SCRIPT_EXISTS", "script_id">>} }
  \cup Tests({"HASROWS"}, One(Using("queryname", NameOrPath, {""})), ",", {FALSE}, Close)
  \cup Tests({"IS_GT", "IS_GTE"}, Two(Plain("value1", {""}), Plain("value2", {""})), ",", {FALSE}, Close)
  \cup Tests({"IS_NULL"}, One(Using("item", Contents \cup {<<>>}, {dq})), ",", {FALSE}, Anywhere)
  \cup Tests({"ROW_COUNT_GT", "ROW_COUNT_GTE", "ROW_COUNT_EQ", "ROW_COUNT_LT"},
             Two(Using("queryname", NameOrPath, {""}), {Arg("n", <<"2">>, "")}), ",", {FALSE}, Anywhere)
  \cup Tests({"SQL_ERROR", "DIALOG_CANCELED", "METACOMMAND_ERROR"}, {<<>>}, ",", {FALSE}, Close)

\* The text of a test, and the conditions that may follow it.
Quoting(quote, value) ==
  CASE quote = "" -> value [] quote = "[" -> <<"[">> \o value \o <<"]">> [] OTHER -> <<quote>> \o value \o <<quote>>
Gap(t, where) == IF t.blanks = "wide" \/ (t.blanks = "usual" /\ where = "after") THEN <<Blank>> ELSE <<>>
Between(t) == IF t.sep = "IN" THEN <<Blank, "IN", Blank>> ELSE Gap(t, "before") \o <<",">> \o Gap(t, "after")
Written(t) ==
  <<t.test, "(">> \o Gap(t, "inside")
  \o FoldLeft(LAMBDA s, k : s \o (IF k = 1 THEN <<>> ELSE Between(t)) \o Quoting(t.args[k].quote, t.args[k].value),
              <<>>, [k \in DOMAIN t.args |-> k])
  \o (IF t.ignorecase THEN Between(t) \o <<"I">> ELSE <<>>) \o Gap(t, "inside") \o <<")">>
Rest == {<<>>, <<Blank, "OR", Blank, "CONTAINS", "(", dq, "cd", dq, ",", dq, "ab", dq, ")">>}
Documented == Searches \cup Comparisons \cup Objects \cup Values
AsWritten(t, rest) ==
  [test |-> t.test, rest |-> rest,
   args |-> { <<t.args[k].name, t.args[k].value>> : k \in DOMAIN t.args }
            \cup (IF t.ignorecase THEN {<<"ignorecase", <<"I">> >>} ELSE {})]

-----------------------------------------------------------------------------
(* The test that a text begins with: the newest pattern that reads it.  (The
   index by first word changes nothing here: a test's name is its own.) *)
Fitting(text) == { k \in DOMAIN Registered : Read(Registered[k].pattern, text) # {} }
ReadBy(k, text) ==
  { [test |-> Registered[k].test, args |-> way.args, rest |-> way.rest] : way \in Read(Registered[k].pattern, text) }
\* Mutant: the rows are tried in the order they were registered.
OldestMatch(text) == LET fits == Fitting(text) IN IF fits = {} THEN {} ELSE ReadBy(Min(fits), text)
get_match(text) == LET fits == Fitting(text) IN IF fits = {} THEN {} ELSE ReadBy(Max(fits), text)

-----------------------------------------------------------------------------
(* The parser of conditions: each of its methods reads a text from its start
   and gives the node it makes and what is left, or nothing when it raises.
   A test is a token here: T and F say yes and no, E raises. *)

Node(type, left, right) == [type |-> type, left |-> left, right |-> right]
Leaf == [type |-> "none"]
Starts(text, token) == text # <<>> /\ Head(text) = token
Got(node, rest) == {[node |-> node, rest |-> rest]}
Asks == {"T", "F", "E"}

RECURSIVE factor(_), term(_), expression(_)
factor(text) ==
  CASE Starts(text, "NOT") -> { [m EXCEPT !.node = Node("NOT", m.node, Leaf)] : m \in factor(Tail(text)) }
    [] text # <<>> /\ Head(text) \in Asks -> Got(Node("CONDITIONAL", Head(text), Leaf), Tail(text))
    [] Starts(text, "(") ->
         { [m EXCEPT !.rest = Tail(@)] : m \in { m \in expression(Tail(text)) : Starts(m.rest, ")") } }
    [] OTHER -> {}
term(text) ==
  UNION { IF Starts(m1.rest, "AND")
          THEN { [m2 EXCEPT !.node = Node("AND", m1.node, m2.node)] : m2 \in term(Tail(m1.rest)) }
          ELSE {m1} : m1 \in factor(text) }
expression(text) ==
  UNION { IF Starts(e1.rest, "OR")
          THEN { [e2 EXCEPT !.node = Node("OR", e1.node, e2.node)] : e2 \in expression(Tail(e1.rest)) }
          ELSE {e1} : e1 \in term(text) }
ParseStart(text) == { m.node : m \in expression(text) }
parse(text) == { m.node : m \in { m \in expression(text) : m.rest = <<>> } }

\* A test that raises ends the evaluation.
RECURSIVE eval(_)
eval(node) ==
  IF node.type = "CONDITIONAL" THEN node.left
  ELSE LET lcond == eval(node.left)
       IN CASE lcond = "E" -> "E"
            [] node.type = "NOT" -> IF lcond = "T" THEN "F" ELSE "T"
            [] node.type = "AND" -> IF lcond = "F" THEN "F" ELSE eval(node.right)
            [] node.type = "OR" -> IF lcond = "T" THEN "T" ELSE eval(node.right)
Answer(text) == { eval(node) : node \in parse(text) }

-----------------------------------------------------------------------------
(* What a condition means: alternatives, of conjunctions, of tests or their
   negations or conditions in parentheses. *)

Depth(text, k) ==
  Cardinality({ j \in 1 .. k : text[j] = "(" }) - Cardinality({ j \in 1 .. k : text[j] = ")" })
Splits(text, tokens) == { k \in DOMAIN text : text[k] \in tokens /\ Depth(text, k) = 0 }
\* The parts of a text between the places it is split at.
Parts(text, at) ==
  LET ends == SetToSortSeq(at \cup {Len(text) + 1}, <)
  IN [n \in DOMAIN ends |-> SubSeq(text, IF n = 1 THEN 1 ELSE ends[n - 1] + 1, ends[n] - 1)]
Balanced(text) == Depth(text, Len(text)) = 0 /\ \A k \in DOMAIN text : Depth(text, k) >= 0
\* The first answer that settles it; the last one when none does.
Settled(answers, by) ==
  LET k == SelectInSeq(answers, LAMBDA a : a \in {"E", by}) IN IF k = 0 THEN Last(answers) ELSE answers[k]

RECURSIVE Meaning(_)
Meaning(text) ==
  LET All(parts, by) ==
        LET answers == [n \in DOMAIN parts |-> Meaning(parts[n])]
        IN IF \E n \in DOMAIN parts : answers[n] = {} THEN {}
           ELSE { Settled([n \in DOMAIN parts |-> CHOOSE a \in answers[n] : TRUE], by) }
  IN CASE ~Balanced(text) \/ text = <<>> -> {}
       [] Splits(text, {"OR"}) # {} -> All(Parts(text, Splits(text, {"OR"})), "T")
       [] Splits(text, {"AND"}) # {} -> All(Parts(text, Splits(text, {"AND"})), "F")
       [] Head(text) = "NOT" -> { CASE a = "T" -> "F" [] a = "F" -> "T" [] OTHER -> a : a \in Meaning(Tail(text)) }
       [] Len(text) = 1 -> {Head(text)} \cap Asks
       [] Head(text) = "(" /\ Last(text) = ")" -> Meaning(SubSeq(text, 2, Len(text) - 1))
       [] OTHER -> {}

-----------------------------------------------------------------------------
(* The parser of numbers, a token each, and what they come to: fractions, and
   none when a divisor is zero.  A sign is a number's when digits follow it. *)

Digit == [d \in {"0", "2"} |-> IF d = "0" THEN 0 ELSE 2]
Digits == DOMAIN Digit
Additive == {"+", "-"}
Multiplying == {"*", "/"}
Signed(text) == Len(text) > 1 /\ text[1] \in Additive /\ text[2] \in Digits
SignedNumber(text) == <<IF text[1] = "-" THEN -Digit[text[2]] ELSE Digit[text[2]], 1>>

RECURSIVE num_factor(_), products(_), sums(_)
num_factor(text) ==
  CASE text # <<>> /\ Head(text) \in Digits -> Got(Node("NUMBER", <<Digit[Head(text)], 1>>, Leaf), Tail(text))
    [] Signed(text) -> Got(Node("NUMBER", SignedNumber(text), Leaf), SubSeq(text, 3, Len(text)))
    [] Starts(text, "(") ->
         { [m EXCEPT !.rest = Tail(@)] :
             m \in { m \in UNION { sums(t) : t \in UNION { products(f) : f \in num_factor(Tail(text)) } } : Starts(m.rest, ")") } }
    [] OTHER -> {}
\* What follows a factor, and a term: each operator takes what is there so far.
products(m) ==
  IF m.rest # <<>> /\ Head(m.rest) \in Multiplying
  THEN UNION { products([r EXCEPT !.node = Node(Head(m.rest), m.node, r.node)]) : r \in num_factor(Tail(m.rest)) }
  ELSE {m}
num_term(text) == UNION { products(m) : m \in num_factor(text) }
sums(m) ==
  IF m.rest # <<>> /\ Head(m.rest) \in Additive
  THEN UNION { sums([r EXCEPT !.node = Node(Head(m.rest), m.node, r.node)]) : r \in num_term(Tail(m.rest)) }
  ELSE {m}
num_expression(text) == UNION { sums(m) : m \in num_term(text) }
num_parse(text) == { m.node : m \in { m \in num_expression(text) : m.rest = <<>> } }

Combine(op, l, r) ==
  CASE op = "*" -> {<<l[1] * r[1], l[2] * r[2]>>}
    [] op = "/" -> IF r[1] = 0 THEN {} ELSE {<<l[1] * r[2], l[2] * r[1]>>}
    [] op = "+" -> {<<l[1] * r[2] + r[1] * l[2], l[2] * r[2]>>}
    [] op = "-" -> {<<l[1] * r[2] - r[1] * l[2], l[2] * r[2]>>}
RECURSIVE num_eval(_)
num_eval(node) ==
  IF node.type = "NUMBER" THEN {node.left}
  ELSE UNION { Combine(node.type, l, r) : l \in num_eval(node.left), r \in num_eval(node.right) }
Amount(text) == UNION { num_eval(node) : node \in num_parse(text) }

\* What it should come to: the last operator outside parentheses that adds
\* (or else that multiplies) is done last.
Operators(text, ops) == { k \in Splits(text, ops) : k > 1 /\ text[k - 1] \in Digits \cup {")"} }
RECURSIVE Worth(_)
Worth(text) ==
  LET At(k) == UNION { Combine(text[k], l, r) :
                         l \in Worth(SubSeq(text, 1, k - 1)), r \in Worth(SubSeq(text, k + 1, Len(text))) }
      last(ops) == At(Max(Operators(text, ops)))
  IN CASE ~Balanced(text) \/ text = <<>> -> {}
       [] Operators(text, Additive) # {} -> last(Additive)
       [] Operators(text, Multiplying) # {} -> last(Multiplying)
       [] Len(text) = 1 /\ Head(text) \in Digits -> {<<Digit[Head(text)], 1>>}
       [] Len(text) = 2 /\ Signed(text) -> {SignedNumber(text)}
       [] Head(text) = "(" /\ Last(text) = ")" -> Worth(SubSeq(text, 2, Len(text) - 1))
       [] OTHER -> {}
Same(a, b) == (a = {} /\ b = {}) \/ \E x \in a, y \in b : x[1] * y[2] = y[1] * x[2]

-----------------------------------------------------------------------------
(* What the tests answer, in a world: nothing when one raises.  A world has a
   table's rows and a count to compare them with (no rows to be had: Failed),
   two values, the times of two files (Failed: there is no such file), and a
   variable's standing in the set its prefix names. *)

Failed == -1
Counts(w) == IF w.rows = Failed THEN {} ELSE {w.rows}
xf_hasrows(w) == { rows > 0 : rows \in Counts(w) }
xf_row_count_gt(w) == { rows > w.n : rows \in Counts(w) }
RowCountAbove(w) == { rows > w.n : rows \in Counts(w) }
xf_row_count_gte(w) == { rows >= w.n : rows \in Counts(w) }
xf_row_count_eq(w) == { rows = w.n : rows \in Counts(w) }
xf_row_count_lt(w) == { rows < w.n : rows \in Counts(w) }

\* A value: what the converters make of it (a set, empty when they fail), its
\* text, and that in lower case.  One that is not a number equals nothing.
Numeric(x) == x.float # {} \/ x.nan
Converters == {"int", "float", "moment", "truth"}
xf_equals(x, y) == { (\E conv \in Converters : x[conv] \cap y[conv] # {}) \/ x.lower = y.lower }
xf_identical(x, y) == {x.text = y.text}
xf_isgt(x, y) == IF Numeric(x) /\ Numeric(y) THEN {\E a \in x.float, b \in y.float : a > b} ELSE {}
xf_isgte(x, y) == IF Numeric(x) /\ Numeric(y) THEN {\E a \in x.float, b \in y.float : a >= b} ELSE {}
xf_iszero(x) == IF Numeric(x) THEN {0 \in x.float} ELSE {}
xf_istrue(x) == {x.lower \in {"yes", "y", "true", "t", "1"}}
xf_isfalse(x) == {x.lower \in {"no", "n", "false", "f", "0"}}
xf_boolliteral(x) == IF x.lower \in {"yes", "no", "true", "false", "1", "0"} THEN {x.lower \in {"true", "yes", "1"}} ELSE {}

\* A set of variables is none where no script runs; a name may not be in it.
xf_sub_defined(w) == {w.variable \in {"empty", "full"}}
xf_sub_empty(w) == IF w.variable \in {"none", "absent"} THEN {} ELSE {w.variable = "empty"}

xf_newer_file(a, b) == IF Failed \in {a, b} THEN {} ELSE {a > b}

-----------------------------------------------------------------------------
Joins(text, token) ==
  LET operand == text # <<>> /\ Last(text) \in Asks \cup Digits \cup {")"}
  IN IF operand THEN token \in {"AND", "OR", ")"} \cup Additive \cup Multiplying
     ELSE token \notin {"AND", "OR", ")"} \cup Multiplying

Init ==
  \/ writes = "test" /\ expr = <<>> /\ given \in Documented
  \/ writes \in {"condition", "number"} /\ expr = <<>> /\ given = Leaf
  \/ writes = "world" /\ expr = <<>> /\ given \in Worlds

WriteTest ==
  /\ writes = "test" /\ expr = <<>>
  /\ \E rest \in Rest : expr' = Written(given) \o rest
  /\ UNCHANGED <<writes, given>>

\* One token may be where none of its kind belongs: what follows is refused.
Write(tokens) ==
  /\ Len(expr) < MaxTokens
  /\ \E token \in tokens :
       /\ \A k \in DOMAIN expr : Joins(SubSeq(expr, 1, k - 1), expr[k])
       /\ expr' = Append(expr, token)
  /\ UNCHANGED <<writes, given>>
Next ==
  \/ WriteTest
  \/ writes = "condition" /\ Write({"NOT", "AND", "OR", "(", ")", "T", "F", "E"})
  \/ writes = "number" /\ Write({"0", "2", "-", "*", "/", "(", ")"})

Spec == Init /\ [][Next]_vars

-----------------------------------------------------------------------------
\* A documented test is read as it was written: the patterns overlap (a bare
\* argument takes quotes and commas, a greedy one all it can), and the newest
\* that fits gives each argument, the flag and the rest of the condition.
ArgumentsAreRead ==
  writes = "test" /\ expr # <<>> =>
    \E n \in 0 .. Len(expr) :
      LET rest == SubSeq(expr, n + 1, Len(expr)) IN rest \in Rest /\ get_match(expr) = {AsWritten(given, rest)}

\* Tests that should not contradict each other do not: one of fewer, as many
\* and more rows; identical values are equal, and equal both ways; greater or
\* equal unless less (but for what is no number); never true and false, and a
\* literal as its test; a variable is empty only if defined; newer one way.
SiblingsAgree(w) ==
    LET x == w.x
        y == w.y
    IN /\ Cardinality({ test \in {1, 2, 3} : TRUE \in <<xf_row_count_lt(w), xf_row_count_eq(w), xf_row_count_gt(w)>>[test] })
            = (IF w.rows = Failed THEN 0 ELSE 1)
       /\ xf_row_count_gte(w) = { ~less : less \in xf_row_count_lt(w) }
       /\ w.n = 0 => xf_hasrows(w) = xf_row_count_gt(w)
       /\ TRUE \in xf_identical(x, y) => TRUE \in xf_equals(x, y)
       /\ xf_equals(x, y) = xf_equals(y, x)
       /\ ~x.nan /\ ~y.nan => xf_isgte(x, y) = { ~less : less \in xf_isgt(y, x) }
       /\ y.float = {0} /\ xf_iszero(x) = {TRUE} => xf_equals(x, y) = {TRUE}
       /\ ~(xf_istrue(x) = {TRUE} /\ xf_isfalse(x) = {TRUE})
       /\ xf_boolliteral(x) # {} => xf_boolliteral(x) = xf_istrue(x) /\ xf_isfalse(x) # xf_istrue(x)
       /\ (xf_sub_empty(w) = {}) = (xf_sub_defined(w) = {FALSE})
       /\ ~(xf_newer_file(w.time1, w.time2) = {TRUE} /\ xf_newer_file(w.time2, w.time1) = {TRUE})

\* A condition, or a number, is accepted exactly when it is well formed, and
\* comes to what it says: OR of ANDs of tests and negations, asked from the
\* left until settled, one that raises ending it; products before sums, each
\* done from the left.  And the tests asked do not contradict each other.
EvaluatesAsWritten ==
  /\ writes = "condition" => Answer(expr) = Meaning(expr)
  /\ writes = "number" => Same(Amount(expr), Worth(expr))
  /\ writes = "world" => SiblingsAgree(given)
=============================================================================
