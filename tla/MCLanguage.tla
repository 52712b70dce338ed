----------------------------- MODULE MCLanguage -----------------------------
(***************************************************************************)
(* The script language on small instances, in one run: the walker that     *)
(* runs a script (Executor, whose main script and included file define a   *)
(* SCRIPT each, a third file lying outside include_root), the parser, the  *)
(* conditions and numbers, and the variables.  Which of them moves is      *)
(* chosen at the start, and the others stay as they are: they share no     *)
(* state, and a property of one is a property of its part.  Executor,      *)
(* ScriptParser and Scopes are extended, the others are instances.         *)
(***************************************************************************)
EXTENDS Executor, ScriptParser, Scopes

VARIABLES
  part,
  writes, expr, given  \* Conditions

conditionVars == <<writes, expr, given>>

SomeFiles == {"main", "included", "outside"}

SomeDefs == [f \in SomeFiles |-> CASE f = "main" -> {"s"} [] f = "included" -> {"t"} [] OTHER -> {}]

SomeLines == {"sql", "sql;", "--", "/*", "*/", "blank", "cmd", "BEGIN_SQL", "END_SQL", "ELSEIF", "ELSE",
              "IF", "LOOP", "BEGIN_SCRIPT", "ENDIF", "END_SCRIPT"}

\* A value of a test: what each converter makes of its text.
Value(int, float, moment, truth, lower, as) ==
  [int |-> int, float |-> float, nan |-> lower = "nan", moment |-> moment, truth |-> truth, lower |-> lower, text |-> as]
ANumber == Value({1}, {1}, {}, {TRUE}, "1", "1")
TestValues == {ANumber, Value({}, {1}, {}, {}, "1.0", "1.0"), Value({0}, {0}, {}, {FALSE}, "0", "0"),
  Value({}, {0}, {}, {}, "-0.0", "-0.0"), Value({}, {}, {}, {}, "nan", "NaN"), Value({}, {}, {}, {TRUE}, "true", "TRUE"),
  Value({}, {}, {}, {FALSE}, "n", "N"), Value({}, {}, {7}, {}, "7 may 2020", "7 May 2020"),
  Value({}, {}, {7}, {}, "2020-05-07", "2020-05-07"), Value({}, {}, {}, {}, "ab", "ab"), Value({}, {}, {}, {}, "ab", "AB")}
World(rows, n, x, y, variable, time) ==
  [rows |-> rows, n |-> n, x |-> x, y |-> y, variable |-> variable, time1 |-> time, time2 |-> 0]
Tests == INSTANCE ConditionTable
Registered == Tests!CONDITIONAL_TABLE
Condition == INSTANCE Conditions WITH
  Contents <- {<<"ab", " ", "cd">>, <<"ab", ",", "cd">>, <<")">>, <<"I">>, <<" ", "AND", "(">>},
  MaxTokens <- 6,
  Worlds <- {World(0, 0, x, y, "full", 0) : x \in TestValues, y \in TestValues}
            \cup {World(rows, n, ANumber, ANumber, v, t) :
                    rows \in {-1, 0, 1}, n \in {0, 1}, v \in {"none", "absent", "empty", "full"}, t \in {-1, 0, 1}}

C(kind, words) == [kind |-> kind, text |-> words]
Ref(name) == <<"!!">> \o name \o <<"!!">>
SomeCommands == {
    C("SQL", Ref(<<"N", "!!", "a", "!!", "C">>)), C("SQL", Ref(<<"$", "n">>) \o <<" ">> \o Ref(<<"$", "n">>)),
    C("SQL", <<"!'!", "~", "a", "!'!">>), C("SQL", Ref(<<"b">>) \o Ref(<<"#", "p">>)),
    C("SUB", <<"a", " ", "x">>), C("SUB", <<"a", " ", "!{", "b", "}!">>), C("SUB", <<"N", "x", "C", " ", "y">>),
    C("SUB", <<"b", " ", "!{", "a", "}!">>),
    C("SUB", <<"~", "a", " ", "y">>), C("SUB", <<"+", "a", " ">> \o Ref(<<"~", "a">>)),
    C("SUB_APPEND", <<"+", "a", " ", "y">>), C("SUB_EMPTY", <<"a">>), C("SUB_LOCAL", <<"a", " ", "'">>),
    C("RM_SUB", <<"~", "a">>), C("SUBDATA", <<"+", "a", " ", "t">>),
    C("EXECUTE SCRIPT", <<"p", "=">> \o Ref(<<"~", "a">>)), C("EXECUTE SCRIPT", <<"q", "=", "x">>),
    C("EXECUTE SCRIPT", <<"q", "=", "y", ",", "p", "=">> \o Ref(<<"a">>))}
SomeParameters == {[name |-> "p", default |-> {}], [name |-> "q", default |-> {<<"d">>}]}
SomeCounters == {<<"$", "n">>}
Expansion == INSTANCE SubVars WITH CounterNames <- SomeCounters, MaxReplaced <- 5, MaxLength <- 8
Expanded(written, vs, cs) == Expansion!substitute_vars(written, vs, cs)

-----------------------------------------------------------------------------
ParserIdle == text = <<>> /\ phase = "reading" /\ p = Start(TRUE)
ConditionIdle == writes = "condition" /\ expr = <<>> /\ given = Condition!Leaf

LanguageInit ==
  /\ Init
  /\ VariablesInit
  /\ \/ part \in {"executor", "variables"} /\ ParserIdle /\ ConditionIdle
     \/ part = "parser" /\ ParserInit /\ ConditionIdle
     \/ part = "condition" /\ Condition!Init /\ ParserIdle

\* A condition is read at every length; the variables' run ends at its bound.
Evaluated == UNCHANGED conditionVars
Ended == (left = 0 \/ standing = "ended") /\ UNCHANGED variableVars

LanguageNext ==
  /\ UNCHANGED part
  /\ part # "executor" => UNCHANGED vars
  /\ part # "parser" => UNCHANGED parserVars
  /\ part # "condition" => UNCHANGED conditionVars
  /\ part # "variables" => UNCHANGED variableVars
  /\ \/ part = "executor" /\ Next
     \/ part = "parser" /\ ParserNext
     \/ part = "condition" /\ (Condition!Next \/ Evaluated)
     \/ part = "variables" /\ (VariablesNext \/ Ended)

Rest == <<part, parserVars, conditionVars, variableVars>>

\* The machinery of the walker goes on, as in its LiveSpec.
LanguageSpec ==
  /\ LanguageInit /\ [][LanguageNext]_<<vars, Rest>>
  /\ WF_<<vars, Rest>>(part = "executor" /\ Machinery /\ UNCHANGED Rest)

-----------------------------------------------------------------------------
\* A documented test is read as it was written, a condition or a number is
\* evaluated as it says, and related tests do not contradict each other.
ConditionsAreRead == part = "condition" => Condition!ArgumentsAreRead /\ Condition!EvaluatesAsWritten

\* What is sent to the database has no reference left to a variable that is
\* defined where it runs, nested in another's name or brought in by a value.
NothingDefinedIsLeft ==
  ran.kind = "SQL" /\ standing = "running" =>
    \A r \in Expansion!References(ran.text) : Expansion!Between(ran.text, r) \notin DOMAIN Visible

\* A command runs as it is expanded: nothing defined is left of what is sent to
\* the database, a script that is called has an argument for each parameter,
\* and a counter is counted once however often the command names it.
CommandsAreExpanded == [][NothingDefinedIsLeft' /\ ArgumentsArrive /\ CountsOnce]_variableVars
=============================================================================
