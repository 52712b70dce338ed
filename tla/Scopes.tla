-------------------------------- MODULE Scopes --------------------------------
(***************************************************************************)
(* The scopes of substitution variables: whose variables the metacommands  *)
(* set (metacommands/data.py, get_subvarset of utils/strings.py, the       *)
(* scopes of state.py), and what a script called with arguments sees       *)
(* (script/executor.py).  What a command's text expands to is SubVars'.    *)
(***************************************************************************)
EXTENDS SubVarSets, SequencesExt, Functions

CONSTANTS
  Commands,         \* [kind |-> ..., text |-> ...]: what a script may run
  Declared,         \* the parameters of the one SCRIPT: [name |-> ..., default |-> a set, empty if required]
  CounterNames,     \* \subseteq Seq(words)
  Expansions(_, _, _),  \* what a text, variables and counters may come to: [text, counters, raised]
  MaxScopes,        \* bound: main and the scripts it calls
  MaxCommands       \* bound: commands run, and returns

CommandKinds == {"SQL", "SUB", "SUB_APPEND", "SUB_EMPTY", "SUB_LOCAL", "RM_SUB", "SUBDATA", "EXECUTE SCRIPT"}
ASSUME CommandsAssumption == \A c \in Commands : c.kind \in CommandKinds

VARIABLES
  subvars,          \* the variables of the run: name -> value
  scopes,           \* the scopes, innermost last: [locals, params]
  counters,         \* counter -> its value (0: not there)
  ran,              \* the last command: as it was, and as it ran
  left,             \* commands left of the bound
  standing          \* "running", or "ended": an expansion raised what nothing catches

variableVars == <<subvars, scopes, counters, ran, left, standing>>

-----------------------------------------------------------------------------
(* The scopes, and whose variables a metacommand sets. *)

Deepest == Len(scopes)
_stack_localvars == merge(scopes[Deepest].locals, scopes[Deepest].params)
Visible == merge(subvars, _stack_localvars)

\* Mutant: the first scope entered that has it.
FarthestOuter(name) ==
  LET having == { k \in 1 .. Deepest - 1 : name \in DOMAIN scopes[k].locals }
  IN { k \in having : \A j \in having : k <= j }
\* The outer scope that has the variable: the nearest.
Outer(name) ==
  LET having == { k \in 1 .. Deepest - 1 : name \in DOMAIN scopes[k].locals }
  IN { k \in having : \A j \in having : j <= k }
Local(name) == <<"~">> \o Tail(name)
\* Whose variables: those of the run (0), of a scope, or none: an error.
get_subvarset(name) ==
  CASE Head(name) = "+" -> Outer(Local(name))
    [] Head(name) = "~" -> {Deepest}
    [] OTHER -> {0}
Assign(k, change(_)) ==
  /\ subvars' = IF k = 0 THEN change(subvars) ELSE subvars
  /\ scopes' = IF k = 0 THEN scopes ELSE [scopes EXCEPT ![k].locals = change(@)]
Key(name) == IF Head(name) = "+" THEN Local(name) ELSE name

\* A metacommand's variable is what stands before the first blank.
Parts(text) == LET k == SelectInSeq(Append(text, " "), LAMBDA t : t = " ")
               IN [name |-> SubSeq(text, 1, k - 1), rest |-> SubSeq(text, k + 1, Len(text))]
Names(text, prefixes) ==
  LET name == Parts(text).name IN IsName(name) /\ (Head(name) \in Prefix => Head(name) \in prefixes)

\* A command the dispatch table does not know, or one that fails, changes nothing.
Fails == UNCHANGED <<subvars, scopes>>
Change(text, prefixes, change(_, _)) ==
  LET name == Parts(text).name
  IN IF Names(text, prefixes) /\ get_subvarset(name) # {}
     THEN \E k \in get_subvarset(name) : Assign(k, LAMBDA vs : change(vs, Key(name)))
     ELSE Fails

x_sub(text) == Change(text, {"+", "~"}, LAMBDA vs, name : Set(vs, name, Parts(text).rest))
x_sub_empty(text) == Change(text, {"+", "~"}, LAMBDA vs, name : Set(vs, name, <<>>))
x_sub_append(text) ==
  Change(text, {"+", "~"}, LAMBDA vs, name :
    Set(vs, name, IF name \in DOMAIN vs THEN vs[name] \o <<"\n">> \o Parts(text).rest ELSE Parts(text).rest))
x_rm_sub(text) == Change(text, {"~"}, Without)
x_sub_local(text) ==
  LET name == Parts(text).name
      local == IF Head(name) = "~" THEN name ELSE <<"~">> \o name
  IN IF Names(text, {"~"}) THEN Assign(Deepest, LAMBDA vs : Set(vs, local, Parts(text).rest)) ELSE Fails
\* The variable is removed before the query runs: it stays so when that fails.
x_subdata(text) ==
  \/ Change(text, {"+", "~"}, Without)
  \/ Change(text, {"+", "~"}, LAMBDA vs, name : Set(Without(vs, name), name, <<"data">>))

-----------------------------------------------------------------------------
(* Calling a script. *)

\* The arguments, at the commas; one without its name and value is not one.
Pieces(text) ==
  LET ends == <<0>> \o SetToSortSeq({ k \in DOMAIN text : text[k] = "," } \cup {Len(text) + 1}, <)
  IN [n \in 1 .. Len(ends) - 1 |-> SubSeq(text, ends[n] + 1, ends[n + 1] - 1)]
IsArgument(piece) == Len(piece) > 2 /\ piece[2] = "="
Passed(text) == SelectSeq(Pieces(text), IsArgument)
_script_args(text) ==
  LET given == FoldLeft(LAMBDA vs, arg : Set(vs, <<"#", arg[1]>>, SubSeq(arg, 3, Len(arg))), NoVariables, Passed(text))
  IN FoldSet(LAMBDA p, vs : IF p.default = {} \/ <<"#", p.name>> \in DOMAIN given THEN vs
                            ELSE Set(vs, <<"#", p.name>>, CHOOSE d \in p.default : TRUE),
             given, Declared)
\* Mutant: a required parameter may be left out.
Missing_none(text) == {}
Missing(text) == { p \in Declared : p.default = {} /\ <<"#", p.name>> \notin DOMAIN _script_args(text) }
_execute_script_native(text) ==
  IF Missing(text) # {} THEN Fails
  ELSE /\ Deepest < MaxScopes
       /\ scopes' = Append(scopes, [locals |-> NoVariables, params |-> _script_args(text)])
       /\ UNCHANGED subvars

-----------------------------------------------------------------------------
VariablesInit ==
  /\ subvars = NoVariables
  /\ scopes = <<[locals |-> NoVariables, params |-> NoVariables]>>
  /\ counters = [c \in CounterNames |-> 0]
  /\ ran = [kind |-> "", text |-> <<>>]
  /\ left = MaxCommands
  /\ standing = "running"

Handled(kind, text) ==
  CASE kind = "SQL" -> Fails
    [] kind = "SUB" -> x_sub(text)
    [] kind = "SUB_APPEND" -> x_sub_append(text)
    [] kind = "SUB_EMPTY" -> x_sub_empty(text)
    [] kind = "SUB_LOCAL" -> x_sub_local(text)
    [] kind = "RM_SUB" -> x_rm_sub(text)
    [] kind = "SUBDATA" -> x_subdata(text)
    [] kind = "EXECUTE SCRIPT" -> _execute_script_native(text)

\* A command is expanded once, and what comes of it is what runs.
Run ==
  /\ \E c \in Commands : \E o \in Expansions(c.text, Visible, counters) :
       /\ counters' = o.counters
       /\ ran' = [kind |-> IF o.raised = "no" THEN c.kind ELSE "failed", text |-> o.text]
       /\ standing' = IF o.raised = "uncaught" THEN "ended" ELSE standing
       /\ IF o.raised = "no" THEN Handled(c.kind, o.text) ELSE Fails

Return ==
  /\ Deepest > 1
  /\ scopes' = Front(scopes)
  /\ ran' = [kind |-> "return", text |-> <<>>]
  /\ UNCHANGED <<subvars, counters, standing>>

\* RESET COUNTER, RESET COUNTERS, and SET COUNTER with its number floored.
ResetCounter ==
  /\ \E c \in CounterNames, n \in {0, 5} : counters' = [counters EXCEPT ![c] = n]
  /\ ran' = [kind |-> "counter", text |-> <<>>]
  /\ UNCHANGED <<subvars, scopes, standing>>

VariablesNext ==
  /\ standing = "running" /\ left > 0
  /\ left' = left - 1
  /\ Run \/ Return \/ ResetCounter
VariablesSpec == VariablesInit /\ [][VariablesNext]_variableVars

-----------------------------------------------------------------------------
\* The locals of scope k that a step sets or removes.
Touched(k) ==
  LET before == scopes[k].locals
      after == scopes'[k].locals
  IN { n \in (DOMAIN before) \cup (DOMAIN after) :
         ~(n \in (DOMAIN before) \cap (DOMAIN after) /\ after[n] = before[n]) }

\* A script leaves its callers' variables alone but for the one it names with
\* "+", in the nearest scope that has it; nobody's arguments change; a call
\* starts with no locals, and a return leaves the caller's as they were.
ScopesAreKept ==
  LET outer == { k \in 1 .. Deepest - 1 : k <= Len(scopes') /\ Touched(k) # {} }
  IN /\ \A k \in outer :
          /\ outer = {k} /\ Len(scopes') = Deepest
          /\ \E n \in DOMAIN scopes[k].locals :
               /\ Touched(k) = {n}
               /\ \A j \in k + 1 .. Deepest - 1 : n \notin DOMAIN scopes[j].locals
     /\ \A k \in (DOMAIN scopes) \cap (DOMAIN scopes') : scopes'[k].params = scopes[k].params
     /\ Len(scopes') > Deepest =>
          Len(scopes') = Deepest + 1 /\ scopes'[Deepest + 1].locals = NoVariables
ScopesStayKept == [][ScopesAreKept]_variableVars

\* A script that is called sees an argument for each of its parameters: one
\* that was passed under its name, or the default where none was.
ArgumentsArrive ==
  Len(scopes') > Deepest =>
    \A p \in Declared :
      LET passed == { arg \in Range(Passed(ran'.text)) : arg[1] = p.name }
          seen == scopes'[Deepest + 1].params
      IN /\ <<"#", p.name>> \in DOMAIN seen
         /\ seen[<<"#", p.name>>] \in IF passed = {} THEN p.default
                                      ELSE { SubSeq(arg, 3, Len(arg)) : arg \in passed }

\* A command counts a counter once, however often it names it.
CountsOnce ==
  ran'.kind # "counter" => \A c \in CounterNames : counters'[c] \in {counters[c], counters[c] + 1}
=============================================================================
