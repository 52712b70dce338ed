-------------------------------- MODULE Lint --------------------------------
(***************************************************************************)
(* cli/lint.py: what "execsql lint" says of a script without running it,   *)
(* beside what a run of the same script does (script/executor.py).         *)
(*                                                                         *)
(* A script is its nodes in the order of their lines; a node names the     *)
(* block it is in (0: none) and which part of it: 0 the body, k the k-th   *)
(* ELSEIF's, -1 ELSE's.  A text is a sequence of tokens, as in SubVars.    *)
(* The files a script INCLUDEs define neither variables nor SCRIPTs.       *)
(***************************************************************************)
EXTENDS Integers, FiniteSets, SequencesExt

CONSTANTS
  Scripts,   \* the scripts: sequences of nodes
  Files,     \* the files that exist, each as it is written in a script
  MaxFrames  \* bound: how deep blocks and SCRIPTs nest

VARIABLES
  script,      \* the script that is linted, and run
  issues,      \* what lint says of it: [code, at, of]
  frames,      \* the bodies being run, innermost last: [list, of, inside]
  subvars,     \* the variables of the run
  locals,      \* the ~ variables of main and of the SCRIPTs it called
  ast_scripts, \* the SCRIPTs that are registered: their names -> their nodes
  executed,    \* the nodes that have run
  ran,         \* the text that ran last: [at, text], and the variables read in it
  failed       \* the INCLUDE or EXECUTE SCRIPT that failed, or 0

vars == <<script, issues, frames, subvars, locals, ast_scripts, executed, ran, failed>>

Text == INSTANCE SubVars WITH CounterNames <- {}, MaxReplaced <- 100, MaxLength <- 1000

\* The nodes of one part of a block, in their order.
Body(block, branch) ==
  SelectSeq([i \in DOMAIN script |-> i], LAMBDA i : script[i].parent = block /\ script[i].branch = branch)

-----------------------------------------------------------------------------
(* Variables: which ones a script defines, and which references are known. *)

\* SUB ~x and SUB +x define "x".
Bare(name) == IF Head(name) \in {"+", "~", "$", "#"} THEN Tail(name) ELSE name
Extracted(nodes) == UNION { { Bare(name) : name \in script[i].names } : i \in nodes }
\* Mutant: what an ELSE defines is overlooked.
Defined_noElse == Extracted({ i \in DOMAIN script : script[i].branch # -1 })
\* Every node is walked; following EXECUTE SCRIPT to a SCRIPT of the file adds nothing.
Defined == Extracted(DOMAIN script)

\* System variables are known to lint, and ~, + and # variables to the run only.
_is_known_var(name) == Head(name) \in {"$", "~", "+", "#"} \/ name \in Defined

Substituted == "a value"  \* stands for what a known variable is replaced by

Candidates(text) == { r \in Text!References(text) : text[r[1]] = Text!Plain }
Sorted(refs) == SetToSortSeq(refs, LAMBDA r, q : r[1] < q[1])
Resolves(text, r) ==
  LET name == Text!Between(text, r) IN Contains(name, Substituted) \/ _is_known_var(name)

\* One pass, left to right: a candidate that overlaps the last one replaced waits.
Pass(text) ==
  LET Step(done, r) ==
        IF r[1] < done.end \/ ~Resolves(text, r) THEN done
        ELSE [out |-> done.out \o SubSeq(text, done.end, r[1] - 1) \o <<Substituted>>, end |-> r[2] + 1]
      last == FoldLeft(Step, [out |-> <<>>, end |-> 1], Sorted(Candidates(text)))
  IN  last.out \o SubSeq(text, last.end, Len(text))
RECURSIVE Settled(_)
Settled(text) == IF Pass(text) = text THEN text ELSE Settled(Pass(text))

\* The place of a candidate among those that share their marks.
RECURSIVE Place(_, _)
Place(refs, r) == IF \E q \in refs : q[2] = r[1] THEN 1 + Place(refs, CHOOSE q \in refs : q[2] = r[1]) ELSE 1

\* Of candidates that share their marks every second is reported.
_unresolved_var_refs(text) ==
  LET settled == Settled(text)
      refs == Candidates(settled)
      alone(r) == \A q \in refs : q[2] # r[1] /\ q[1] # r[2]
  IN  { Text!Between(settled, r) : r \in { r \in refs : alone(r) \/ Place(refs, r) % 2 = 0 } }

\* The conditions that name a variable without marks.
Tested(clause) == { c.arg : c \in { c \in Range(<<clause.cond>> \o clause.mods) : c.test = "defined" } }
Conditions(clause) == Range(<<clause.cond>> \o clause.mods)
\* Every variable whose reference is somewhere in a text or a condition.
_collect_var_references ==
  LET texts(i) == {script[i].text} \cup
                  UNION { { c.arg : c \in { c \in Conditions(k) : c.test = "free" } } : k \in Range(script[i].clauses) }
  IN  UNION { UNION { { Bare(Text!Between(t, r)) : r \in Candidates(t) } : t \in texts(i) }
              \cup UNION { Tested(k) : k \in Range(script[i].clauses) } : i \in DOMAIN script }

-----------------------------------------------------------------------------
(* The walk over the nodes. *)

\* The last SCRIPT of a name is the one an EXECUTE SCRIPT leads to.
Blocks(name) == { i \in DOMAIN script : script[i].is = "script" /\ script[i].target = name }
script_blocks(name) == CHOOSE i \in Blocks(name) : \A j \in Blocks(name) : j <= i

\* A SCRIPT of one name is walked once: the one that an EXECUTE SCRIPT comes
\* to, or the first in the script.
RECURSIVE _lint_nodes(_, _, _)
_lint_nodes(done, block, branch) ==
  LET Enter(d, i) == FoldLeft(LAMBDA e, b : _lint_nodes(e, i, b), d, [k \in 1 .. Len(script[i].clauses) |-> k - 1] \o <<-1>>)
      Visit(d, i) ==
        LET node == script[i]
            here == [d EXCEPT !.nodes = @ \cup {i}]
            marked == [here EXCEPT !.visited = @ \cup {node.target}]
        IN  IF node.is \notin {"script", "execute"} THEN Enter(here, i)
            ELSE IF node.target \in d.visited \/ Blocks(node.target) = {} THEN here
            ELSE _lint_nodes(marked, IF node.is = "script" THEN i ELSE script_blocks(node.target), 0)
  IN  FoldLeft(Visit, done, Body(block, branch))
Linted == _lint_nodes([nodes |-> {}, visited |-> {}], 0, 0).nodes

\* An ORIF lets the branch run without the file.
_file_exists_guards(clause) ==
  IF \E k \in DOMAIN clause.mods : clause.mods[k].kind = "OR" THEN {}
  ELSE { c.arg : c \in { c \in Conditions(clause) : c.test = "exists" } }

\* The files that the IFs around a node have checked; a SCRIPT's body starts with none.
RECURSIVE guarded(_)
guarded(i) ==
  LET p == script[i].parent
      b == script[i].branch
  IN  IF p = 0 \/ (p > 0 /\ script[p].is = "script") THEN {}
      ELSE guarded(p) \cup (IF script[p].is = "if" /\ b # -1 THEN _file_exists_guards(script[p].clauses[b + 1]) ELSE {})

Issue(code, at, of) == [code |-> code, at |-> at, of |-> of]

_check_var_ref(i) ==
  { Issue("V001", i, name) : name \in { n \in _unresolved_var_refs(script[i].text) : ~_is_known_var(n) } }

_check_unused_variables == { Issue("V002", 0, name) : name \in Defined \ _collect_var_references }

_check_include_path(i) ==
  LET node == script[i]
  IN  IF node.is = "include" /\ ~node.if_exists /\ node.target \notin guarded(i) \cup Files
      THEN {Issue("I001", i, node.target)} ELSE {}

_check_script_target(i) ==
  LET node == script[i]
  IN  IF node.is = "execute" /\ ~node.if_exists /\ Blocks(node.target) = {} THEN {Issue("I002", i, node.target)} ELSE {}

\* An IF with ANDIF or ORIF is never reported; of a constant one, the parts
\* that never run: its body, or its ELSEIFs and its ELSE.
DeadParts(i) ==
  LET first == script[i].clauses[1]
      others == (1 .. Len(script[i].clauses) - 1) \cup {-1}
  IN  IF script[i].is # "if" \/ first.mods # <<>> THEN {}
      ELSE IF first.cond.test = "true" THEN others
      ELSE IF first.cond.test = "false" THEN {0} ELSE {}
_check_constant_condition(i) ==
  { Issue("F001", i, <<b>>) : b \in { b \in DeadParts(i) : b > 0 \/ Body(i, b) # <<>> } }

\* The statement after the first HALT of a body.
_check_unreachable_after_halt(i) ==
  LET body == Body(script[i].parent, script[i].branch)
      halt == SelectInSeq(body, LAMBDA j : script[j].is = "halt")
  IN  IF halt # 0 /\ SelectInSeq(body, LAMBDA j : j = i) = halt + 1 THEN {Issue("F002", i, <<>>)} ELSE {}

lint ==
  UNION { _check_var_ref(i) \cup _check_include_path(i) \cup _check_script_target(i)
          \cup _check_constant_condition(i) \cup _check_unreachable_after_halt(i) : i \in Linted }
  \cup _check_unused_variables

-----------------------------------------------------------------------------
(***************************************************************************)
(* A run of the script.  SCRIPTs at the top and in IFs are registered      *)
(* before it, the others when their block is reached.                      *)
(***************************************************************************)
RECURSIVE FoundEarly(_)
FoundEarly(i) == script[i].parent = 0 \/ (script[script[i].parent].is = "if" /\ FoundEarly(script[i].parent))
_pre_register_scripts ==
  LET found == { i \in DOMAIN script : script[i].is = "script" /\ FoundEarly(i) }
  IN  [name \in { script[i].target : i \in found } |->
         CHOOSE i \in found : script[i].target = name /\ \A j \in found : script[j].target = name => j <= i]

Frame(list, of, inside) == [list |-> list, of |-> of, inside |-> inside]

Visible == Text!merge(subvars, Last(locals))
Outcome(text) == (CHOOSE o \in Text!substitute_vars(text, Visible, <<>>) : TRUE).text
\* The variables whose value a text takes in.
Read(text) == { name \in DOMAIN Visible :
                  Text!substitute_vars(text, Visible, <<>>) # Text!substitute_vars(text, Text!Without(Visible, name), <<>>) }

Init ==
  /\ script \in Scripts
  /\ issues = lint
  /\ frames = <<Frame(Body(0, 0), 0, "main")>>
  /\ subvars = Text!NoVariables /\ locals = <<Text!NoVariables>>
  /\ ast_scripts = _pre_register_scripts
  /\ executed = {}
  /\ ran = [at |-> 0, text |-> <<>>, read |-> {}]
  /\ failed = 0

Top == Last(frames)
Running == frames # <<>> /\ Top.list # <<>>
Node == script[Head(Top.list)]
Rest == Append(Front(frames), [Top EXCEPT !.list = Tail(@)])

\* A statement is reached: it has run, and its text is what its variables make it.
Reached(text, tested) ==
  /\ executed' = executed \cup {Head(Top.list)}
  /\ ran' = [at |-> Head(Top.list), text |-> Outcome(text), read |-> Read(text) \cup tested]

Statement ==
  /\ Running /\ Node.is = "sql"
  /\ Reached(Node.text, {})
  /\ frames' = Rest
  /\ UNCHANGED <<script, issues, subvars, locals, ast_scripts, failed>>

\* SUB, and the metacommands that set several variables.
Define ==
  LET value == Outcome(Node.text)
      local == { name \in Node.names : Head(name) = "~" }
      add(vs, names) == FoldSet(LAMBDA name, w : Text!Set(w, name, value), vs, names)
  IN  /\ Running /\ Node.is = "sub"
      /\ Reached(Node.text, {})
      /\ subvars' = add(subvars, Node.names \ local)
      /\ locals' = Append(Front(locals), add(Last(locals), local))
      /\ frames' = Rest
      /\ UNCHANGED <<script, issues, ast_scripts, failed>>

\* What a condition may be: a test whose outcome lint cannot know is free.
Values(c) ==
  CASE c.test = "true" -> {TRUE} [] c.test = "false" -> {FALSE} [] c.test = "free" -> BOOLEAN
    [] c.test = "exists" -> {c.arg \in Files} [] c.test = "defined" -> {c.arg \in DOMAIN Visible}
\* ANDIF and ORIF, from left to right.
_condition_holds(clause) ==
  FoldLeft(LAMBDA may, mod : UNION { IF (mod.kind = "AND") = value THEN Values(mod) ELSE {value} : value \in may },
           Values(clause.cond), clause.mods)
\* The text of a node: a block's is that of its conditions.
Asked(clause) == FlattenSeq([k \in 1 .. 1 + Len(clause.mods) |->
  LET c == (<<clause.cond>> \o clause.mods)[k] IN IF c.test = "free" THEN c.arg \o <<" ">> ELSE <<>>])
Written(i) ==
  IF script[i].clauses = <<>> THEN script[i].text
  ELSE FlattenSeq([k \in DOMAIN script[i].clauses |-> Asked(script[i].clauses[k])])

EnterBlock ==
  /\ Running /\ Node.is \in {"if", "loop"} /\ Len(frames) < MaxFrames
  /\ Reached(Written(Head(Top.list)),
             UNION { Tested(k) \cap DOMAIN Visible : k \in Range(Node.clauses) })
  /\ \E b \in (0 .. Len(Node.clauses) - 1) \cup {-1} :
       /\ \A k \in 1 .. (IF b = -1 THEN Len(Node.clauses) ELSE b) : FALSE \in _condition_holds(Node.clauses[k])
       /\ b # -1 => TRUE \in _condition_holds(Node.clauses[b + 1])
       /\ frames' = IF Node.is = "loop" /\ b = -1 THEN Rest
                    ELSE Append(Rest, Frame(Body(Head(Top.list), b), Head(Top.list), Node.is))
  /\ UNCHANGED <<script, issues, subvars, locals, ast_scripts, failed>>

\* The end of a body; a LOOP tests its condition again.
EndBody ==
  /\ frames # <<>> /\ Top.list = <<>>
  /\ \/ /\ Top.inside = "loop" => FALSE \in _condition_holds(script[Top.of].clauses[1])
        /\ frames' = Front(frames)
     \/ /\ Top.inside = "loop" /\ TRUE \in _condition_holds(script[Top.of].clauses[1])
        /\ frames' = Append(Front(frames), [Top EXCEPT !.list = Body(Top.of, 0)])
  /\ locals' = IF Top.inside = "script" THEN Front(locals) ELSE locals
  /\ UNCHANGED <<script, issues, subvars, ast_scripts, executed, ran, failed>>

RegisterScript ==
  /\ Running /\ Node.is = "script"
  /\ Reached(<<>>, {})
  /\ ast_scripts' = Text!Set(ast_scripts, Node.target, Head(Top.list))
  /\ frames' = Rest
  /\ UNCHANGED <<script, issues, subvars, locals, failed>>

\* What fails, halts.
Fails ==
  /\ failed' = Head(Top.list)
  /\ frames' = <<>>
  /\ UNCHANGED <<script, issues, subvars, locals, ast_scripts>>

ExecuteScript ==
  /\ Running /\ Node.is = "execute"
  /\ Reached(Node.text, {})
  /\ \/ /\ Node.target \in DOMAIN ast_scripts /\ Len(frames) < MaxFrames
        /\ frames' = Append(Rest, Frame(Body(ast_scripts[Node.target], 0), ast_scripts[Node.target], "script"))
        /\ locals' = Append(locals, Text!NoVariables)
        /\ UNCHANGED <<script, issues, subvars, ast_scripts, failed>>
     \/ /\ Node.target \notin DOMAIN ast_scripts /\ Node.if_exists
        /\ frames' = Rest
        /\ UNCHANGED <<script, issues, subvars, locals, ast_scripts, failed>>
     \/ Node.target \notin DOMAIN ast_scripts /\ ~Node.if_exists /\ Fails

Include ==
  /\ Running /\ Node.is = "include"
  /\ Reached(Node.text, {})
  /\ \/ /\ Node.if_exists \/ Node.target \in Files
        /\ frames' = Rest
        /\ UNCHANGED <<script, issues, subvars, locals, ast_scripts, failed>>
     \/ ~Node.if_exists /\ Node.target \notin Files /\ Fails

Halt ==
  /\ Running /\ Node.is = "halt"
  /\ Reached(<<>>, {})
  /\ frames' = <<>>
  /\ UNCHANGED <<script, issues, subvars, locals, ast_scripts, failed>>

Next ==
  \/ Statement \/ Define \/ EnterBlock \/ EndBody
  \/ RegisterScript \/ ExecuteScript \/ Include \/ Halt

Spec == Init /\ [][Next]_vars

-----------------------------------------------------------------------------
Reported(code) == { issue \in issues : issue.code = code }

\* Where a part of an IF, or what follows a HALT, is said never to run.
InSamePlace(i, j) == script[i].parent = script[j].parent /\ script[i].branch = script[j].branch
Dead ==
  UNION { { i \in DOMAIN script : script[i].parent = x.at /\ <<script[i].branch>> = x.of } : x \in Reported("F001") }
  \cup UNION { { i \in DOMAIN script : InSamePlace(i, x.at) /\ i >= x.at } : x \in Reported("F002") }
RECURSIVE Within(_, _)
Within(i, nodes) == i \in nodes \/ (script[i].parent # 0 /\ Within(script[i].parent, nodes))

\* What is in a SCRIPT may run wherever its block stands.
RECURSIVE InScript(_)
InScript(i) == script[i].is = "script" \/ (script[i].parent # 0 /\ InScript(script[i].parent))

\* A reference that asks for quotes around the value.
QuotedSomewhere(name) ==
  \E i \in DOMAIN script : \E r \in Text!References(script[i].text) :
    script[i].text[r[1]] # Text!Plain /\ Text!Between(script[i].text, r) = name

\* A run bears out what lint warned of: a variable reported undefined is not
\* defined when its text runs, an INCLUDE or EXECUTE SCRIPT reported fails if
\* it is reached, a variable reported unused is neither tested nor read, and a
\* statement reported dead does not run.  Left out, since lint is wrong there:
\* a variable that is read between quoting marks (cli/lint.py:880), and a
\* statement of a SCRIPT whose block is dead and that is executed (:854).
WarningsAreTrue ==
  /\ \A x \in Reported("V001") : ran.at = x.at => x.of \notin DOMAIN subvars
  /\ \A x \in Reported("I001") \cup Reported("I002") : x.at \in executed => failed = x.at
  /\ \A x \in Reported("V002") : x.of \in { Bare(name) : name \in ran.read } => QuotedSomewhere(x.of)
  /\ \A i \in executed : InScript(i) \/ ~Within(i, Dead)

\* What a run has left as it was written and nothing defines: references that
\* stood in the text, none of whose variables that the script defines was missing.
StrangersLeft ==
  LET written == Written(ran.at)
      names(text) == { Text!Between(text, r) : r \in Candidates(text) }
  IN  IF ran.at = 0 \/ \E name \in names(written) : _is_known_var(name) /\ name \notin DOMAIN Visible THEN {}
      ELSE { name \in names(written) \cap names(ran.text) : ~_is_known_var(name) }

\* docs/reference/lint.md:316, "A !!variable!! is referenced, but nothing in
\* the script defines it": a reference that no run could replace is reported,
\* at the statement or, if a variable's value brought it, by its name.
UndefinedIsReported ==
  StrangersLeft # {} => \E x \in Reported("V001") : x.at = ran.at \/ x.of \in StrangersLeft

\* What lint is silent about holds in every run: no statement runs with a
\* reference that nothing defines, and no INCLUDE fails whose file an IF around
\* it should have checked.  Left out, since lint does not look there: the
\* conditions of IF and LOOP (cli/lint.py:829), and the second SCRIPT of a
\* name (:1080).
SilenceIsTrue ==
  (\A i, j \in DOMAIN script : script[i].is = "script" /\ script[j].is = "script" /\ script[i].target = script[j].target => i = j) =>
    /\ ran.at # 0 /\ script[ran.at].clauses = <<>> => UndefinedIsReported
    /\ failed # 0 /\ script[failed].is = "include" => \E x \in Reported("I001") : x.at = failed

\* "execsql lint" and a run of the same script agree, in both directions.
LintAgreesWithRuns == WarningsAreTrue /\ SilenceIsTrue

=============================================================================
