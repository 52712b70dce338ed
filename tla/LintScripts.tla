---------------------------- MODULE LintScripts -----------------------------
(***************************************************************************)
(* The scripts that MCParts has Lint look at: every one of up to two nodes *)
(* of these kinds, nested in every way, those of three whose first is a    *)
(* block and whose others are the commonest, and SCRIPTs whose block       *)
(* stands behind a HALT.                                                   *)
(***************************************************************************)
EXTENDS Integers, Sequences

Reference(name) == <<"!!">> \o name \o <<"!!">>
A == <<"a">>
B == <<"b">>
C(test, arg) == [kind |-> "AND", test |-> test, arg |-> arg]
Or(test, arg) == [kind |-> "OR", test |-> test, arg |-> arg]
Clause(cond, mods) == [cond |-> cond, mods |-> mods]
Kind(is, text, names, clauses, target, if_exists) ==
  [is |-> is, text |-> text, names |-> names, clauses |-> clauses, target |-> target, if_exists |-> if_exists]
Sql(text) == Kind("sql", text, {}, <<>>, "", FALSE)
Sub(names, text) == Kind("sub", text, names, <<>>, "", FALSE)
If(clauses) == Kind("if", <<>>, {}, clauses, "", FALSE)
Loop == Kind("loop", <<>>, {}, <<Clause(C("free", <<>>), <<>>)>>, "", FALSE)
Execute(name, if_exists) == Kind("execute", <<>>, {}, <<>>, name, if_exists)
Script(name) == Kind("script", <<>>, {}, <<>>, name, FALSE)
IncludeOf(file, if_exists) == Kind("include", <<>>, {}, <<>>, file, if_exists)
HaltNow == Kind("halt", <<>>, {}, <<>>, "", FALSE)

Leaves == {
  Sql(Reference(A)), Sql(Reference(B)), Sql(<<"!!", "a", "!!", "b", "!!">>), Sql(<<"!'!", "a", "!'!">>),
  Sql(<<"!!", "n", "!!", "a", "!!", "c", "!!">>),
  Sub({A}, <<"x">>), Sub({B}, Reference(A)), Sub({<<"~", "a">>}, <<"x">>), Sub({A, B}, <<"x">>),
  Execute("s", FALSE), Execute("s", TRUE), IncludeOf("f", FALSE), IncludeOf("f", TRUE), IncludeOf("g", FALSE), HaltNow}
Openers == {
  If(<<Clause(C("true", ""), <<>>)>>), If(<<Clause(C("false", ""), <<>>)>>),
  If(<<Clause(C("free", Reference(A)), <<>>), Clause(C("true", ""), <<>>)>>),
  If(<<Clause(C("defined", A), <<>>)>>),
  If(<<Clause(C("exists", "f"), <<>>)>>), If(<<Clause(C("free", <<>>), <<C("exists", "f")>>)>>),
  If(<<Clause(C("exists", "f"), <<Or("free", <<>>)>>)>>),
  Loop, Script("s")}

Few == {Sql(Reference(A)), Sub({A}, <<"x">>), Execute("s", FALSE), IncludeOf("f", FALSE), HaltNow}

At(kind, parent, branch) == [is |-> kind.is, text |-> kind.text, names |-> kind.names, clauses |-> kind.clauses,
                             target |-> kind.target, if_exists |-> kind.if_exists, parent |-> parent, branch |-> branch]
\* The parts of a block that a node may be in.
Parts(kind) ==
  CASE kind.is = "if" -> (0 .. Len(kind.clauses) - 1) \cup {-1}
    [] kind.is \in {"loop", "script"} -> {0}
    [] OTHER -> {}
Top1 == {<<At(k, 0, 0)>> : k \in Leaves \cup Openers}
\* One node more, in a block that is open at the end of the script, no earlier a part of it than the last.
OpenAt(s) ==
  LET Around[i \in 0 .. Len(s)] == IF i = 0 THEN {} ELSE {i} \cup Around[s[i].parent]
  IN  Around[Len(s)]
Rank(b) == IF b = -1 THEN 9 ELSE b
Places(s) ==
  {<<0, 0>>} \cup
  UNION { {<<i, b>> : b \in { b \in Parts(s[i]) : \A j \in DOMAIN s : s[j].parent = i => Rank(s[j].branch) <= Rank(b) }} : i \in OpenAt(s) }
Longer(scripts, kinds) == UNION { { Append(s, At(k, p[1], p[2])) : k \in kinds, p \in Places(s) } : s \in scripts }
Short == Top1 \cup Longer(Top1, Leaves \cup Openers)
\* A SCRIPT whose block stands after the HALT that the main script ends with.
Called == Longer({<<At(Execute("s", FALSE), 0, 0), At(HaltNow, 0, 0), At(Script("s"), 0, 0)>>}, Leaves)
Opened == {<<At(k, 0, 0)>> : k \in Openers}
Deeper == Longer(Longer(Opened, Few), Few)
Scripts == Short \cup Called \cup Deeper
=============================================================================
