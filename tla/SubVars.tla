-------------------------------- MODULE SubVars --------------------------------
(***************************************************************************)
(* Expansion: what the references in a command's text are replaced by      *)
(* (SubVarSet and CounterVars of script/variables.py, substitute_vars of   *)
(* script/engine.py).  Texts are those of SubVarSets.                      *)
(***************************************************************************)
EXTENDS SubVarSets, SequencesExt

CONSTANTS
  CounterNames,     \* \subseteq Seq(words)
  MaxReplaced,      \* 100 in the code: replacements of one pass, and passes
  MaxLength         \* the longest text a command may come to (max_substitution_bytes)

-----------------------------------------------------------------------------
(* One replacement. *)

Between(text, r) == SubSeq(text, r[1] + 1, r[2] - 1)
\* The references of a text: a mark, a name, the same mark.
References(text) ==
  LET marks == { k \in DOMAIN text : text[k] \in Mark }
  IN { r \in marks \X marks : r[1] < r[2] /\ text[r[2]] = text[r[1]] /\ IsName(Between(text, r)) }
First(refs) == { r \in refs : \A other \in refs : r[1] <= other[1] }
\* The first whose variable is defined, undefined ones skipped with their marks.
RECURSIVE Scan(_, _, _)
Scan(text, names, from) ==
  LET first == First({ r \in References(text) : r[1] >= from })
  IN UNION { IF Between(text, r) \in names THEN {r} ELSE Scan(text, names, r[2] + 1) : r \in first }
TokensOnly(text, names) == {}
\* One inside another's name is found by its variable, whichever comes first,
\* as an unquoted reference if there is one.
ByMark == <<Plain, "!'!", "!dq!">>
_substitute_nested(text, names) ==
  LET found == { r \in References(text) : Between(text, r) \in names }
      of(name, k) == First({ r \in found : Between(text, r) = name /\ text[r[1]] = ByMark[k] })
  IN UNION { of(name, SelectInSeq(ByMark, LAMBDA mark : \E r \in found : Between(text, r) = name /\ text[r[1]] = mark)) :
             name \in { Between(text, r) : r \in found } }

Doubled(value, quote) == FlattenSeq([k \in DOMAIN value |-> IF value[k] = quote THEN <<quote, quote>> ELSE <<value[k]>>])
Quoted(value, mark) ==
  CASE mark = Plain -> value
    [] mark = "!'!" -> <<"'">> \o Doubled(value, "'") \o <<"'">>
    [] OTHER -> <<"dq">> \o Doubled(value, "dq") \o <<"dq">>
Replaced(text, r, value) ==
  SubSeq(text, 1, r[1] - 1) \o Quoted(value, text[r[1]]) \o SubSeq(text, r[2] + 1, Len(text))
substitute(text, vs) ==
  LET scanned == Scan(text, DOMAIN vs, 1)
  IN { Replaced(text, r, vs[Between(text, r)]) :
         r \in IF scanned # {} THEN scanned ELSE _substitute_nested(text, DOMAIN vs) }

-----------------------------------------------------------------------------
(* All of them: variables until there are none, then counters, and again. *)

Outcome(text, cs, raised) == [text |-> text, counters |-> cs, raised |-> raised]

RECURSIVE substitute_all(_, _, _)
substitute_all(text, vs, n) ==
  LET next == substitute(text, vs)
  IN CASE next = {} -> {text}
       [] n + 1 >= MaxReplaced -> {<<"raises">>}
       [] OTHER -> UNION { substitute_all(t, vs, n + 1) : t \in next }

\* A counter counts once, for all the references in the text.
Counted(text) == First({ r \in References(text) : text[r[1]] = Plain /\ Between(text, r) \in CounterNames })
\* Mutant: the first of them only.
FirstOne(text, name, value) ==
  LET at == First({ r \in References(text) : text[r[1]] = Plain /\ Between(text, r) = name })
  IN IF at = {} THEN text ELSE Replaced(text, CHOOSE r \in at : TRUE, value)
RECURSIVE EveryOne(_, _, _)
EveryOne(text, name, value) ==
  LET at == First({ r \in References(text) : text[r[1]] = Plain /\ Between(text, r) = name })
  IN IF at = {} THEN text ELSE LET r == CHOOSE r \in at : TRUE IN EveryOne(Replaced(text, r, value), name, value)
RECURSIVE count_all(_, _)
count_all(text, cs) ==
  IF Counted(text) = {} THEN Outcome(text, cs, "no")
  ELSE LET name == CHOOSE name \in { Between(text, r) : r \in Counted(text) } : TRUE
           n == cs[name] + 1
       IN count_all(EveryOne(text, name, <<ToString(n)>>), [cs EXCEPT ![name] = n])

\* A pass that replaced something may have made something to replace.
RECURSIVE Passes(_, _, _, _)
Passes(text, vs, cs, n) ==
  UNION { IF t = <<"raises">> THEN {Outcome(text, cs, "uncaught")}
          ELSE LET o == count_all(t, cs)
               IN CASE o.text = text -> {o}
                    [] Len(o.text) > MaxLength -> {[o EXCEPT !.raised = "error"]}
                    [] n + 1 >= MaxReplaced -> {[o EXCEPT !.raised = "error"]}
                    [] OTHER -> Passes(o.text, vs, o.counters, n + 1) :
          t \in substitute_all(text, vs, 0) }

\* A deferred reference becomes a reference.
Undeferred(text) == [k \in DOMAIN text |-> IF text[k] \in {"!{", "}!"} THEN Plain ELSE text[k]]
substitute_vars(text, vs, cs) == { [o EXCEPT !.text = Undeferred(@)] : o \in Passes(text, vs, cs, 0) }
=============================================================================
