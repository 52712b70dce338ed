------------------------------ MODULE SubVarSets ------------------------------
(***************************************************************************)
(* Sets of substitution variables, and the names they may have (SubVarSet  *)
(* of script/variables.py).                                                *)
(*                                                                         *)
(* A text is a sequence of tokens: the marks of a reference, plain or      *)
(* quoted; those of a deferred one; blanks, commas and quotes; and words.  *)
(* Words side by side are one, and a variable's name is a sequence of      *)
(* words, the first of which may be a prefix.  Case is left out.           *)
(***************************************************************************)
EXTENDS Sequences, FiniteSets, Integers

Plain == "!!"
Mark == {Plain, "!'!", "!dq!"}
Prefix == {"~", "+", "#", "$"}
NotWord == Mark \cup {"!{", "}!", " ", "'", "dq", ",", "=", "\n"}
IsName(s) == s # <<>> /\ \A k \in DOMAIN s : s[k] \notin NotWord /\ (s[k] \in Prefix => k = 1 /\ Len(s) > 1)

NoVariables == [name \in {} |-> <<>>]
Set(vs, name, value) == [n \in (DOMAIN vs) \cup {name} |-> IF n = name THEN value ELSE vs[n]]
Without(vs, name) == [n \in (DOMAIN vs) \ {name} |-> vs[n]]
merge(vs, over) == [n \in (DOMAIN vs) \cup (DOMAIN over) |-> IF n \in DOMAIN over THEN over[n] ELSE vs[n]]
=============================================================================
