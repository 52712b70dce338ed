---------------------------- MODULE BatchLevels ----------------------------
(***************************************************************************)
(* The stack of open BEGIN BATCH blocks (script/control.py, BatchLevels).  *)
(* Each level records the connections a statement ran on, and whether      *)
(* anything inside it has failed.  The operators say what each method      *)
(* makes of the stack L; the innermost level is the last.  The order in    *)
(* which a level's connections were first used is abstracted away.         *)
(***************************************************************************)
EXTENDS Connections, Sequences

VARIABLE batchlevels

Level == [dbs_used : SUBSET Conn, failed : BOOLEAN]

BatchTypeOK == batchlevels \in Seq(Level)

BatchInit == batchlevels = <<>>

in_batch(L) == L # <<>>

new_batch(L) == Append(L, [dbs_used |-> {}, failed |-> FALSE])

using_db(L, c) ==
  IF in_batch(L) THEN [L EXCEPT ![Len(L)].dbs_used = @ \cup {c}] ELSE L

(* Mutant: only the innermost level is asked. *)
uses_db_innermost(L, c) == in_batch(L) /\ c \in L[Len(L)].dbs_used

uses_db(L, c) == \E i \in DOMAIN L : c \in L[i].dbs_used

fail_enclosing(L) == [i \in DOMAIN L |-> [L[i] EXCEPT !.failed = TRUE]]

(* Mutant: the enclosing levels are not asked. *)
failure_innermost(L) == in_batch(L) /\ L[Len(L)].failed

(* Any level that failed keeps the innermost from committing. *)
failure(L) == \E i \in DOMAIN L : L[i].failed

(* The connections used at level d or deeper. *)
UsedFrom(L, d) == UNION {L[i].dbs_used : i \in d .. Len(L)}

Shorter(L, d) == SubSeq(L, 1, d - 1)

(* Mutant: the enclosing level does not take over what was used. *)
abandon_to_forgets(L, d) == IF d > Len(L) THEN L ELSE Shorter(L, d)

(* abandon_batch on every level from d on, innermost first: the connections
   they used join the enclosing level, if there is one. *)
abandon_to(L, d) ==
  IF d > Len(L) THEN L
  ELSE IF d = 1 THEN <<>>
  ELSE [Shorter(L, d) EXCEPT ![d - 1].dbs_used = @ \cup UsedFrom(L, d)]

(* What abandoning every level from d on has to roll back itself. *)
Orphans(L, d) == IF d = 1 THEN UsedFrom(L, 1) ELSE {}
=============================================================================
