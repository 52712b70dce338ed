--------------------------- MODULE MCTransactions ---------------------------
(***************************************************************************)
(* Transactions on small instances.                                        *)
(***************************************************************************)
EXTENDS Transactions, TLC

(* No action reads the fate of the step before it: states that differ in
   nothing else are one. *)
WithoutFate ==
  <<pool, current_db, autocommit, pending, batchlevels, control, sql_error, doomed>>
=============================================================================
