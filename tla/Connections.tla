---------------------------- MODULE Connections ----------------------------
(***************************************************************************)
(* The connections of a run: DatabasePool and the part of Database that    *)
(* decides when work is committed (db/base.py).                            *)
(*                                                                         *)
(* A row is abstracted to whose it is: the work pending on a connection is *)
(* a set of marks, and a commit or a rollback takes all of it, as a DBMS   *)
(* transaction does.                                                       *)
(***************************************************************************)
EXTENDS Naturals

CONSTANTS
  Conn,           (* the aliases a script can connect                          *)
  Initial,        (* the alias of the run's first connection                   *)
  CommitsDdl,     (* those whose DBMS commits DDL at once (implicit_commit_rx) *)
  DriverCommits,  (* those whose driver commits everything (driver_autocommits)*)
  Borrowed        (* the connection execsql.run's caller passed in, if any     *)

ASSUME ConnAssumption ==
  /\ Initial \in Conn
  /\ CommitsDdl \subseteq Conn
  /\ DriverCommits \subseteq Conn
  /\ Borrowed \subseteq {Initial}

VARIABLES
  pool,        (* the aliases connected                                          *)
  current_db,  (* the alias in use                                               *)
  autocommit,  (* per connection, its AUTOCOMMIT setting                         *)
  pending,     (* per connection, the marks of its uncommitted work              *)
  fate         (* per connection, what the last step did with its pending work   *)

connVars == <<pool, current_db, autocommit, pending, fate>>

(* "own": execsql is to commit it or roll it back.  "dead": own work that a
   failure in its batch or an interrupt has condemned.  "other": pending under
   AUTOCOMMIT OFF, so the script decides.  "torn" and "cut" mark a transaction in
   which own work was left behind, with no open batch to settle it: by an IMPORT
   or COPY that failed after its CREATE TABLE, and by a rollback after an
   interrupt that a further signal cut short. *)
Mark == {"own", "dead", "other", "torn", "cut"}

(* Work that execsql has still to commit or roll back. *)
Own(work) == work \cap {"own", "dead"} # {}

Fate == {"kept", "stored", "discarded"}

ConnTypeOK ==
  /\ pool \subseteq Conn
  /\ current_db \in Conn
  /\ autocommit \in [Conn -> BOOLEAN]
  /\ pending \in [Conn -> SUBSET Mark]
  /\ fate \in [Conn -> Fate]

ConnInit ==
  /\ pool = {Initial}
  /\ current_db = Initial
  /\ autocommit = [c \in Conn |-> TRUE]
  /\ pending = [c \in Conn |-> {}]
  /\ fate = [c \in Conn |-> "kept"]

----------------------------------------------------------------------------

(* Work with mark m joins the open transaction of c. *)
Written(p, c, m) == [p EXCEPT ![c] = @ \cup {m}]

(* The transactions of S are committed and those of D rolled back, where the
   pending work is p. *)
Settle(p, S, D) ==
  /\ pending' = [c \in Conn |-> IF c \in S \cup D THEN {} ELSE p[c]]
  /\ fate' = [c \in Conn |-> CASE p[c] = {}  -> "kept"
                               [] p[c] # {} /\ c \in S -> "stored"
                               [] p[c] # {} /\ c \in D \ S -> "discarded"
                               [] OTHER -> "kept"]

Untouched(p) == Settle(p, {}, {})

(* Whatever execsql was still to commit can no longer be committed by it. *)
Condemned(p) ==
  [c \in Conn |-> IF "own" \in p[c] THEN (p[c] \ {"own"}) \cup {"dead"} ELSE p[c]]

(* Mutant: AUTOCOMMIT OFF is overlooked when execsql commits and rolls back. *)
Managed_all(S) == S

(* Of the connections S, those that execsql commits and rolls back itself:
   under AUTOCOMMIT OFF Database.commit does nothing, and _roll_back and
   _roll_back_after_interrupt pass the connection over. *)
Managed(S) == {c \in S : autocommit[c]}

(* What closeall rolls back and closes: all but the caller's own connection. *)
ClosedAll == Conn \ Borrowed

(* execsql's own work on the connections C is left behind, for the reason m.  It
   stays execsql's own, and the next commit of its connection stores it. *)
LeftBehind(p, C, m) ==
  [c \in Conn |-> IF c \in C /\ Own(p[c]) THEN p[c] \cup {m} ELSE p[c]]

Left(work) == work \cap {"torn", "cut"} # {}

----------------------------------------------------------------------------

(* DatabasePool.add and USE, DISCONNECT once they are allowed.  A connection
   that is closed loses what it had not committed. *)
Connected(c) ==
  /\ pool' = pool \cup {c}
  /\ autocommit' = [autocommit EXCEPT ![c] = TRUE]
  /\ Settle(pending, {}, {c})
  /\ UNCHANGED current_db

(* Mutant: the connection in use is not replaced by the first one. *)
Disconnected_stillCurrent(c) ==
  /\ pool' = pool \ {c}
  /\ autocommit' = [autocommit EXCEPT ![c] = TRUE]
  /\ Settle(pending, {}, {c})
  /\ UNCHANGED current_db

Disconnected(c) ==
  /\ pool' = pool \ {c}
  /\ current_db' = IF c = current_db THEN Initial ELSE current_db
  /\ autocommit' = [autocommit EXCEPT ![c] = TRUE]
  /\ Settle(pending, {}, {c})

MadeCurrent(c) ==
  /\ current_db' = c
  /\ Untouched(pending)
  /\ UNCHANGED <<pool, autocommit>>

(* AUTOCOMMIT OFF: the open transaction becomes the script's. *)
AutocommitTurnedOff(c) ==
  /\ autocommit' = [autocommit EXCEPT ![c] = FALSE]
  /\ Untouched([pending EXCEPT ![c] = IF @ = {} THEN {} ELSE {"other"}])
  /\ UNCHANGED <<pool, current_db>>
=============================================================================
