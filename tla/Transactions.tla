---------------------------- MODULE Transactions ----------------------------
(***************************************************************************)
(* When a run's work is committed and when it is rolled back: the executor *)
(* (script/executor.py) running statements on the connections of           *)
(* Connections inside the batches of BatchLevels, with every way a         *)
(* statement can end - it succeeds, it fails and the script carries on, it *)
(* fails and the run halts, a signal interrupts it - and every way a batch *)
(* can be left.                                                            *)
(*                                                                         *)
(* The script is abstracted away: at each statement boundary it may run    *)
(* any statement, and at each failure ERROR_HALT or METACOMMAND_ERROR_HALT *)
(* may be on or off.  A Python exception handler or finally clause is one  *)
(* action; where a further interrupt can cut it short, the action also     *)
(* allows only part of it to have happened.                                *)
(***************************************************************************)
EXTENDS BatchLevels, FiniteSets

CONSTANTS
  Interrupts,  (* the signals that may arrive: a subset of {"ctrlc", "term"}     *)
  MaxDepth,    (* bound: how deep batches nest                                   *)
  MaxFrames    (* bound: how deep batches, prompts and halt scripts nest         *)

ASSUME TransactionsAssumption ==
  /\ Interrupts \subseteq {"ctrlc", "term"}
  /\ MaxDepth \in Nat
  /\ MaxFrames \in Nat
  /\ "none" \notin Conn

VARIABLES
  frames,     (* the Python calls in progress that have something to undo,
                 outermost first: _execute_batch, execute_input, and the
                 ON ERROR_HALT / ON CANCEL_HALT script that exit_now runs        *)
  pc,         (* "ready": between two statements.  "ran", "inserted", "loaded":
                 a statement, PROMPT SELECT_ROWS, or EXECUTE / IMPORT / COPY has
                 run and may be committed.  "halting": in exit_now.  "raised":
                 an exception is unwinding.  "over": the run has ended           *)
  exc,        (* the exception that is unwinding, or "none"                      *)
  on,         (* the connection of the statement in progress, or "none"          *)
  sql_error,  (* SQL_ERROR()                                                     *)
  halting,    (* the run is being ended by exit_now                              *)
  doomed      (* something in the open stack of batches has failed since its
                 outermost BEGIN BATCH (no code counterpart: what the failed
                 marks of the levels are to remember)                            *)

control == <<frames, pc, exc, on, halting>>
vars == <<connVars, batchlevels, control, sql_error, doomed>>

Frame ==
  [kind : {"batch"}, level : Nat \ {0}] \cup [kind : {"input", "deferred"}, level : {0}]

TypeOK ==
  /\ ConnTypeOK
  /\ BatchTypeOK
  /\ frames \in Seq(Frame)
  /\ pc \in {"ready", "ran", "inserted", "loaded", "halting", "raised", "over"}
  /\ exc \in {"none", "break", "error", "exit", "ctrlc", "term"}
  /\ (exc = "none") <=> (pc # "raised")
  /\ on \in Conn \cup {"none"}
  /\ (on = "none") <=> (pc \notin {"ran", "inserted", "loaded"})
  /\ sql_error \in BOOLEAN
  /\ halting \in BOOLEAN
  /\ doomed \in BOOLEAN

Init ==
  /\ ConnInit
  /\ BatchInit
  /\ frames = <<>>
  /\ pc = "ready"
  /\ exc = "none"
  /\ on = "none"
  /\ sql_error = FALSE
  /\ halting = FALSE
  /\ doomed = FALSE

----------------------------------------------------------------------------
(* The frames *)

Top == frames[Len(frames)]

TopIs(kind) == frames # <<>> /\ Top.kind = kind

Pushed(kind, level) ==
  /\ Len(frames) < MaxFrames
  /\ frames' = Append(frames, [kind |-> kind, level |-> level])

Popped == frames' = SubSeq(frames, 1, Len(frames) - 1)

(* prompt_input is set: an input typed at a BREAKPOINT prompt is running. *)
AtPrompt == \E i \in DOMAIN frames : frames[i].kind = "input"

Goes(state) ==
  /\ pc' = state
  /\ on' = "none"
  /\ exc' = "none"

Raises(e) ==
  /\ pc' = "raised"
  /\ on' = "none"
  /\ exc' = e

Runs(state, c) ==
  /\ pc' = state
  /\ on' = c
  /\ UNCHANGED <<frames, exc, halting, doomed>>

CarriesOn == Goes("ready") /\ UNCHANGED <<frames, halting>>

KeepSettings == UNCHANGED <<pool, current_db, autocommit>>

(* exit_now: at a prompt an error is raised to it, else the halt begins. *)
Halts ==
  /\ \/ AtPrompt /\ Raises("error") /\ UNCHANGED halting
     \/ ~AtPrompt /\ Goes("halting") /\ halting' = TRUE
  /\ UNCHANGED frames

(* How a statement, metacommand or END BATCH ends that has failed: every level
   of the stack L is marked, what was pending in it is condemned, and the
   connections D have been rolled back (those of S committed before it failed). *)
Fails(L, S, D) ==
  /\ batchlevels' = fail_enclosing(L)
  /\ doomed' = in_batch(L)
  /\ Settle(Condemned(pending), S, D)

(* Interrupted: the same, but the exception unwinds; of D only R was rolled
   back if a second interrupt came. *)
Interrupted(L, S, R) ==
  /\ Fails(L, S, R)
  /\ \E i \in Interrupts : Raises(i)
  /\ UNCHANGED <<frames, halting>>
  /\ KeepSettings

----------------------------------------------------------------------------
(* SQL statements *)

Working == {"ran", "inserted", "loaded"}

(* Whose work a statement on c leaves pending, if its driver holds it at all. *)
LiveMark(c) == IF ~autocommit[c] THEN "other" ELSE IF doomed THEN "dead" ELSE "own"

Holding(c) == IF c \in DriverCommits THEN pending ELSE Written(pending, c, LiveMark(c))

(* What an SQL statement does to the open transaction of the connection in use. *)
SqlEffects == {"write", "ddl", "commit", "rollback"}

RunSql(effect) ==
  /\ pc = "ready"
  /\ Runs("ran", current_db)
  /\ batchlevels' = using_db(batchlevels, current_db)
  /\ sql_error' = FALSE
  /\ CASE effect = "write"    -> Untouched(Holding(current_db))
       [] effect = "ddl"      -> /\ current_db \in CommitsDdl
                                 /\ Settle(Holding(current_db), {current_db}, {})
       [] effect = "commit"   -> Settle(pending, {current_db}, {})
       [] effect = "rollback" -> Settle(pending, {}, {current_db})
  /\ KeepSettings

(* PROMPT SELECT_ROWS ... INTO inserts the chosen rows into a table of c. *)
InsertRows(c) ==
  /\ pc = "ready"
  /\ c \in pool
  /\ Runs("inserted", c)
  /\ batchlevels' = using_db(batchlevels, c)
  /\ Untouched(Holding(c))
  /\ KeepSettings
  /\ UNCHANGED sql_error

Holds(c) == ~autocommit[c] \/ in_batch(batchlevels)

FinishStatement ==
  /\ pc \in {"ran", "inserted"}
  /\ Settle(pending, IF Holds(on) THEN {} ELSE {on}, {})
  /\ CarriesOn
  /\ KeepSettings
  /\ UNCHANGED <<batchlevels, sql_error, doomed>>

(* The statement, or its commit, fails: Database.execute and Database.commit
   roll its connection back before the error is reported. *)
FailStatement ==
  /\ pc \in {"ran", "inserted"}
  /\ Fails(batchlevels, {}, {on})
  /\ sql_error' = (sql_error \/ pc = "ran")
  /\ CarriesOn \/ Halts
  /\ KeepSettings

----------------------------------------------------------------------------
(* EXECUTE, IMPORT and COPY: they commit on their own, in a batch too *)

Load(c) ==
  /\ pc = "ready"
  /\ c \in pool
  /\ Runs("loaded", c)
  /\ Untouched(Holding(c))
  /\ KeepSettings
  /\ UNCHANGED <<batchlevels, sql_error>>

(* TO REPLACEMENT commits its DROP TABLE, and some DBMSs their CREATE TABLE,
   before the rows are loaded. *)
LoadCommits ==
  /\ pc = "loaded"
  /\ autocommit[on] \/ on \in CommitsDdl
  /\ Settle(pending, {on}, {})
  /\ KeepSettings
  /\ UNCHANGED <<batchlevels, control, sql_error, doomed>>

LoadWrites ==
  /\ pc = "loaded"
  /\ Untouched(Holding(on))
  /\ KeepSettings
  /\ UNCHANGED <<batchlevels, control, sql_error, doomed>>

FinishLoad ==
  /\ pc = "loaded"
  /\ Settle(pending, Managed({on}), {})
  /\ CarriesOn
  /\ KeepSettings
  /\ UNCHANGED <<batchlevels, sql_error, doomed>>

FailLoad ==
  /\ pc = "loaded"
  /\ Fails(batchlevels, {}, {on})
  /\ CarriesOn \/ Halts
  /\ KeepSettings
  /\ UNCHANGED sql_error

(* IMPORT or COPY finds after its CREATE TABLE that it cannot load the rows.
   Nothing is rolled back, and no batch knows of the connection unless an SQL
   statement has run on it. *)
FailLoadAfterCreate ==
  /\ pc = "loaded"
  /\ batchlevels' = fail_enclosing(batchlevels)
  /\ doomed' = in_batch(batchlevels)
  /\ LET left == LeftBehind(pending, {c \in {on} : ~uses_db(batchlevels, c)}, "torn")
     IN Untouched(IF in_batch(batchlevels) THEN Condemned(left) ELSE left)
  /\ CarriesOn \/ Halts
  /\ KeepSettings
  /\ UNCHANGED sql_error

----------------------------------------------------------------------------
(* Metacommands that fail, and errors raised outside any handler *)

(* Any metacommand that only reads fails: a failed query has rolled its
   connection back. *)
FailMetacommand ==
  /\ pc = "ready"
  /\ \E D \in {{}} \cup {{c} : c \in pool} : Fails(batchlevels, {}, D)
  /\ CarriesOn \/ Halts
  /\ KeepSettings
  /\ UNCHANGED sql_error

(* A condition that cannot be evaluated, an unknown metacommand: the batches
   are marked and the error is raised.  A variable that cannot be substituted
   in a statement raises its error with no batch marked. *)
RaiseError ==
  /\ pc = "ready"
  /\ \/ \E D \in {{}} \cup {{c} : c \in pool} : Fails(batchlevels, {}, D)
        /\ UNCHANGED sql_error
     \/ /\ \/ UNCHANGED <<batchlevels, sql_error>>
           \/ batchlevels' = using_db(batchlevels, current_db) /\ sql_error' = FALSE
        /\ doomed' = in_batch(batchlevels)
        /\ Untouched(Condemned(pending))
  /\ Raises("error")
  /\ KeepSettings
  /\ UNCHANGED <<frames, halting>>

----------------------------------------------------------------------------
(* AUTOCOMMIT, USE, CONNECT, DISCONNECT *)

(* AUTOCOMMIT ON [WITH COMMIT | ROLLBACK] *)
AutocommitOn ==
  /\ pc = "ready"
  /\ autocommit' = [autocommit EXCEPT ![current_db] = TRUE]
  /\ \/ /\ \/ Untouched(pending)
           \/ Settle(pending, {current_db}, {})
           \/ Settle(pending, {}, {current_db})
        /\ CarriesOn
        /\ UNCHANGED <<batchlevels, doomed>>
     \/ /\ Fails(batchlevels, {}, {current_db})      \* the commit failed
        /\ CarriesOn \/ Halts
  /\ UNCHANGED <<pool, current_db, sql_error>>

AutocommitOff ==
  /\ pc = "ready"
  /\ AutocommitTurnedOff(current_db)
  /\ CarriesOn
  /\ UNCHANGED <<batchlevels, sql_error, doomed>>

Use(c) ==
  /\ pc = "ready"
  /\ c \in pool
  /\ MadeCurrent(c)
  /\ CarriesOn
  /\ UNCHANGED <<batchlevels, sql_error, doomed>>

Connect(c) ==
  /\ pc = "ready"
  /\ c # Initial
  /\ ~uses_db(batchlevels, c)
  /\ Connected(c)
  /\ CarriesOn
  /\ UNCHANGED <<batchlevels, sql_error, doomed>>

Disconnect(c) ==
  /\ pc = "ready"
  /\ c \in pool \ {Initial}
  /\ ~uses_db(batchlevels, c)
  /\ Disconnected(c)
  /\ CarriesOn
  /\ UNCHANGED <<batchlevels, sql_error, doomed>>

----------------------------------------------------------------------------
(* BATCH *)

Innermost == batchlevels[Len(batchlevels)]

BeginBatch ==
  /\ pc = "ready"
  /\ Len(batchlevels) < MaxDepth
  /\ batchlevels' = new_batch(batchlevels)
  /\ Pushed("batch", Len(batchlevels) + 1)
  /\ Goes("ready")
  /\ Untouched(pending)
  /\ KeepSettings
  /\ UNCHANGED <<halting, sql_error, doomed>>

(* ROLLBACK BATCH, whatever AUTOCOMMIT says. *)
RollbackBatch ==
  /\ pc = "ready"
  /\ in_batch(batchlevels)
  /\ Settle(pending, {}, Innermost.dbs_used)
  /\ CarriesOn
  /\ KeepSettings
  /\ UNCHANGED <<batchlevels, sql_error, doomed>>

(* What a step that takes levels off the stack makes of it. *)
Pops(L) ==
  /\ batchlevels' = L
  /\ doomed' = (doomed /\ in_batch(L))

AtEndBatch == pc = "ready" /\ TopIs("batch")

CommitBatch ==
  /\ AtEndBatch
  /\ IF in_batch(batchlevels)
       THEN /\ ~failure(batchlevels)
            /\ Settle(pending, Managed(Innermost.dbs_used), {})
            /\ Pops(Shorter(batchlevels, Len(batchlevels)))
            /\ sql_error' = FALSE
       ELSE /\ Untouched(pending)       \* a halt has abandoned it already
            /\ UNCHANGED <<batchlevels, doomed, sql_error>>
  /\ Popped
  /\ Goes("ready")
  /\ KeepSettings
  /\ UNCHANGED halting

(* Mutant: SQL_ERROR() is not set. *)
EndsWithError_unreported ==
  /\ sql_error' = FALSE
  /\ KeepSettings
  /\ \/ Popped /\ Goes("ready") /\ UNCHANGED halting
     \/ Halts

(* END BATCH of a batch something in has failed: it is abandoned, and END BATCH
   is itself an SQL error.  A halt finds the frame still there. *)
EndsWithError ==
  /\ sql_error' = TRUE
  /\ KeepSettings
  /\ \/ Popped /\ Goes("ready") /\ UNCHANGED halting
     \/ Halts

RefuseBatch ==
  /\ AtEndBatch
  /\ failure(batchlevels)
  /\ Fails(abandon_to(batchlevels, Len(batchlevels)), {},
           Managed(Orphans(batchlevels, Len(batchlevels))))
  /\ EndsWithError

(* One connection's commit fails after those of S were committed: it and the
   rest are rolled back. *)
FailCommitBatch ==
  /\ AtEndBatch
  /\ in_batch(batchlevels)
  /\ ~failure(batchlevels)
  /\ LET used == Managed(Innermost.dbs_used) IN
     \E x \in used : \E S \in SUBSET (used \ {x}) :
       Fails(Shorter(batchlevels, Len(batchlevels)), S, used \ S)
  /\ EndsWithError

InterruptCommitBatch ==
  /\ AtEndBatch
  /\ in_batch(batchlevels)
  /\ ~failure(batchlevels)
  /\ LET used == Managed(Innermost.dbs_used) IN
     \E S \in SUBSET used : \E R \in SUBSET (used \ S) :
       Interrupted(Shorter(batchlevels, Len(batchlevels)), S, R)
  /\ sql_error' = TRUE

----------------------------------------------------------------------------
(* BREAK, HALT, .quit, BREAKPOINT and signals *)

(* A LOOP, SCRIPT or included file can be around any statement. *)
Break ==
  /\ pc = "ready"
  /\ Raises("break")
  /\ Untouched(pending)
  /\ KeepSettings
  /\ UNCHANGED <<frames, halting, batchlevels, sql_error, doomed>>

BreakCaught ==
  /\ pc = "raised"
  /\ exc = "break"
  /\ CarriesOn
  /\ Untouched(pending)
  /\ KeepSettings
  /\ UNCHANGED <<batchlevels, sql_error, doomed>>

(* HALT, a canceled prompt, or a WAIT_UNTIL that expires. *)
Halt ==
  /\ pc = "ready"
  /\ Goes("halting")
  /\ halting' = TRUE
  /\ Untouched(pending)
  /\ KeepSettings
  /\ UNCHANGED <<frames, batchlevels, sql_error, doomed>>

(* .quit at a BREAKPOINT prompt leaves without exit_now. *)
Quit ==
  /\ pc = "ready"
  /\ Raises("exit")
  /\ Untouched(pending)
  /\ KeepSettings
  /\ UNCHANGED <<frames, halting, batchlevels, sql_error, doomed>>

OpenInput ==
  /\ pc = "ready"
  /\ Pushed("input", 0)
  /\ Goes("ready")
  /\ Untouched(pending)
  /\ KeepSettings
  /\ UNCHANGED <<halting, batchlevels, sql_error, doomed>>

CloseInput ==
  /\ pc = "ready"
  /\ TopIs("input")
  /\ Popped
  /\ Goes("ready")
  /\ Untouched(pending)
  /\ KeepSettings
  /\ UNCHANGED <<halting, batchlevels, sql_error, doomed>>

(* A signal that finds no statement to blame: no level is marked yet. *)
Interrupt ==
  /\ pc \in {"ready", "raised"}
  /\ \E i \in Interrupts : Raises(i)
  /\ doomed' = in_batch(batchlevels)
  /\ Untouched(Condemned(pending))
  /\ KeepSettings
  /\ UNCHANGED <<frames, halting, batchlevels, sql_error>>

(* A signal during a statement, which may have been committed by then. *)
InterruptStatement ==
  /\ pc \in {"ran", "inserted"}
  /\ \E S \in {{}} \cup {{c} : c \in {on} \ {x \in Conn : Holds(x)}} :
     \E R \in SUBSET ((IF pc = "ran" THEN {on} ELSE Managed(pool)) \ S) :
       Interrupted(batchlevels, S, R)
  /\ sql_error' = (sql_error \/ pc = "ran")

(* A signal during EXECUTE, IMPORT, COPY, or a metacommand that only reads. *)
InterruptMetacommand ==
  /\ pc \in {"loaded", "ready"}
  /\ \E S \in {{}} \cup {{c} : c \in Managed({on} \ {"none"})} :
     \E R \in SUBSET (Managed(pool) \ S) :
       Interrupted(batchlevels, S, R)
  /\ UNCHANGED sql_error

----------------------------------------------------------------------------
(* Leaving the frames, and the end of the run *)

(* Abandoning every level from d on, cut short by a signal: only the levels
   from k on are popped, and of what they leave only R is rolled back. *)
AbandonInterrupted(d) ==
  /\ \E k \in d .. Len(batchlevels) + 1 :
       /\ batchlevels' = abandon_to(batchlevels, k)
       /\ \E R \in SUBSET Managed(Orphans(batchlevels, k)) :
            Settle(Condemned(pending), {}, R)
  /\ doomed' = in_batch(batchlevels')
  /\ \E i \in Interrupts : Raises(i)
  /\ KeepSettings
  /\ UNCHANGED <<halting, sql_error>>

(* exit_now: every batch is abandoned before an ON ERROR_HALT or
   ON CANCEL_HALT script runs. *)
ExitNow ==
  /\ pc = "halting"
  /\ Settle(pending, {}, Managed(Orphans(batchlevels, 1)))
  /\ Pops(<<>>)
  /\ \/ Raises("exit") /\ UNCHANGED frames
     \/ Goes("ready") /\ Pushed("deferred", 0)
  /\ KeepSettings
  /\ UNCHANGED <<halting, sql_error>>

InterruptExit ==
  /\ pc = "halting"
  /\ AbandonInterrupted(1)
  /\ UNCHANGED frames

EndHaltScript ==
  /\ pc = "ready"
  /\ TopIs("deferred")
  /\ Popped
  /\ Raises("exit")
  /\ Untouched(pending)
  /\ KeepSettings
  /\ UNCHANGED <<batchlevels, halting, sql_error, doomed>>

(* Mutant: the level is abandoned for errors only, not for a BREAK or an exit. *)
UnwindBatch_errorsOnly ==
  /\ pc = "raised"
  /\ TopIs("batch")
  /\ IF exc = "break"
       THEN /\ Untouched(pending)
            /\ UNCHANGED <<batchlevels, doomed>>
       ELSE /\ Settle(pending, {}, Managed(Orphans(batchlevels, Top.level)))
            /\ Pops(abandon_to(batchlevels, Top.level))
  /\ Popped
  /\ KeepSettings
  /\ UNCHANGED <<pc, exc, on, halting, sql_error>>

UnwindBatch ==
  /\ pc = "raised"
  /\ TopIs("batch")
  /\ Settle(pending, {}, Managed(Orphans(batchlevels, Top.level)))
  /\ Pops(abandon_to(batchlevels, Top.level))
  /\ Popped
  /\ KeepSettings
  /\ UNCHANGED <<pc, exc, on, halting, sql_error>>

InterruptUnwind ==
  /\ pc = "raised"
  /\ TopIs("batch")
  /\ AbandonInterrupted(Top.level)
  /\ Popped

(* The prompt has caught what was raised: the halt goes on only if the prompt was
   opened by the script the halt runs. *)
BackAtPrompt ==
  /\ Goes("ready")
  /\ halting' = (halting /\ \E i \in 1 .. Len(frames) - 1 : frames[i].kind = "deferred")

(* The prompt reports the error and carries on. *)
ErrorAtPrompt ==
  /\ pc = "raised"
  /\ TopIs("input")
  /\ exc = "error"
  /\ Fails(batchlevels, {}, {})
  /\ Popped
  /\ BackAtPrompt
  /\ KeepSettings
  /\ UNCHANGED sql_error

Interruption == pc = "raised" /\ exc \in {"ctrlc", "term"}

(* Mutant: only the connection in use is rolled back. *)
InterruptAtPrompt_currentOnly ==
  /\ Interruption
  /\ TopIs("input")
  /\ batchlevels' = fail_enclosing(batchlevels)
  /\ doomed' = in_batch(batchlevels)
  /\ Settle(Condemned(pending), {}, Managed({current_db}))
  /\ Popped
  /\ \/ "ctrlc" \in Interrupts /\ BackAtPrompt
     \/ "term" \in Interrupts /\ Raises("term") /\ UNCHANGED halting
  /\ KeepSettings
  /\ UNCHANGED sql_error

(* _roll_back_after_interrupt of the connections D: a further signal can cut it
   short, which leaves those of C as they are. *)
RolledBackAfterInterrupt(p, D, E) ==
  \E C \in SUBSET D : Settle(LeftBehind(p, C, "cut"), {}, E \cup (D \ C))

(* The prompt catches Ctrl-C and carries on, a signal handler's SystemExit goes
   on; a signal that came during the rollback replaces the one before it. *)
InterruptAtPrompt ==
  /\ Interruption
  /\ TopIs("input")
  /\ batchlevels' = fail_enclosing(batchlevels)
  /\ doomed' = in_batch(batchlevels)
  /\ RolledBackAfterInterrupt(Condemned(pending), Managed(pool), {})
  /\ Popped
  /\ \/ "ctrlc" \in Interrupts /\ BackAtPrompt
     \/ "term" \in Interrupts /\ Raises("term") /\ UNCHANGED halting
  /\ KeepSettings
  /\ UNCHANGED sql_error

(* BREAK and an exit pass through a prompt; everything but a BREAK passes
   through the script a halt runs. *)
UnwindOther ==
  /\ pc = "raised"
  /\ \/ TopIs("input") /\ exc \in {"break", "exit"}
     \/ TopIs("deferred") /\ exc # "break"
  /\ Popped
  /\ Untouched(pending)
  /\ KeepSettings
  /\ UNCHANGED <<pc, exc, on, batchlevels, halting, sql_error, doomed>>

(* The execsql command passes an error that reached the top to exit_now. *)
ErrorAtTop ==
  /\ pc = "raised"
  /\ exc = "error"
  /\ frames = <<>>
  /\ Borrowed = {}
  /\ Goes("halting")
  /\ halting' = TRUE
  /\ Untouched(pending)
  /\ KeepSettings
  /\ UNCHANGED <<frames, batchlevels, sql_error, doomed>>

(* Mutant: an interrupted run leaves the caller's connection as it is. *)
EndRun_notRolledBack ==
  /\ (pc = "ready" \/ (pc = "raised" /\ exc # "break"))
  /\ frames = <<>>
  /\ Settle(pending, {}, ClosedAll)
  /\ pool' = {}
  /\ Goes("over")
  /\ UNCHANGED <<current_db, autocommit, batchlevels, frames, halting, sql_error, doomed>>

(* execsql.run() rolls back after an interrupt, then every connection it opened
   is rolled back and closed. *)
EndRun ==
  /\ (pc = "ready" \/ (pc = "raised" /\ exc # "break"))
  /\ frames = <<>>
  /\ RolledBackAfterInterrupt(pending,
       IF Interruption THEN Managed(pool \cap Borrowed) ELSE {}, ClosedAll)
  /\ pool' = {}
  /\ Goes("over")
  /\ UNCHANGED <<current_db, autocommit, batchlevels, frames, halting, sql_error, doomed>>

Done == pc = "over" /\ UNCHANGED vars

Statement ==
  \/ \E effect \in SqlEffects : RunSql(effect)
  \/ \E c \in Conn : InsertRows(c) \/ Load(c)
  \/ FinishStatement \/ FailStatement
  \/ LoadCommits \/ LoadWrites \/ FinishLoad \/ FailLoad \/ FailLoadAfterCreate
  \/ FailMetacommand \/ RaiseError

Setting ==
  \/ AutocommitOn \/ AutocommitOff
  \/ \E c \in Conn : Use(c) \/ Connect(c) \/ Disconnect(c)

Batch ==
  \/ BeginBatch \/ RollbackBatch
  \/ CommitBatch \/ RefuseBatch \/ FailCommitBatch

Leaving ==
  \/ Break \/ BreakCaught \/ Halt \/ Quit \/ OpenInput \/ CloseInput
  \/ ExitNow \/ EndHaltScript \/ UnwindBatch \/ ErrorAtPrompt \/ InterruptAtPrompt
  \/ UnwindOther \/ ErrorAtTop \/ EndRun

Signal ==
  \/ InterruptCommitBatch \/ Interrupt \/ InterruptStatement
  \/ InterruptMetacommand \/ InterruptExit \/ InterruptUnwind

Next == Statement \/ Setting \/ Batch \/ Leaving \/ Signal \/ Done

Spec == Init /\ [][Next]_vars

----------------------------------------------------------------------------
(* Properties *)

(* Between two statements, whatever execsql has still to commit or roll back is
   on a connection that an open batch has on record, so that its END BATCH, or
   abandoning it, settles it.  Only while an interrupt unwinds may it be on
   another: the prompt or the end of the run rolls that back.  The exceptions are
   the two ways the code leaves work behind, each on the connection it happens on. *)
NothingOrphaned ==
  \A c \in Conn : Own(pending[c]) =>
    \/ uses_db(batchlevels, c)
    \/ c = on
    \/ Interruption
    \/ Left(pending[c])

(* The connection in use, the first one, and those an open batch has to settle
   are all still connected: none is disconnected or reassigned under it. *)
UsedConnectionsStayOpen ==
  pc # "over" =>
    /\ {Initial, current_db} \subseteq pool
    /\ \A c \in Conn : uses_db(batchlevels, c) => c \in pool

(* What makes the two inductive: execsql's own work, but for what was left behind,
   is only on a connection that is open with AUTOCOMMIT on, and a statement in a
   batch has put its connection on record before it ran. *)
OwnWorkIsManaged ==
  \A c \in Conn : Own(pending[c]) =>
    Left(pending[c]) \/ (autocommit[c] /\ (pc # "over" => c \in pool))

StatementOnRecord ==
  /\ on # "none" => on \in pool
  /\ (pc \in {"ran", "inserted"} /\ in_batch(batchlevels)) => uses_db(batchlevels, on)

SettledInv ==
  NothingOrphaned /\ UsedConnectionsStayOpen /\ OwnWorkIsManaged /\ StatementOnRecord

(* Once anything in a stack of batches has failed, nothing the stack holds is
   stored by an END BATCH, a later statement of it, or on the way out; only the
   script itself can still store it, by COMMIT, AUTOCOMMIT ON WITH COMMIT, DDL
   or an EXECUTE, IMPORT or COPY.  The next commit of a connection does store what
   a failed IMPORT or a rollback cut short has left on it. *)
CondemnedNeverStored ==
  [][\A c \in Conn : ("dead" \in pending[c] /\ fate'[c] = "stored") =>
       \/ pc = "loaded"
       \/ pc = "ready" /\ pc' \in {"ready", "ran"} /\ frames' = frames
       \/ Left(pending[c])]_vars

(* The end of a batch, early or not, a halt and an interrupt's clean-up leave a
   connection under AUTOCOMMIT OFF alone: its transaction is the script's. *)
ScriptsTransactionKept ==
  [][(pc \in {"halting", "raised"} \/ Len(frames') < Len(frames)) /\ pc' # "over" =>
       \A c \in Conn : ~autocommit[c] => fate'[c] = "kept"]_vars

(* When a batch has ended and SQL_ERROR() is not set, all that execsql had to
   commit on the connections it used is stored, and nothing was rolled back. *)
SqlErrorTellsTheTruth ==
  [][(AtEndBatch /\ in_batch(batchlevels) /\ pc' = "ready" /\ Len(frames') < Len(frames)
      /\ ~sql_error') =>
       \A c \in Conn :
         /\ fate'[c] # "discarded"
         /\ c \in Managed(Innermost.dbs_used) => pending'[c] = {}]_vars

(* The script's own rollbacks, and what they roll back: ROLLBACK and AUTOCOMMIT ON
   WITH ROLLBACK the connection in use, ROLLBACK BATCH those of the innermost batch. *)
ScriptRollsBack(c) ==
  \/ (RunSql("rollback") \/ AutocommitOn) /\ c = current_db
  \/ RollbackBatch /\ c \in Innermost.dbs_used

(* In a stack of batches in which nothing has failed, work is discarded by no
   other step than the script's own rollbacks, one that marks the stack, so that
   it cannot commit the rest, or one that ends the whole stack: early, or at an
   END BATCH that fails and says so.  (What an IMPORT or a rollback cut short has
   left on a connection is no batch's work.) *)
BatchWorkIsKept ==
  [][\A c \in Conn :
       ("own" \in pending[c] /\ ~Left(pending[c]) /\ in_batch(batchlevels)
          /\ fate'[c] = "discarded") =>
         \/ ScriptRollsBack(c)
         \/ doomed'
         \/ batchlevels' = <<>> /\ (pc \in {"halting", "raised"} \/ (AtEndBatch /\ sql_error'))]_vars

(* A connection that execsql.run's caller goes on using is left with nothing of
   the run's own to store, however the run ended and whatever interrupted it: the
   caller's next commit would store it.  Three things are still there, and only on
   the connection concerned: what an IMPORT left that failed after its CREATE TABLE,
   what a further signal kept from being rolled back, and what was held in a level
   that Ctrl-C left on the stack. *)
CallerGetsCleanConnection ==
  pc = "over" => \A c \in Borrowed : Own(pending[c]) =>
    \/ Left(pending[c])
    \/ "ctrlc" \in Interrupts /\ uses_db(batchlevels, c)

(* Between two statements, every level on the stack belongs to a BEGIN BATCH
   block that is still being executed: a level left behind would hold back every
   later statement. *)
NoLevelOutlivesItsBlock ==
  pc = "ready" =>
    Len(batchlevels) <= Cardinality({i \in DOMAIN frames : frames[i].kind = "batch"})

(* utils/errors.py:193, "HALT and a canceled prompt carry no error and still end
   the run". *)
HaltEndsTheRun == [][halting => halting']_vars

=============================================================================
