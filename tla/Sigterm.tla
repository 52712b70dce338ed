------------------------------ MODULE Sigterm ------------------------------
(***************************************************************************)
(* utils/sigterm.py: SIGTERM and the commands that SYSTEM_CMD waits for.   *)
(* The handler runs on the main thread, between any two steps of it; the   *)
(* script runs there, or under the Textual console on a thread that no     *)
(* signal interrupts and that may never run again once the main one exits. *)
(***************************************************************************)
EXTENDS Naturals, Sequences, FiniteSets

CONSTANTS
  Commands,         (* bound: the commands of a run                              *)
  Foreign,          (* those run as another user, which the OS refuses to kill   *)
  MaxSignals,       (* bound: SIGTERMs                                           *)
  MaxInterrupts,    (* bound: Ctrl-Cs, or exceptions that the console raises in
                       the script's thread                                       *)
  InterruptPoints   (* where those land                                          *)

(* The block that a start takes with SIGTERM and the lock held, and the one that
   ends it with SIGTERM held. *)
Starting == {"check", "fork", "forked", "append", "release"}
Ending == {"kill", "unlist", "resume"}
Point == {"idle", "lock", "unhold", "started", "body", "finally", "last"} \cup Starting \cup Ending

(* An interrupt between the fork and the listing of a command may leave one that no
   handler kills: those two points are assumed away. *)
ASSUME SigtermAssumption ==
  /\ Foreign \subseteq Commands
  /\ MaxSignals \in Nat /\ MaxInterrupts \in Nat
  /\ InterruptPoints \subseteq {"lock", "check", "fork", "started", "body", "finally", "kill",
                               "unlist", "last"}

VARIABLES
  script_thread,  (* the thread of the script                              *)
  held,           (* _held                                                 *)
  pending,        (* _pending is set                                       *)
  terminated,     (* _terminated is set                                    *)
  commands,       (* _commands                                             *)
  starting,       (* who holds the lock, and how many times                *)
  process,        (* what each command is                                  *)
  script,         (* where the script is: in command(), mostly             *)
  handlers,       (* the calls of _exit on the main thread's stack         *)
  run,            (* the process of execsql                                *)
  gave_up,        (* history: a handler waited in vain for the lock        *)
  bounds          (* what is left of the bounds                            *)

signalVars == <<held, pending, terminated, handlers, gave_up>>
vars == <<script_thread, signalVars, commands, starting, process, script, run, bounds>>

Thread == {"main", "other"}

TypeOK ==
  /\ script_thread \in Thread
  /\ held \in {0, 1} /\ pending \in BOOLEAN /\ terminated \in BOOLEAN
  /\ commands \subseteq Commands
  /\ starting \in [owner : Thread \cup {"none"}, depth : 0..(MaxSignals + 1)]
  /\ process \in [Commands -> {"none", "running", "ended"}]
  /\ script \in [at : Point \cup {"ended"}, cmd : Commands \cup {0}, started : BOOLEAN,
                 exc : {"none", "error", "interrupt", "exit"}]
  /\ handlers \in Seq([at : {"wait", "kill", "end"}, listed : BOOLEAN])
  /\ Len(handlers) <= MaxSignals
  /\ run \in {"running", "exiting", "over"}
  /\ gave_up \in BOOLEAN
  /\ bounds \in [signals : 0..MaxSignals, interrupts : 0..MaxInterrupts]

Idle == [at |-> "idle", cmd |-> 0, started |-> FALSE, exc |-> "none"]
Free == [owner |-> "none", depth |-> 0]

Init ==
  /\ script_thread \in Thread
  /\ held = 0 /\ pending = FALSE /\ terminated = FALSE /\ gave_up = FALSE
  /\ commands = {} /\ handlers = <<>>
  /\ starting = Free
  /\ process = [p \in Commands |-> "none"]
  /\ script = Idle
  /\ run = "running"
  /\ bounds = [signals |-> MaxSignals, interrupts |-> MaxInterrupts]

----------------------------------------------------------------------------
(* The lock, and the exceptions. *)

Locked(thread) ==
  /\ starting.owner \in {"none", thread}
  /\ starting' = [owner |-> thread, depth |-> starting.depth + 1]

Unlocked(times) ==
  starting' = IF starting.depth = times THEN Free ELSE [starting EXCEPT !.depth = @ - times]

(* An exception leaves command(): the script carries on, or it ends. *)
Left(exc) == IF exc = "exit" THEN [Idle EXCEPT !.at = "ended"] ELSE Idle

(* Mutant: a start that raises keeps the lock. *)
Raised_locked(exc) ==
  CASE script.at \in {"idle", "finally", "last", "ended"} -> Left(exc)
    [] script.at \in {"lock"} \cup Starting -> [script EXCEPT !.at = "unhold", !.exc = exc]
    [] script.at \in {"unhold", "started", "body"} -> [script EXCEPT !.at = "finally", !.exc = exc]
    [] script.at \in Ending -> [script EXCEPT !.at = "resume", !.exc = exc]

(* Where exc takes the script: the finally clause or the with statement that its
   point is in. *)
Raised(exc) ==
  CASE script.at \in {"idle", "finally", "last", "ended"} -> Left(exc)
    [] script.at = "lock" -> [script EXCEPT !.at = "unhold", !.exc = exc]
    [] script.at \in Starting -> [script EXCEPT !.at = "release", !.exc = exc]
    [] script.at \in {"unhold", "started", "body"} -> [script EXCEPT !.at = "finally", !.exc = exc]
    [] script.at \in Ending -> [script EXCEPT !.at = "resume", !.exc = exc]

----------------------------------------------------------------------------
(* terminate and _exit. *)

Entered(stack) ==
  /\ pending' = FALSE /\ terminated' = TRUE
  /\ handlers' = Append(stack, [at |-> "wait", listed |-> FALSE])

terminate ==
  /\ run # "over" /\ bounds.signals > 0
  /\ bounds' = [bounds EXCEPT !.signals = @ - 1]
  /\ \/ held > 0 /\ pending' = TRUE /\ UNCHANGED <<terminated, handlers>>
     \/ held = 0 /\ Entered(handlers)
  /\ UNCHANGED <<script_thread, held, gave_up, commands, starting, process, script, run>>

Handling(at) == run # "over" /\ handlers # <<>> /\ handlers[Len(handlers)].at = at

Onward(at, listed) == handlers' = [handlers EXCEPT ![Len(handlers)] = [at |-> at, listed |-> listed]]

(* Mutant: a command that another thread starts is not waited for. *)
HandlerWaits_not ==
  /\ Handling("wait")
  /\ Onward("kill", FALSE)
  /\ UNCHANGED <<script_thread, held, pending, terminated, commands, process, script, run, bounds,
                 gave_up, starting>>

(* The lock, or _START_WAIT without it. *)
HandlerWaits ==
  /\ Handling("wait")
  /\ \/ Locked("main") /\ Onward("kill", TRUE) /\ UNCHANGED gave_up
     \/ starting.owner = "other" /\ Onward("kill", FALSE) /\ gave_up' = TRUE /\ UNCHANGED starting
  /\ UNCHANGED <<script_thread, held, pending, terminated, commands, process, script, run, bounds>>

Killed(S) == process' = [p \in Commands |-> IF p \in S \ Foreign THEN "ended" ELSE process[p]]

HandlerKills ==
  /\ Handling("kill")
  /\ Killed(commands)
  /\ Onward("end", handlers[Len(handlers)].listed)
  /\ UNCHANGED <<script_thread, held, pending, terminated, gave_up, commands, starting, script, run,
                 bounds>>

(* SystemExit leaves every handler on the stack, and releases their locks.  The innermost
   has in fact done so just before, after its kills. *)
HandlerEnds ==
  LET listed == {i \in DOMAIN handlers : handlers[i].listed} IN
  /\ Handling("end")
  /\ handlers' = <<>>
  /\ IF listed = {} THEN UNCHANGED starting ELSE Unlocked(Cardinality(listed))
  /\ IF script_thread = "main" THEN script' = Raised("exit") /\ UNCHANGED run
     ELSE run' = "exiting" /\ UNCHANGED script
  /\ UNCHANGED <<script_thread, held, pending, terminated, gave_up, commands, process, bounds>>

----------------------------------------------------------------------------
(* command, and the blocks it takes. *)

(* The script is at a point, and its thread free to go on. *)
At(at) ==
  /\ script.at = at /\ run # "over"
  /\ script_thread = "main" => handlers = <<>>

Goes(at) == script' = [script EXCEPT !.at = at]

threadRest == <<script_thread, terminated, gave_up, run, bounds>>

(* sigterm_held begins.  Off the main thread it holds nothing. *)
Holds == held' = IF script_thread = "main" THEN held + 1 ELSE held

(* Mutant: a SIGTERM held back is acted on only when no exception leaves the block. *)
Resumes_unlessRaising ==
  \/ script_thread = "other" /\ UNCHANGED <<held, pending, terminated, handlers>>
  \/ /\ script_thread = "main" /\ held' = held - 1
     /\ \/ held = 1 /\ pending /\ script.exc = "none" /\ Entered(handlers)
        \/ /\ held > 1 \/ ~pending \/ script.exc # "none"
           /\ UNCHANGED <<pending, terminated, handlers>>

(* It ends, and a SIGTERM that it held back ends the run. *)
Resumes ==
  \/ script_thread = "other" /\ UNCHANGED <<held, pending, terminated, handlers>>
  \/ /\ script_thread = "main" /\ held' = held - 1
     /\ \/ held = 1 /\ pending /\ Entered(handlers)
        \/ (held > 1 \/ ~pending) /\ UNCHANGED <<pending, terminated, handlers>>

Start ==
  /\ At("idle")
  /\ \E p \in {q \in Commands : process[q] = "none"} :
       script' = [Idle EXCEPT !.at = "lock", !.cmd = p]
  /\ Holds
  /\ UNCHANGED <<threadRest, pending, handlers, commands, starting, process>>

Lock ==
  /\ At("lock") /\ Locked(script_thread)
  /\ Goes("check")
  /\ UNCHANGED <<threadRest, held, pending, handlers, commands, process>>

(* Mutant: the run's end is not looked at again under the lock. *)
CheckStart_not ==
  /\ At("check")
  /\ Goes("fork")
  /\ UNCHANGED <<threadRest, held, pending, handlers, commands, starting, process>>

CheckStart ==
  /\ At("check")
  /\ script' = IF terminated THEN Raised("exit") ELSE [script EXCEPT !.at = "fork"]
  /\ UNCHANGED <<threadRest, held, pending, handlers, commands, starting, process>>

(* Popen forks the command before it returns; or it raises. *)
Fork ==
  /\ At("fork")
  /\ \/ process' = [process EXCEPT ![script.cmd] = "running"] /\ Goes("forked")
     \/ script' = Raised("error") /\ UNCHANGED process
  /\ UNCHANGED <<threadRest, held, pending, handlers, commands, starting>>

PopenReturns ==
  /\ At("forked")
  /\ script' = [script EXCEPT !.at = "append", !.started = TRUE]
  /\ UNCHANGED <<threadRest, held, pending, handlers, commands, starting, process>>

List ==
  /\ At("append")
  /\ commands' = commands \cup {script.cmd}
  /\ Goes("release")
  /\ UNCHANGED <<threadRest, held, pending, handlers, starting, process>>

Release ==
  /\ At("release") /\ Unlocked(1)
  /\ Goes("unhold")
  /\ UNCHANGED <<threadRest, held, pending, handlers, commands, process>>

Unhold ==
  /\ At("unhold") /\ Resumes
  /\ Goes(IF script.exc = "none" THEN "started" ELSE "finally")
  /\ UNCHANGED <<script_thread, gave_up, run, bounds, commands, starting, process>>

CheckStarted ==
  /\ At("started")
  /\ script' = IF terminated THEN Raised("exit") ELSE [script EXCEPT !.at = "body"]
  /\ UNCHANGED <<threadRest, held, pending, handlers, commands, starting, process>>

(* communicate returns as the command ends, or raises as system_cmd_timeout runs out. *)
Finish ==
  /\ At("body")
  /\ Goes("finally")
  /\ UNCHANGED <<threadRest, held, pending, handlers, commands, starting, process>>

Finally ==
  /\ At("finally")
  /\ \/ ~script.started /\ Goes("last") /\ UNCHANGED held
     \/ script.started /\ Goes("kill") /\ Holds
  /\ UNCHANGED <<threadRest, pending, handlers, commands, starting, process>>

Kill ==
  /\ At("kill")
  /\ Killed({script.cmd})
  /\ Goes("unlist")
  /\ UNCHANGED <<threadRest, held, pending, handlers, commands, starting>>

(* A command that was killed is reaped at once. *)
Unlist ==
  /\ At("unlist")
  /\ commands' = commands \ {script.cmd}
  /\ Goes("resume")
  /\ UNCHANGED <<threadRest, held, pending, handlers, starting, process>>

Resume ==
  /\ At("resume") /\ Resumes
  /\ Goes("last")
  /\ UNCHANGED <<script_thread, gave_up, run, bounds, commands, starting, process>>

Leave ==
  /\ At("last")
  /\ script' = Left(IF terminated THEN "exit" ELSE script.exc)
  /\ UNCHANGED <<threadRest, held, pending, handlers, commands, starting, process>>

----------------------------------------------------------------------------
(* What happens around. *)

(* An interrupt in command() (Ctrl-C, or the console's SystemExit). *)
Interrupt ==
  /\ bounds.interrupts > 0 /\ script.at \in InterruptPoints /\ At(script.at)
  /\ bounds' = [bounds EXCEPT !.interrupts = @ - 1]
  /\ script' = Raised("interrupt")
  /\ UNCHANGED <<script_thread, signalVars, commands, starting, process, run>>

CommandEnds ==
  /\ \E p \in Commands : process[p] = "running" /\ process' = [process EXCEPT ![p] = "ended"]
  /\ UNCHANGED <<script_thread, signalVars, commands, starting, script, run, bounds>>

Exits ==
  /\ run # "over" /\ handlers = <<>>
  /\ run' = "over"
  /\ UNCHANGED <<script_thread, signalVars, commands, starting, process, script, bounds>>

(* The exception has ended the script, or the main thread. *)
Exit == Exits /\ (script.at = "ended" \/ run = "exiting")

EndOfScript == Exits /\ script.at = "idle"

Over == run = "over" /\ UNCHANGED vars

----------------------------------------------------------------------------

Handler == HandlerWaits \/ HandlerKills \/ HandlerEnds

(* The steps of command() that take no time of their own. *)
Command ==
  \/ Lock \/ CheckStart \/ Fork \/ PopenReturns \/ List \/ Release \/ Unhold \/ CheckStarted
  \/ Finally \/ Kill \/ Unlist \/ Resume \/ Leave

Next ==
  \/ terminate \/ Handler \/ Start \/ Command \/ Finish
  \/ Interrupt \/ CommandEnds \/ Exit \/ EndOfScript \/ Over

(* Both threads run.  The script need not end, nor a command it waits for. *)
Fairness == WF_vars(Handler) /\ WF_vars(Command) /\ WF_vars(Exit)

Spec == Init /\ [][Next]_vars
LiveSpec == Spec /\ Fairness

----------------------------------------------------------------------------

(* Once a SIGTERM has ended the run, no command that it started and may stop is
   running (command: "A SIGTERM at any point after the command starts kills it
   before the run's SystemExit is raised"), unless the handler waited in vain for
   one that was starting. *)
EveryCommandDies ==
  run = "over" /\ terminated /\ ~gave_up =>
    \A p \in Commands \ Foreign : process[p] # "running"

(* No command starts once a handler has had the lock (command: "no command starts
   after it"), whichever thread starts it. *)
NoCommandStarts ==
  [][(\E i \in DOMAIN handlers : handlers[i].listed) \/ (run = "exiting" /\ ~gave_up) =>
       \A p \in Commands : process[p] # "running" => process'[p] # "running"]_vars

(* Outside command() no SIGTERM is held back and the script's thread has no lock,
   whatever was raised inside. *)
NothingHeldBetween ==
  script.at \in {"idle", "ended"} /\ handlers = <<>> =>
    held = 0 /\ ~pending /\ starting.owner # script_thread

(* A SIGTERM ends the run, whatever the script is doing, unless an interrupt takes
   the place of its SystemExit. *)
SigtermEndsRun ==
  bounds.signals < MaxSignals ~> run = "over" \/ bounds.interrupts < MaxInterrupts
=============================================================================
