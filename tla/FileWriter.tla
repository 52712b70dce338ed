----------------------------- MODULE FileWriter -----------------------------
(***************************************************************************)
(* A run's FileWriter (utils/fileio.py): the thread that writes a script's *)
(* text files, and the script's thread, which queues writes for it and     *)
(* waits, up to a deadline, for a file to be let go or for everything      *)
(* written so far to be on disk.                                           *)
(*                                                                         *)
(* Each call of the operating system is three steps of the worker: it is   *)
(* published in current_op, it is reserved once the writer is found not to *)
(* be abandoned, and it ends, maybe after the caller has given up.         *)
(***************************************************************************)
EXTENDS Naturals, Sequences, FiniteSets, OutputFile

CONSTANTS
  Names,          (* the paths a script writes to, made absolute                  *)
  Files,          (* those that are no alias: what a path resolves to             *)
  Resolve,        (* the file of each name                                        *)
  Loops,          (* the names whose resolution raises (a loop of symbolic links) *)
  None,           (* no path                                                      *)
  MaxWrites,      (* bound: the writes of a run                                   *)
  MaxCalls,       (* bound: the other calls of a run                              *)
  MaxInterrupts   (* bound: the waits that Ctrl-C or SIGTERM ends                 *)

ASSUME FileWriterAssumption ==
  /\ Files \subseteq Names
  /\ IsFiniteSet(Names)
  /\ Resolve \in [Names -> Files]
  /\ \A f \in Files : Resolve[f] = f
  /\ Loops \subseteq Names
  /\ None \notin Names
  /\ MaxWrites \in Nat /\ MaxCalls \in Nat /\ MaxInterrupts \in Nat

VARIABLES
  input_queue,       (* the commands queued for the worker                         *)
  return_msg_queue,  (* its replies                                                *)
  abandoned,         (* the event that stops it                                    *)
  output_error,      (* the abandonment's error: the call noted for it until it is
                        made, the paths it lists; and, a history, the call that the
                        worker was in when it was abandoned                        *)
  current_op,        (* the call of the operating system it is in                  *)
  pending,           (* _pending: per path, the writes not yet flushed or lost     *)
  files,             (* per file, its control                                      *)
  errors,            (* commands that raised                                       *)
  worker,            (* where the worker's thread is                               *)
  caller,            (* where the script's thread is                               *)
  answer,            (* what its last call told the script                         *)
  disk,              (* per file, the writes it holds                              *)
  dest,              (* history: the path of each write accepted                   *)
  stored,            (* history: the writes that were flushed                      *)
  told,              (* history: the lost writes whose file an error has named     *)
  bounds             (* what is left of the bounds                                 *)

fileVars == <<files, errors, disk, stored>>
callVars == <<caller, answer, bounds>>
vars == <<input_queue, return_msg_queue, abandoned, output_error, current_op, pending,
          fileVars, worker, callVars, dest, told>>

Write == 1..MaxWrites
IoStage == {"resolve", "open", "write", "flush", "close"}

(* What current_op calls a stage. *)
Called(stage) ==
  CASE stage \in {"resolve", "open"} -> "open"
    [] stage \in {"write", "flush"} -> "write"
    [] stage = "close" -> "close"

Global == {"close_all_after_write", "closed_status", "open_failures", "shutdown"}
Named == {"write", "close_if_open", "open_as_new", "status"}

(* The commands that let a file go. *)
Closing == {"close_if_open", "open_as_new", "close_all_after_write", "shutdown"}

Command == [cmd : {"write"}, name : Names, write : Write]
             \cup [cmd : Named \ {"write"}, name : Names, write : {0}]
             \cup [cmd : Global \cup {"retry"}, name : {None}, write : {0}]
Lost == [subject : Names, writes : SUBSET Write]
Reply == [status : Status, failures : {{}}] \cup [status : {"none"}, failures : SUBSET Lost]
Operation == [stage : {"none", "open", "write", "close"}, name : Names \cup {None}]
NoOp == [stage |-> "none", name |-> None]

Stage == IoStage \cup {"loop", "timer", "visit", "ended"}
WorkerRecord ==
  [at : Stage,
   io : {"idle", "published", "reserved"}, command : Command,
   name : Names \cup {None}, left : SUBSET Files,
   message : {0} \cup Write, active : BOOLEAN]

(* In a call, the worker has a file; before, a name; in a write, its text. *)
WorkerState ==
  {w \in WorkerRecord :
     /\ w.at \in IoStage \ {"resolve"} => w.name \in Files
     /\ w.at = "resolve" => w.command.cmd \in Named /\ w.name = w.command.name
     /\ w.at \in {"write", "flush"} => w.message \in Write}

(* The call of the operating system that the worker is in, if it is in one. *)
CallInProgress == [at : {"none"} \cup Stage, name : Names \cup {None}, message : {0} \cup Write]
NoCall == [at |-> "none", name |-> None, message |-> 0]
Running ==
  IF worker.io = "reserved"
  THEN [at |-> worker.at, name |-> worker.name, message |-> worker.message] ELSE NoCall

(* A call about one path keeps it until it returns. *)
CallerState ==
  {c \in [op : {"idle", "close", "flush", "end", "ended"},
          at : {"idle", "ask", "await", "collect", "gather", "join", "blame"},
          name : Names \cup {None}] : c.op = "close" => c.name \in Names}

TypeOK ==
  /\ input_queue \in Seq(Command)
  /\ return_msg_queue \in Seq(Reply)
  /\ abandoned \in BOOLEAN
  /\ output_error \in [op : Operation, raised : BOOLEAN, queued : SUBSET Names,
                       running : CallInProgress]
  /\ current_op \in Operation
  /\ pending \in [Names -> Nat]
  /\ files \in [Files -> OutputFileType(Write)]
  /\ errors \in SUBSET Lost
  /\ worker \in WorkerState
  /\ caller \in CallerState
  /\ answer \in {"none", "released", "saved", "losses", "gave_up", "interrupted",
                 "type_error", "ended"}
  /\ disk \in [Files -> Seq({0} \cup Write)]
  /\ dest \in Seq(Names) /\ Len(dest) <= MaxWrites
  /\ stored \subseteq Write /\ told \subseteq Write
  /\ bounds \in [calls : 0..MaxCalls, interrupts : 0..MaxInterrupts]

Retry == [cmd |-> "retry", name |-> None, write |-> 0]

(* Each file exists and holds text of an earlier run, write 0. *)
Init ==
  /\ input_queue = <<>> /\ return_msg_queue = <<>>
  /\ abandoned = FALSE
  /\ output_error = [op |-> NoOp, raised |-> FALSE, queued |-> {}, running |-> NoCall]
  /\ current_op = NoOp
  /\ pending = [n \in Names |-> 0]
  /\ files = [f \in Files |-> Absent]
  /\ errors = {}
  /\ worker = [at |-> "loop", io |-> "idle", command |-> Retry, name |-> None, left |-> {},
               message |-> 0, active |-> TRUE]
  /\ caller = [op |-> "idle", at |-> "idle", name |-> None]
  /\ answer = "none"
  /\ disk = [f \in Files |-> <<0>>]
  /\ dest = <<>> /\ stored = {} /\ told = {}
  /\ bounds = [calls |-> MaxCalls, interrupts |-> MaxInterrupts]

----------------------------------------------------------------------------
(* Where each accepted write is. *)

FileOf(w) == Resolve[dest[w]]

InInput == {input_queue[i].write : i \in DOMAIN input_queue} \ {0}
InQueue(f) == Queued(files[f])
InFlight == InInput \cup ({worker.message} \ {0}) \cup UNION {InQueue(f) : f \in Files}

LostWrites == (DOMAIN dest \ stored) \ InFlight

(* The path a write in flight is pending under: the one it was written to, and
   once the worker has resolved that, the file. *)
PendingUnder(w) ==
  IF w \in InInput \/ (w = worker.message /\ worker.at = "resolve") THEN dest[w] ELSE FileOf(w)

(* completed: writes to n are retired, where the pending ones are p. *)
Retired(p, n, count) == [p EXCEPT ![n] = IF @ > count THEN @ - count ELSE 0]

(* The pending writes are behind a lock, which an abandonment holds. *)
Locked == caller.at = "blame" => pending' = pending

(* Mutant: a write stays pending under the path it was written to. *)
Moved_stays(n, f) == pending

(* _resolved_write. *)
Moved(n, f) ==
  IF n = f \/ pending[n] = 0 THEN pending
  ELSE [pending EXCEPT ![n] = @ - 1, ![f] = @ + 1]

----------------------------------------------------------------------------
(* The worker's moves. *)

At(stage, n, w) == [worker EXCEPT !.at = stage, !.io = "idle", !.name = n, !.message = w]

(* It is done with a command. *)
Done == [At("timer", None, 0) EXCEPT !.left = {}]

(* It is done with file f: the next one of its command, or its next command. *)
Onward(f) ==
  CASE worker.left \ {f} # {} -> [At("visit", None, 0) EXCEPT !.left = @ \ {f}]
    [] worker.left \ {f} = {} /\ worker.command = Retry -> [Done EXCEPT !.at = "loop"]
    [] worker.left \ {f} = {} /\ worker.command # Retry -> Done

(* write_queue: the next text of f, whose control is fc by now, or, when there is
   none, the close that its command or an earlier one asked for. *)
Drain(f, fc) ==
  \/ /\ fc.queue # <<>>
     /\ files' = [files EXCEPT ![f] = [fc EXCEPT !.queue = Tail(@)]]
     /\ worker' = At("write", f, Head(fc.queue))
  \/ /\ fc.queue = <<>>
     /\ files' = [files EXCEPT ![f] = [fc EXCEPT !.close_after_write = FALSE]]
     /\ worker' = IF fc.close_after_write \/ worker.command.cmd \in Closing
                  THEN At("close", f, 0) ELSE Onward(f)

(* try_open and what follows, where the control of f is fc and the pending writes
   are p by now. *)
try_open(f, fc, p) ==
  \/ /\ fc.status = "open"
     /\ Drain(f, fc)
     /\ pending' = p
  \/ /\ fc.status # "open" /\ fc.clock # "expired"
     /\ files' = [files EXCEPT ![f] = Started(fc)]
     /\ worker' = At("open", f, 0)
     /\ pending' = p
  \/ /\ fc.status # "open" /\ fc.clock = "expired"
     /\ files' = [files EXCEPT ![f] = TimedOut(fc)]
     /\ pending' = Retired(p, f, Len(fc.queue))
     /\ Locked
     /\ worker' = Onward(f)

(* open_as_new's second half, once its close has returned. *)
ForNew(fc) == IF worker.command.cmd = "open_as_new" THEN [fc EXCEPT !.openmode = "w"] ELSE fc

(* FileControl.close. *)
close(f, fc) ==
  \/ /\ fc.status = "open"
     /\ Drain(f, fc)
     /\ UNCHANGED pending
  \/ /\ fc.status # "open"
     /\ files' = [files EXCEPT ![f] = ForNew(CloseUnheld(fc))]
     /\ pending' = IF fc.status = "waiting" THEN Retired(pending, f, Len(fc.queue)) ELSE pending
     /\ Locked
     /\ worker' = Onward(f)

Take(cmd) ==
  /\ worker.at = "loop" /\ worker.active /\ ~abandoned
  /\ input_queue # <<>> /\ Head(input_queue).cmd = cmd
  /\ input_queue' = Tail(input_queue)

(* A command that names a path has it resolved first. *)
TakeNamed ==
  \E cmd \in Named :
    /\ Take(cmd)
    /\ worker' = [At("resolve", Head(input_queue).name, Head(input_queue).write)
                    EXCEPT !.command = Head(input_queue)]
    /\ UNCHANGED <<return_msg_queue, abandoned, output_error, current_op, pending, fileVars,
                   callVars, dest, told>>

(* The files that a command visits, one by one. *)
Visiting(S) ==
  LET w == IF S = {} THEN Done ELSE At("visit", None, 0)
  IN [w EXCEPT !.command = Head(input_queue), !.left = S]

close_all_after_write ==
  /\ Take("close_all_after_write")
  /\ worker' = Visiting({f \in Files : files[f].status \notin FAILED \cup {"absent", "closed"}})
  /\ UNCHANGED <<return_msg_queue, abandoned, output_error, current_op, pending, fileVars,
                 callVars, dest, told>>

shutdown ==
  /\ Take("shutdown")
  /\ worker' = [Visiting({f \in Files : files[f].status # "absent"}) EXCEPT !.active = FALSE]
  /\ UNCHANGED <<return_msg_queue, abandoned, output_error, current_op, pending, fileVars,
                 callVars, dest, told>>

(* The status of the first file that is open or waiting, if there is one. *)
closed_status ==
  /\ Take("closed_status")
  /\ LET held == {files[f].status : f \in Files} \cap {"open", "waiting"} IN
     \E st \in IF held = {} THEN {"closed"} ELSE held :
       return_msg_queue' = Append(return_msg_queue, [status |-> st, failures |-> {}])
  /\ worker' = [Done EXCEPT !.command = Head(input_queue)]
  /\ UNCHANGED <<abandoned, output_error, current_op, pending, fileVars, callVars, dest, told>>

(* Every file whose output was lost is reported, and a failed one forgotten. *)
open_failures ==
  /\ Take("open_failures")
  /\ LET failed == {f \in Files : files[f].status \in FAILED}
         given_up == {f \in Files \ failed : files[f].abandoned # {}}
     IN /\ return_msg_queue' = Append(return_msg_queue,
             [status |-> "none",
              failures |-> {[subject |-> f, writes |-> files[f].dropped] : f \in failed}
                             \cup {[subject |-> f, writes |-> files[f].abandoned] : f \in given_up}
                             \cup errors])
        /\ files' = [f \in Files |-> IF f \in failed THEN Absent
                                     ELSE [files[f] EXCEPT !.abandoned = {}]]
  /\ errors' = {}
  /\ worker' = [Done EXCEPT !.command = Head(input_queue)]
  /\ UNCHANGED <<abandoned, output_error, current_op, pending, disk, stored, callVars, dest, told>>

----------------------------------------------------------------------------
(* The worker's calls of the operating system. *)

ioRest == <<input_queue, abandoned, output_error, callVars, dest, told>>

Publish ==
  /\ worker.at \in IoStage /\ worker.io = "idle"
  /\ current_op' = [stage |-> Called(worker.at), name |-> worker.name]
  /\ worker' = [worker EXCEPT !.io = "published"]
  /\ UNCHANGED <<ioRest, return_msg_queue, pending, fileVars>>

(* Mutant: the writer is not asked again after the call is published. *)
Reserve_unchecked ==
  /\ worker.io = "published"
  /\ worker' = [worker EXCEPT !.io = "reserved"]
  /\ UNCHANGED <<ioRest, return_msg_queue, current_op, pending, fileVars>>

Reserve ==
  /\ worker.io = "published" /\ ~abandoned
  /\ worker' = [worker EXCEPT !.io = "reserved"]
  /\ UNCHANGED <<ioRest, return_msg_queue, current_op, pending, fileVars>>

(* It finds itself abandoned: before a call it has not reserved, after the
   resolution of a path, or between two files. *)
Stop ==
  /\ abandoned
  /\ worker.at \in IoStage \cup {"visit"}
  /\ worker.io = "reserved" => worker.at = "resolve"
  /\ current_op' = NoOp
  /\ worker' = Done
  /\ UNCHANGED <<ioRest, return_msg_queue, pending, fileVars>>

Ended(stage) == worker.at = stage /\ worker.io = "reserved" /\ current_op' = NoOp

(* A path that does not resolve: _command_failed. *)
ResolveRaises ==
  LET n == worker.name  w == worker.command.write IN
  /\ Ended("resolve") /\ ~abandoned /\ n \in Loops
  /\ errors' = errors \cup {[subject |-> n, writes |-> {w} \ {0}]}
  /\ pending' = IF w # 0 THEN Retired(pending, n, 1) ELSE pending
  /\ Locked
  /\ return_msg_queue' = IF worker.command.cmd = "status"
                         THEN Append(return_msg_queue, [status |-> "closed", failures |-> {}])
                         ELSE return_msg_queue
  /\ worker' = Done
  /\ UNCHANGED <<ioRest, files, disk, stored>>

Resolved(cmd) == Ended("resolve") /\ ~abandoned /\ worker.name \notin Loops
                   /\ worker.command.cmd = cmd

write ==
  LET w == worker.command.write  f == Resolve[worker.name]  fc == FileControl(files[f])
      p == Moved(worker.name, f)
  IN /\ Resolved("write")
     /\ \/ /\ fc.status \in FAILED
           /\ files' = [files EXCEPT ![f].dropped = @ \cup {w}]
           /\ pending' = Retired(p, f, 1)
           /\ worker' = Done
        \/ /\ fc.status \notin FAILED
           /\ try_open(f, [fc EXCEPT !.queue = Append(@, w)], p)
     /\ Locked
     /\ UNCHANGED <<ioRest, return_msg_queue, errors, disk, stored>>

(* Mutant: a file that is still locked is not closed. *)
close_if_open_openOnly ==
  LET f == Resolve[worker.name] IN
  /\ Resolved("close_if_open")
  /\ \/ files[f].status # "open" /\ worker' = Done /\ UNCHANGED <<files, pending>>
     \/ files[f].status = "open" /\ close(f, files[f])
  /\ UNCHANGED <<ioRest, return_msg_queue, errors, disk, stored>>

close_if_open ==
  LET f == Resolve[worker.name] IN
  /\ Resolved("close_if_open")
  /\ \/ files[f].status = "absent" /\ worker' = Done /\ UNCHANGED <<files, pending>>
     \/ files[f].status # "absent" /\ close(f, files[f])
  /\ UNCHANGED <<ioRest, return_msg_queue, errors, disk, stored>>

open_as_new ==
  LET f == Resolve[worker.name] IN
  /\ Resolved("open_as_new")
  /\ close(f, FileControl(files[f]))
  /\ UNCHANGED <<ioRest, return_msg_queue, errors, disk, stored>>

status ==
  LET st == files[Resolve[worker.name]].status IN
  /\ Resolved("status")
  /\ return_msg_queue' = Append(return_msg_queue,
       [status |-> IF st = "absent" THEN "unopened" ELSE st, failures |-> {}])
  /\ worker' = Done
  /\ UNCHANGED <<ioRest, pending, fileVars>>

(* open() returns; mode "w" empties the file. *)
OpenSucceeds ==
  LET f == worker.name  fc == files[f] IN
  /\ Ended("open")
  /\ disk' = [disk EXCEPT ![f] = IF fc.openmode = "w" THEN <<>> ELSE @]
  /\ Drain(f, Opened(fc))
  /\ UNCHANGED <<ioRest, return_msg_queue, pending, errors, stored>>

(* Another process has the file: its text waits. *)
OpenLocked ==
  LET f == worker.name IN
  /\ Ended("open")
  /\ files' = [files EXCEPT ![f].status = "waiting"]
  /\ worker' = Onward(f)
  /\ UNCHANGED <<ioRest, return_msg_queue, pending, errors, disk, stored>>

(* The file fails alone, with the text it cannot take: queue and message. *)
FileFails(f, st) ==
  LET message == {worker.message} \ {0}
      fc == [files[f] EXCEPT !.dropped = @ \cup message]
  IN /\ files' = [files EXCEPT ![f] = ForNew(fail(fc, st))]
     /\ pending' = Retired(pending, f, Len(fc.queue) + Cardinality(message))
     /\ Locked
     /\ worker' = Onward(f)

NeverOpens ==
  /\ Ended("open")
  /\ FileFails(worker.name, "openfailure")
  /\ UNCHANGED <<ioRest, return_msg_queue, errors, disk, stored>>

(* handle.write: the text is in the handle's buffer. *)
WriteSucceeds ==
  /\ Ended("write")
  /\ worker' = IF abandoned THEN Done ELSE At("flush", worker.name, worker.message)
  /\ UNCHANGED <<ioRest, return_msg_queue, pending, fileVars>>

OnDisk(f) ==
  /\ disk' = [disk EXCEPT ![f] = Append(@, worker.message)]
  /\ stored' = stored \cup {worker.message}

FlushSucceeds ==
  LET f == worker.name IN
  /\ Ended("flush")
  /\ OnDisk(f)
  /\ pending' = Retired(pending, f, 1) /\ Locked
  /\ Drain(f, files[f])
  /\ UNCHANGED <<ioRest, return_msg_queue, errors>>

(* A write or a flush that raises may have written the text all the same. *)
WriteFails ==
  /\ Ended("write") \/ Ended("flush")
  /\ OnDisk(worker.name) \/ UNCHANGED <<disk, stored>>
  /\ FileFails(worker.name, "writefailure")
  /\ UNCHANGED <<ioRest, return_msg_queue, errors>>

CloseSucceeds ==
  LET f == worker.name IN
  /\ Ended("close")
  /\ files' = [files EXCEPT ![f] = ForNew([@ EXCEPT !.status = "closed", !.openmode = "a"])]
  /\ worker' = Onward(f)
  /\ UNCHANGED <<ioRest, return_msg_queue, pending, errors, disk, stored>>

CloseFails ==
  /\ Ended("close")
  /\ FileFails(worker.name, "writefailure")
  /\ UNCHANGED <<ioRest, return_msg_queue, errors, disk, stored>>

----------------------------------------------------------------------------
(* The worker's loop. *)

(* The next file of close_all_after_write, shutdown or retry_waiting. *)
Visit ==
  /\ worker.at = "visit" /\ ~abandoned
  /\ \E f \in worker.left :
       LET fc == files[f] IN
       \/ worker.command = Retry /\ try_open(f, fc, pending)
       \/ /\ worker.command.cmd = "close_all_after_write" /\ fc.status = "waiting"
          /\ files' = [files EXCEPT ![f].close_after_write = TRUE]
          /\ worker' = Onward(f)
          /\ UNCHANGED pending
       \/ /\ worker.command # Retry
          /\ worker.command.cmd = "close_all_after_write" => fc.status # "waiting"
          /\ close(f, fc)
  /\ UNCHANGED <<ioRest, current_op, return_msg_queue, errors, disk, stored>>

loopRest == <<return_msg_queue, output_error, current_op, errors, disk, stored, callVars, dest, told>>

(* input_queue.get times out. *)
GetTimesOut ==
  /\ worker.at = "loop" /\ worker.active /\ ~abandoned /\ input_queue = <<>>
  /\ worker' = At("timer", None, 0)
  /\ UNCHANGED <<loopRest, input_queue, abandoned, pending, files>>

(* After a command, or when there was none, it is not yet time to retry. *)
CheckTimer ==
  /\ worker.at = "timer" /\ ~abandoned
  /\ worker' = At("loop", None, 0)
  /\ UNCHANGED <<loopRest, input_queue, abandoned, pending, files>>

Retries(waiting) ==
  /\ worker.at = "timer" /\ ~abandoned /\ waiting # {}
  /\ worker' = [At("visit", None, 0) EXCEPT !.command = Retry, !.left = waiting]
  /\ UNCHANGED <<loopRest, input_queue, abandoned, pending, files>>

(* Mutant: it is the files never tried that are retried. *)
retry_waiting_unopened == Retries({f \in Files : files[f].status = "unopened"})

retry_waiting == Retries({f \in Files : files[f].status = "waiting"})

(* The thread's end; an abandoned writer gives up all that is queued. *)
WorkerEnds ==
  /\ \/ worker.at = "loop" /\ (abandoned \/ ~worker.active)
     \/ worker.at = "timer" /\ abandoned
  /\ worker' = [At("ended", None, 0) EXCEPT !.active = FALSE]
  /\ input_queue' = IF abandoned THEN <<>> ELSE input_queue
  /\ files' = [f \in Files |-> IF abandoned /\ files[f].status # "absent"
                               THEN discard(files[f]) ELSE files[f]]
  /\ pending' = IF abandoned THEN [n \in Names |-> 0] ELSE pending
  /\ UNCHANGED <<loopRest, abandoned>>

(* open_timeout passes since the first attempt to open f; an abandoned writer looks
   at no clock. *)
ClockExpires ==
  /\ ~abandoned
  /\ \E f \in Files : files[f].clock = "running" /\ files' = [files EXCEPT ![f].clock = "expired"]
  /\ UNCHANGED <<loopRest, input_queue, abandoned, pending, worker>>

----------------------------------------------------------------------------
(* The script's thread. *)

callRest == <<current_op, fileVars, worker>>

Submit(cmd, n, w) ==
  input_queue' = Append(input_queue, [cmd |-> cmd, name |-> n, write |-> w])

(* The script is free to call, and the writer is running. *)
Active == caller.op = "idle" /\ ~abandoned

Spend == bounds.calls > 0 /\ bounds' = [bounds EXCEPT !.calls = @ - 1]

Waits(op, at, n) == caller' = [op |-> op, at |-> at, name |-> n]

filewriter_write(n) ==
  /\ Active /\ Len(dest) < MaxWrites
  /\ dest' = Append(dest, n)
  /\ pending' = [pending EXCEPT ![n] = @ + 1]
  /\ Submit("write", n, Len(dest) + 1)
  /\ answer' = "none"
  /\ UNCHANGED <<callRest, return_msg_queue, abandoned, output_error, caller, told, bounds>>

filewriter_open_as_new(n) ==
  /\ Active /\ Spend
  /\ Submit("open_as_new", n, 0)
  /\ answer' = "none"
  /\ UNCHANGED <<callRest, return_msg_queue, abandoned, output_error, pending, caller, dest, told>>

filewriter_close(n) ==
  /\ Active /\ Spend
  /\ Submit("close_if_open", n, 0)
  /\ Waits("close", "ask", n)
  /\ answer' = "none"
  /\ UNCHANGED <<callRest, return_msg_queue, abandoned, output_error, pending, dest, told>>

filewriter_close_all_after_write ==
  /\ Active /\ Spend
  /\ Submit("close_all_after_write", None, 0)
  /\ Waits("flush", "ask", None)
  /\ answer' = "none"
  /\ UNCHANGED <<callRest, return_msg_queue, abandoned, output_error, pending, dest, told>>

(* A running writer is asked to stop, and joined; an abandoned one is left. *)
filewriter_end ==
  /\ caller.op = "idle"
  /\ \/ /\ abandoned
        /\ Waits("ended", "idle", None)
        /\ answer' = "ended"
        /\ UNCHANGED input_queue
     \/ /\ ~abandoned
        /\ Submit("shutdown", None, 0)
        /\ Waits("end", "join", None)
        /\ answer' = "none"
  /\ UNCHANGED <<callRest, return_msg_queue, abandoned, output_error, pending, dest, told, bounds>>

(* The next request of a call that waits: for a status, then for the losses. *)
Ask ==
  /\ \/ /\ caller.at = "ask" /\ caller.op = "close"
        /\ Submit("status", caller.name, 0)
     \/ /\ caller.at = "ask" /\ caller.op = "flush"
        /\ Submit("closed_status", None, 0)
     \/ /\ caller.at = "collect"
        /\ Submit("open_failures", None, 0)
  /\ caller' = [caller EXCEPT !.at = IF @ = "ask" THEN "await" ELSE "gather"]
  /\ UNCHANGED <<callRest, return_msg_queue, abandoned, output_error, pending, answer, dest, told, bounds>>

Returns(a) == Waits("idle", "idle", None) /\ answer' = a

(* _abandon_writer takes the lock of the pending writes, and notes which call the
   error will say the worker is in... *)
NotesCall ==
  /\ output_error' = [output_error EXCEPT !.op = current_op]
  /\ caller' = [caller EXCEPT !.at = "blame"]
  /\ UNCHANGED <<abandoned, answer>>

(* ...only then stops the writer, and lists the paths that have writes pending.  (The
   error is made here, and nothing reads again which call it names.) *)
Abandon ==
  /\ caller.at = "blame"
  /\ abandoned' = TRUE
  /\ output_error' = [output_error EXCEPT !.raised = TRUE, !.op = NoOp, !.running = Running,
                                         !.queued = {n \in Names : pending[n] > 0}]
  /\ answer' = "gave_up"
  /\ Waits(IF caller.op = "end" THEN "ended" ELSE "idle", "idle", None)
  /\ UNCHANGED <<callRest, input_queue, return_msg_queue, pending, dest, told, bounds>>

Received == Head(return_msg_queue)

(* _writer_reply returns a file's status, or that of every file.  One that is
   still held is asked for again, unless the deadline has passed. *)
TakeStatus ==
  LET held == \/ caller.op = "close" /\ Received.status = "open"
              \/ caller.op = "flush" /\ Received.status # "closed"
  IN /\ caller.at = "await" /\ return_msg_queue # <<>>
     /\ return_msg_queue' = Tail(return_msg_queue)
     /\ \/ held /\ NotesCall
        \/ /\ UNCHANGED <<abandoned, output_error>>
           /\ \/ held /\ caller' = [caller EXCEPT !.at = "ask"] /\ UNCHANGED answer
              \/ /\ ~held /\ caller.op = "flush"
                 /\ caller' = [caller EXCEPT !.at = "collect"]
                 /\ UNCHANGED answer
              \/ ~held /\ caller.op = "close" /\ Returns("released")
     /\ UNCHANGED <<callRest, input_queue, pending, dest, told, bounds>>

(* What it returns last is taken for the list of losses, whatever it is. *)
TakeFailures ==
  /\ caller.at = "gather" /\ return_msg_queue # <<>>
  /\ return_msg_queue' = Tail(return_msg_queue)
  /\ LET failures == IF Received.status = "none" THEN Received.failures ELSE {} IN
     /\ told' = told \cup {w \in LostWrites : \E r \in failures :
                             \/ w \in r.writes
                             \/ r.subject = FileOf(w)}
     /\ Returns(CASE Received.status # "none" -> "type_error"
                  [] Received.status = "none" /\ failures = {} -> "saved"
                  [] Received.status = "none" /\ failures # {} -> "losses")
  /\ UNCHANGED <<callRest, input_queue, abandoned, output_error, pending, dest, bounds>>

(* Mutant: the deadline is not kept while the losses are asked for. *)
TimesOut_statusOnly ==
  /\ caller.at \in {"await", "join"} /\ worker.at # "ended"
  /\ NotesCall
  /\ UNCHANGED <<callRest, input_queue, return_msg_queue, pending, dest, told, bounds>>

(* The call's deadline passes. *)
TimesOut ==
  /\ caller.at \in {"await", "gather", "join"} /\ worker.at # "ended"
  /\ NotesCall
  /\ UNCHANGED <<callRest, input_queue, return_msg_queue, pending, dest, told, bounds>>

Joined ==
  /\ caller.at = "join" /\ worker.at = "ended"
  /\ Waits("ended", "idle", None) /\ answer' = "ended"
  /\ UNCHANGED <<callRest, input_queue, return_msg_queue, abandoned, output_error, pending, dest,
                 told, bounds>>

(* Ctrl-C or SIGTERM ends the wait, wherever it is: it may come after an abandonment
   has stopped the writer and before its error is there. *)
Interrupt ==
  /\ caller.op \in {"close", "flush"} /\ bounds.interrupts > 0
  /\ bounds' = [bounds EXCEPT !.interrupts = @ - 1]
  /\ Returns("interrupted")
  /\ \/ UNCHANGED <<abandoned, output_error>>
     \/ /\ caller.at = "blame"
        /\ abandoned' = TRUE
        /\ output_error' = [output_error EXCEPT !.running = Running]
  /\ UNCHANGED <<callRest, input_queue, return_msg_queue, pending, dest, told>>

(* The run is over. *)
Over ==
  /\ caller.op = "ended" /\ worker.at = "ended"
  /\ UNCHANGED vars

----------------------------------------------------------------------------

Worker ==
  \/ TakeNamed \/ close_all_after_write \/ shutdown \/ closed_status \/ open_failures
  \/ Publish \/ Reserve \/ Stop \/ Visit
  \/ ResolveRaises \/ write \/ close_if_open \/ open_as_new \/ status
  \/ OpenSucceeds \/ OpenLocked \/ NeverOpens \/ WriteSucceeds \/ FlushSucceeds \/ WriteFails
  \/ CloseSucceeds \/ CloseFails
  \/ GetTimesOut \/ CheckTimer \/ retry_waiting \/ WorkerEnds

(* The steps of a call that waits. *)
Waiting == Ask \/ TakeStatus \/ TakeFailures \/ TimesOut \/ Abandon \/ Joined

Calls ==
  \/ \E n \in Names : filewriter_write(n) \/ filewriter_open_as_new(n) \/ filewriter_close(n)
  \/ filewriter_close_all_after_write \/ filewriter_end

Next ==
  \/ Worker \/ Calls \/ Waiting
  \/ ClockExpires \/ Interrupt \/ Over

(* The script's thread, whatever the worker does: it may be stuck in a call.  The
   waits of one call add up to its deadline. *)
CallerFairness == WF_vars(Waiting) /\ SF_vars(TimesOut)

(* The worker's thread runs and its calls end; time passes: a worker that comes by
   its timer again and again finds in the end that it has run out. *)
WorkerFairness == WF_vars(Worker) /\ SF_vars(retry_waiting) /\ WF_vars(ClockExpires)

Spec == Init /\ [][Next]_vars
LiveSpec == Spec /\ CallerFairness

----------------------------------------------------------------------------
(* What the writer promises. *)

(* Every write is stored in order or lost, and a flush answers when all of them are
   settled, and names the file of every lost one: the run implements OutputPromise.
   (How many lines the message counts is not part of it.) *)
Promise == INSTANCE OutputPromise WITH lost <- LostWrites

KeepsPromise == Promise!Spec

(* The writes pending under a path, which the error of an abandonment lists, are
   those in flight to it, whatever the worker has resolved, retried, failed or
   given up (submit, completed, _resolved_write). *)
PendingExact ==
  ~abandoned =>
    \A n \in Names : pending[n] = Cardinality({w \in InFlight : PendingUnder(w) = n})

(* Once the writer is abandoned a file changes only as the call ends that the
   worker was in by then, and not twice; and the error lists the file among those
   whose output may be lost (docs/reference/metacommands.md: "Its one in-progress
   I/O call may finish later, but it starts no subsequent opens or writes").  The
   call that the error says the worker is in may be an earlier one, which ended
   before the writer was stopped. *)
LateChangeIsNamed ==
  [][abandoned /\ disk' # disk =>
       /\ Running = output_error.running
       /\ output_error.raised => worker.name \in output_error.queued]_vars

(* When filewriter_close returns, for synchronous output to the same path, the
   writer does not hold the file and will write nothing more to it. *)
FileIsLetGo ==
  [][answer # "released" /\ answer' = "released" /\ caller.name \notin Loops =>
       LET f == Resolve[caller.name] IN
       /\ files[f].status # "open"
       /\ \A w \in InFlight : dest[w] \notin Loops => FileOf(w) # f]_vars

(* A call that waits returns, even if the worker is stuck in the operating system
   (filewriter_close_all_after_write: "within one absolute deadline"). *)
WaitsEnd == caller.op \in {"close", "flush", "end"} ~> caller.op \in {"idle", "ended"}

(* While the worker's thread runs and its calls end, every write is settled: a
   locked file is retried, or times out, even if the script writes nothing more
   (retry_waiting). *)
WritesSettle == WorkerFairness => \A w \in Write : w \in InFlight ~> w \notin InFlight

(* A flush that has returned has told of every loss (docs/reference/metacommands.md:
   "reports any output that is still lost"). *)
LossesAreTold == answer \in {"saved", "losses", "type_error"} => LostWrites \subseteq told

(* A file does not fail for a lock before an attempt to open it (class FileWriter:
   "opening will be re-tried until a specified interval has elapsed"). *)
LockedFileIsTried ==
  [][\A f \in Files :
       files[f].status \in {"absent", "unopened", "closed"} /\ files'[f].status = "openfailure"
         => worker.at = "open"]_vars
=============================================================================
