----------------------------- MODULE OutputFile -----------------------------
(***************************************************************************)
(* FileWriter.FileControl (utils/fileio.py): what the writer thread keeps  *)
(* about one output file, and what the methods that touch no file do to    *)
(* it.  The calls that do - open, write, flush, close - are the steps of   *)
(* module FileWriter.                                                      *)
(*                                                                         *)
(* A write is a number, and the counts of discarded writes are the sets of *)
(* those writes.  A control that failed has discarded its text for good:   *)
(* its status says so, and _discarded is left out.                         *)
(***************************************************************************)
EXTENDS Naturals, Sequences

(* "absent": the writer has no control for the file. *)
Status ==
  {"absent", "unopened", "waiting", "open", "closed", "openfailure", "writefailure"}

FAILED == {"openfailure", "writefailure"}

(* open_start_time against open_timeout. *)
Clock == {"unset", "running", "expired"}

OutputFileType(W) ==
  [status : Status, queue : Seq(W), openmode : {"a", "w"}, clock : Clock,
   close_after_write : BOOLEAN, dropped : SUBSET W, abandoned : SUBSET W]

Absent ==
  [status |-> "absent", queue |-> <<>>, openmode |-> "a", clock |-> "unset",
   close_after_write |-> FALSE, dropped |-> {}, abandoned |-> {}]

(* The control of a file, created when it is first asked for. *)
FileControl(fc) == IF fc.status = "absent" THEN [fc EXCEPT !.status = "unopened"] ELSE fc

Queued(fc) == {fc.queue[i] : i \in DOMAIN fc.queue}

(* The queue is given up and its writes counted as dropped. *)
discard(fc) ==
  [fc EXCEPT !.dropped = @ \cup Queued(fc), !.queue = <<>>, !.close_after_write = FALSE,
             !.status = IF @ \in FAILED THEN @ ELSE "closed"]

fail(fc, status) == discard([fc EXCEPT !.status = status])

(* try_open once open_timeout is over: the file has failed. *)
TimedOut(fc) == fail(fc, "openfailure")

(* Mutant: the text of a file still locked is given up without being counted. *)
CloseUnheld_uncounted(fc) ==
  IF fc.status \in FAILED THEN fc
  ELSE [fc EXCEPT !.queue = IF fc.status = "waiting" THEN <<>> ELSE @,
                  !.close_after_write = IF fc.status = "waiting" THEN FALSE ELSE @,
                  !.status = "closed", !.openmode = "a"]

(* close() of a file that no handle holds: a file still locked gives up its
   queue, and a failed one stays as it is. *)
CloseUnheld(fc) ==
  IF fc.status \in FAILED THEN fc
  ELSE [fc EXCEPT !.abandoned = IF fc.status = "waiting" THEN @ \cup Queued(fc) ELSE @,
                  !.queue = IF fc.status = "waiting" THEN <<>> ELSE @,
                  !.close_after_write = IF fc.status = "waiting" THEN FALSE ELSE @,
                  !.status = "closed", !.openmode = "a"]

(* try_open's first attempt since the file was last open starts its clock. *)
Started(fc) == [fc EXCEPT !.clock = IF @ = "unset" THEN "running" ELSE @]

Opened(fc) == [fc EXCEPT !.status = "open", !.openmode = "a", !.clock = "unset"]
=============================================================================
