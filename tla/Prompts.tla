------------------------------- MODULE Prompts -------------------------------
(***************************************************************************)
(* A prompt, from the metacommand that asks to what becomes of the answer, *)
(* under the four ways of showing a dialog; and the end of a run, with     *)
(* what the log, the manifest and the exit status say of it.               *)
(*                                                                         *)
(* Who shows a dialog (backend): "thread", ConsoleBackend behind           *)
(* gui_manager_loop's queue; "tkinter" and "textual", the queues whose     *)
(* put() runs the dialog in the script's thread; "app", ConsoleApp, which  *)
(* has the main thread and takes dialogs from the script's.                *)
(***************************************************************************)
EXTENDS Integers, FiniteSets

CONSTANTS
  Backend,  \* those that may show dialogs: of "thread", "tkinter", "textual", "app"
  Meta,     \* the metacommands that prompt, of AllMetas
  Status    \* exit statuses that HALT may name

VARIABLES
  backend,      \* who shows the dialogs of this run
  cancel_halt,  \* CANCEL_HALT
  script,       \* where the script's thread is
  meta,         \* the metacommand that prompts
  dialog,       \* its dialog: "none", "queued" or "shown"
  reply,        \* the dialog's result, on the return queue
  told,         \* what the metacommand made of it
  code,         \* the status of the ScriptExit that is being prepared or raised
  app,          \* ConsoleApp: "none", "up", or "quit" by the user
  exit_type,    \* Logger.exit_type
  record,       \* the log's exit record
  manifest,     \* the manifest's exit_status
  status        \* the process's

vars == <<backend, cancel_halt, script, meta, dialog, reply, told, code, app,
          exit_type, record, manifest, status>>

AllMetas == {"display", "enter", "ask", "compare", "ask_compare", "entry_form", "pause", "map",
             "action", "select_rows", "select_sub", "open_file", "save_file", "directory", "msg",
             "halt", "connect", "password"}

ASSUME PromptsAssumption ==
  /\ Backend \subseteq {"thread", "tkinter", "textual", "app"}
  /\ Meta \subseteq AllMetas
  /\ Status \subseteq Nat

(***************************************************************************)
(* A dialog's result: what the user did, the keys of the dict, and the     *)
(* value of the one that tells the answer: "yes" for a true one, "no" for  *)
(* the 0 of a No button, "cancel" for {"quit": True}, "none" for None.     *)
(***************************************************************************)
Acts == {"yes", "no", "cancel", "close", "timeout", "eof", "nobody"}
Gives(act, keys, choice) == [act |-> act, keys |-> keys, choice |-> choice, cancelled |-> FALSE]
Cancelled(act) == [act |-> act, keys |-> {"button", "cancelled"}, choice |-> "none", cancelled |-> TRUE]
Closed == Gives("close", {}, "none")
NoReply == Gives("nobody", {}, "none")

\* The button_list that the metacommand passes, and its no_cancel.
Buttons(m) == IF m \in {"ask", "ask_compare"} THEN {"yes", "no"} ELSE {"yes"}
NoCancel(m) == m = "halt"

-----------------------------------------------------------------------------
(***************************************************************************)
(* ConsoleBackend: input() and print().                                    *)
(***************************************************************************)
_prompt_buttons(m, keys) == {Gives(b, keys, b) : b \in Buttons(m)}

console_show_halt == {Gives("yes", {"button"}, "yes")}
console_show_pause ==
  {Gives("yes", {"quit"}, "yes"), Gives("cancel", {"quit"}, "cancel"), Gives("timeout", {"quit"}, "yes")}
console_show_display(m) == _prompt_buttons(m, {"button", "return_value"})
console_show_entry_form ==
  {Gives("yes", {"button", "return_value"}, "yes"), Gives("cancel", {"button", "return_value"}, "none")}
console_show_compare(m) == _prompt_buttons(m, {"button"})
console_show_select_rows(m) == _prompt_buttons(m, {"button", "rows"})
\* It looks for rows under another name than the metacommand's, and finds none.
console_show_select_sub == {Gives("nobody", {"button", "row"}, "none")}
console_show_action == {Gives("yes", {"button"}, "yes")}
console_show_map(m) == _prompt_buttons(m, {"button"})
console_show_file(key) == {Gives("yes", {key}, "yes"), Gives("cancel", {key}, "none")}
console_show_connect == {Gives("yes", {"db_type"}, "yes")}

ConsoleDialog(m) ==
  CASE m \in {"halt", "msg"} -> console_show_halt
    [] m = "pause" -> console_show_pause
    [] m \in {"display", "enter", "ask", "password"} -> console_show_display(m)
    [] m = "entry_form" -> console_show_entry_form
    [] m \in {"compare", "ask_compare"} -> console_show_compare(m)
    [] m = "select_rows" -> console_show_select_rows(m)
    [] m = "select_sub" -> console_show_select_sub
    [] m = "action" -> console_show_action
    [] m = "map" -> console_show_map(m)
    [] m \in {"open_file", "save_file"} -> console_show_file("filename")
    [] m = "directory" -> console_show_file("directory")
    [] m = "connect" -> console_show_connect

-----------------------------------------------------------------------------
(***************************************************************************)
(* Textual screens. Escape cancels every one, unless it has no_cancel; so  *)
(* does the Cancel button of _button_row, which takes the label of a       *)
(* button whose value is 0.                                                *)
(***************************************************************************)
action_cancel(m) == IF NoCancel(m) THEN {} ELSE {Cancelled("cancel")}
_button_row(m, keys) ==
  {Gives("yes", keys, "yes")}
    \cup IF NoCancel(m) THEN {} ELSE {Cancelled(IF "no" \in Buttons(m) THEN "no" ELSE "cancel")}

MsgScreen(m) == _button_row(m, {"button"})
PauseScreen == {Gives("yes", {"quit"}, "yes"), Gives("timeout", {"quit"}, "yes"), Cancelled("cancel")}
DisplayScreen(m) == _button_row(m, {"button", "return_value"})
EntryFormScreen == {Gives("yes", {"button", "return_value"}, "yes"), Cancelled("cancel")}
CompareScreen(m) == _button_row(m, {"button"})
SelectRowsScreen(m) == _button_row(m, {"button", "rows"})
SelectSubScreen(m) == _button_row(m, {"button", "row"})
ActionScreen == {Gives("yes", {"button"}, "yes")}
MapScreen(m) == _button_row(m, {"button"})
FilePathScreen(key) == {Gives("yes", {key}, "yes"), Gives("cancel", {key}, "none")}
ConnectScreen == {Gives("yes", {"db_type"}, "yes"), Gives("cancel", {"db_type"}, "none")}

_build_screen_map(m) ==
  CASE m \in {"halt", "msg"} -> MsgScreen(m)
    [] m = "pause" -> PauseScreen
    [] m \in {"display", "enter", "ask", "password"} -> DisplayScreen(m)
    [] m = "entry_form" -> EntryFormScreen
    [] m \in {"compare", "ask_compare"} -> CompareScreen(m)
    [] m = "select_rows" -> SelectRowsScreen(m)
    [] m = "select_sub" -> SelectSubScreen(m)
    [] m = "action" -> ActionScreen
    [] m = "map" -> MapScreen(m)
    [] m \in {"open_file", "save_file"} -> FilePathScreen("filename")
    [] m = "directory" -> FilePathScreen("directory")
    [] m = "connect" -> ConnectScreen

\* A screen in an application of its own can be left by quitting that.
TextualDialog(m) ==
  _build_screen_map(m) \cup action_cancel(m) \cup (IF backend = "textual" THEN {Closed} ELSE {})

-----------------------------------------------------------------------------
(***************************************************************************)
(* Tkinter dialogs. A window closed by the window manager leaves {}.       *)
(***************************************************************************)
_add_buttons(m, keys) == {Gives(b, keys, b) : b \in Buttons(m)}
Escaped(keys) == {Gives("cancel", keys, "none")}

MsgDialog == {Gives("yes", {"button"}, "yes"), Closed}
PauseDialog ==
  {Gives("yes", {"quit"}, "yes"), Gives("cancel", {"quit"}, "cancel"),
   Gives("timeout", {"quit"}, "yes"), Closed}
DisplayDialog(m) ==
  _add_buttons(m, {"button", "return_value"}) \cup Escaped({"button", "return_value"}) \cup {Closed}
EntryFormDialog ==
  {Gives("yes", {"button", "return_value"}, "yes"), Closed} \cup Escaped({"button", "return_value"})
CompareDialog(m) == _add_buttons(m, {"button"}) \cup Escaped({"button"}) \cup {Closed}
SelectRowsDialog(m) == _add_buttons(m, {"button", "rows"}) \cup Escaped({"button", "rows"})
\* It lists no rows, for want of the names it looks under; OK waits for a selection.
SelectSubDialog == Escaped({"button", "row"}) \cup {Closed}
ActionDialog == {Gives("yes", {"button"}, "yes"), Closed} \cup Escaped({"button"})
MapDialog(m) == _add_buttons(m, {"button"}) \cup {Closed}
FileDialog(key) == {Gives("yes", {key}, "yes")} \cup Escaped({key})
ConnectDialog == {Gives("yes", {"db_type"}, "yes"), Closed} \cup Escaped({"db_type"})

TkinterDialog(m) ==
  CASE m \in {"halt", "msg"} -> MsgDialog
    [] m = "pause" -> PauseDialog
    [] m \in {"display", "enter", "ask", "password"} -> DisplayDialog(m)
    [] m = "entry_form" -> EntryFormDialog
    [] m \in {"compare", "ask_compare"} -> CompareDialog(m)
    [] m = "select_rows" -> SelectRowsDialog(m)
    [] m = "select_sub" -> SelectSubDialog
    [] m = "action" -> ActionDialog
    [] m = "map" -> MapDialog(m)
    [] m \in {"open_file", "save_file"} -> FileDialog("filename")
    [] m = "directory" -> FileDialog("directory")
    [] m = "connect" -> ConnectDialog

\* A dialog can fail: input() at the end of its file, a window that cannot be made.
Raised == Gives("eof", {"error", "button"}, "none")

Results(m) ==
  CASE backend = "thread" -> ConsoleDialog(m) \cup {Raised}
    [] backend = "tkinter" -> TkinterDialog(m) \cup {Raised}
    [] backend = "textual" -> TextualDialog(m) \cup {Raised}
    [] backend = "app" -> TextualDialog(m)

-----------------------------------------------------------------------------
(***************************************************************************)
(* What each metacommand makes of the result: "done" or "stored"; "yes" or *)
(* "no", stored as Yes or No; "cancelled"; "error" for a KeyError or an    *)
(* ErrInfo.                                                                *)
(***************************************************************************)
None(r) == r.choice = "none"
Needs(r, keys, made) == IF keys \subseteq r.keys THEN made ELSE "error"

x_prompt(r) == Needs(r, {"button"}, IF r.choice # "yes" THEN "cancelled" ELSE "done")
x_prompt_enter(r) == Needs(r, {"button", "return_value"}, IF None(r) THEN "cancelled" ELSE "stored")
x_prompt_entryform(r) ==
  Needs(r, {"button", "return_value"}, IF r.choice = "yes" THEN "stored" ELSE "cancelled")
x_prompt_pause(r) == Needs(r, {"quit"}, IF r.choice = "cancel" THEN "cancelled" ELSE "done")
prompt_compare(r) == Needs(r, {"button"}, IF None(r) THEN "cancelled" ELSE "done")
x_prompt_ask_compare(r) ==
  IF prompt_compare(r) # "done" THEN prompt_compare(r) ELSE IF r.choice = "yes" THEN "yes" ELSE "no"
\* Mutant: a No button's 0 is taken for a cancel's None, and a cancel for No.
x_prompt_ask_falsy(r) == Needs(r, {"button"}, IF r.choice = "yes" THEN "yes" ELSE "no")
x_prompt_ask(r) ==
  Needs(r, {"button"}, IF None(r) THEN "cancelled" ELSE IF r.choice = "yes" THEN "yes" ELSE "no")
x_prompt_map(r) == Needs(r, {"button"}, IF r.choice # "yes" THEN "cancelled" ELSE "done")
x_prompt_action(r) == Needs(r, {"button"}, IF r.choice # "yes" THEN "cancelled" ELSE "done")
x_prompt_savefile(r) == Needs(r, {"filename"}, IF None(r) THEN "cancelled" ELSE "stored")
x_prompt_openfile(r) == Needs(r, {"filename"}, IF None(r) THEN "cancelled" ELSE "stored")
x_prompt_directory(r) == Needs(r, {"directory"}, IF None(r) THEN "cancelled" ELSE "stored")
prompt_select_rows(r) ==
  Needs(r, {"button"}, IF None(r) THEN "cancelled" ELSE Needs(r, {"rows"}, "done"))
x_prompt_selectsub(r) ==
  Needs(r, {"button", "return_value"}, IF None(r) THEN "cancelled" ELSE "stored")
gui_connect(r) == IF "db_type" \notin r.keys \/ None(r) THEN "error" ELSE "stored"
\* Any exception, of the dialog or of reading its result, falls back to the terminal.
get_password(r) ==
  IF ~({"button", "return_value"} \subseteq r.keys) THEN "stored"
  ELSE IF None(r) THEN "cancelled" ELSE "stored"

Reads(m, r) ==
  CASE m = "display" -> x_prompt(r)
    [] m = "enter" -> x_prompt_enter(r)
    [] m = "ask" -> x_prompt_ask(r)
    [] m = "compare" -> prompt_compare(r)
    [] m = "ask_compare" -> x_prompt_ask_compare(r)
    [] m = "entry_form" -> x_prompt_entryform(r)
    [] m = "pause" -> x_prompt_pause(r)
    [] m = "map" -> x_prompt_map(r)
    [] m = "action" -> x_prompt_action(r)
    [] m = "select_rows" -> prompt_select_rows(r)
    [] m = "select_sub" -> x_prompt_selectsub(r)
    [] m = "open_file" -> x_prompt_openfile(r)
    [] m = "save_file" -> x_prompt_savefile(r)
    [] m = "directory" -> x_prompt_directory(r)
    [] m = "connect" -> gui_connect(r)
    [] m = "password" -> get_password(r)
    [] m \in {"msg", "halt"} -> "done"

-----------------------------------------------------------------------------
(***************************************************************************)
(* The script's thread: "running" between statements; "asking", blocked on *)
(* the return queue; "answered"; in exit_now, "halting", its output        *)
(* "flushed", the log's exit record "recorded", the manifest "finished";   *)
(* "raised", a ScriptExit or an interrupt leaving it; "ended", at the end  *)
(* of the script.                                                          *)
(***************************************************************************)
Ending == {"halting", "flushed", "recorded", "finished", "raised", "ended"}
Alive == status = -1
Asking == script = "asking"

enable_gui ==
  /\ backend \in Backend
  /\ app = IF backend = "app" THEN "up" ELSE "none"

Init ==
  /\ enable_gui
  /\ cancel_halt = TRUE
  /\ script = "running" /\ meta = "none" /\ dialog = "none" /\ reply = NoReply /\ told = "none"
  /\ code = 0
  /\ exit_type = "unknown" /\ record = "none" /\ manifest = -1 /\ status = -1

Fates == <<exit_type, record, manifest, status>>

\* CANCEL_HALT ON|OFF.
x_cancel_halt ==
  /\ Alive /\ script = "running"
  /\ cancel_halt' \in BOOLEAN
  /\ meta' = "none" /\ reply' = NoReply /\ told' = "none"
  /\ UNCHANGED <<backend, script, dialog, code, app, Fates>>

\* A put() that runs its dialog shows it; a queue keeps it for another thread.
Prompt(m) ==
  /\ Alive /\ script = "running"
  /\ meta' = m
  /\ script' = "asking"
  /\ dialog' = IF backend \in {"tkinter", "textual"} THEN "shown" ELSE "queued"
  /\ reply' = NoReply /\ told' = "none"
  /\ UNCHANGED <<backend, cancel_halt, code, app, Fates>>

\* gui_manager_loop, or ConsoleApp's timer, takes the dialog from the queue.
Show ==
  /\ Alive /\ Asking /\ dialog = "queued"
  /\ app # "quit"
  /\ dialog' = "shown"
  /\ UNCHANGED <<backend, cancel_halt, script, meta, reply, told, code, app, Fates>>

\* Of the types that put() of the Tkinter queue ends the run for.
_EXIT_ON_CANCEL(m) == m \notin {"open_file", "save_file", "directory", "connect"}
TkinterEnds(m, r) == _EXIT_ON_CANCEL(m) /\ ("button" \notin r.keys \/ None(r))

\* ScriptExit(2) from put(), a bare ScriptExit from another thread: the
\* metacommand never sees the result.
Ends(r) ==
  \/ backend = "textual" /\ r.cancelled
  \/ backend = "app" /\ r.cancelled
  \/ backend = "tkinter" /\ TkinterEnds(meta, r)

\* Mutant: an exception in a dialog ends the manager's thread, and nothing is returned.
Respond_managerDies(r) ==
  /\ Alive /\ Asking /\ dialog = "shown" /\ app # "quit"
  /\ dialog' = "none"
  /\ IF r = Raised /\ backend = "thread" THEN UNCHANGED <<reply, script, code>>
     ELSE /\ reply' = r
          /\ IF Ends(r)
             THEN script' = "raised" /\ code' = IF backend = "app" THEN 0 ELSE 2
             ELSE script' = "answered" /\ UNCHANGED code
  /\ UNCHANGED <<backend, cancel_halt, meta, told, app, Fates>>

\* The user answers, or the dialog times out or fails.
Respond(r) ==
  /\ Alive /\ Asking /\ dialog = "shown" /\ app # "quit"
  /\ dialog' = "none"
  /\ reply' = r
  /\ IF Ends(r)
     THEN script' = "raised" /\ code' = IF backend = "app" THEN 0 ELSE 2
     ELSE script' = "answered" /\ UNCHANGED code
  /\ UNCHANGED <<backend, cancel_halt, meta, told, app, Fates>>

\* The metacommand goes on with the answer; HALT's does with its exit status.
Proceed ==
  /\ Alive /\ script = "answered"
  /\ told' = Reads(meta, reply)
  /\ \/ /\ told' = "cancelled" /\ cancel_halt
        /\ script' = "halting" /\ code' = 2 /\ exit_type' = "halt"
     \/ /\ meta = "halt"
        /\ script' = "halting" /\ code' \in Status /\ exit_type' = "halt"
     \/ /\ meta # "halt" /\ told' # "error" /\ ~(told' = "cancelled" /\ cancel_halt)
        /\ script' = "running" /\ UNCHANGED <<code, exit_type>>
     \* METACOMMAND_ERROR_HALT OFF, or ON.
     \/ /\ told' = "error"
        /\ script' = "running" /\ UNCHANGED <<code, exit_type>>
     \/ /\ told' = "error"
        /\ script' = "halting" /\ code' = 1 /\ UNCHANGED exit_type
  /\ UNCHANGED <<backend, cancel_halt, meta, dialog, reply, app, record, manifest, status>>

\* ASK, on the terminal: the end of its input halts.  (It would show a dialog if _state.gui_console
\* were set, and fail at a cancel under CANCEL_HALT OFF; the program never sets it.)
x_ask ==
  /\ Alive /\ script = "running"
  /\ meta' = "none" /\ reply' = NoReply /\ told' = "none"
  /\ \/ UNCHANGED <<script, code, exit_type>>
     \/ script' = "halting" /\ code' = 2 /\ exit_type' = "halt"
  /\ UNCHANGED <<backend, cancel_halt, dialog, app, record, manifest, status>>

\* PAUSE on the terminal: Escape, or HALT AFTER that runs out, obeys CANCEL_HALT.
x_pause(r) ==
  /\ Alive /\ script = "running" /\ backend # "app"
  /\ meta' = "pause" /\ reply' = r
  /\ told' = IF r.act = "yes" THEN "done" ELSE "cancelled"
  /\ IF told' = "cancelled" /\ cancel_halt
     THEN script' = "halting" /\ code' = 2 /\ exit_type' = "halt"
     ELSE UNCHANGED <<script, code, exit_type>>
  /\ UNCHANGED <<backend, cancel_halt, dialog, app, record, manifest, status>>

\* HALT without a dialog, and an expired WAIT_UNTIL HALT.
x_halt ==
  /\ Alive /\ script = "running"
  /\ script' = "halting" /\ code' \in Status /\ exit_type' = "halt"
  /\ meta' = "none" /\ reply' = NoReply /\ told' = "none"
  /\ UNCHANGED <<backend, cancel_halt, dialog, app, record, manifest, status>>

\* An error that halts; in exit_now the halt is an error's.
Fail ==
  /\ Alive /\ script = "running"
  /\ script' = "halting" /\ code' = 1
  /\ meta' = "none" /\ reply' = NoReply /\ told' = "none"
  /\ UNCHANGED <<backend, cancel_halt, dialog, app, Fates>>

-----------------------------------------------------------------------------
(***************************************************************************)
(* exit_now, in its order.                                                 *)
(***************************************************************************)
\* _flush_output_at_halt: lost output fails a halt that asked for status 0.
FlushAtHalt ==
  /\ Alive /\ script = "halting"
  /\ script' = "flushed"
  /\ \/ UNCHANGED code
     \/ code' = IF code = 0 THEN 1 ELSE code
  /\ UNCHANGED <<backend, cancel_halt, meta, dialog, reply, told, app, Fates>>

\* log_exit_error, unless the caller has recorded a halt, and log_exit, once.
log_exit ==
  /\ Alive /\ script = "flushed"
  /\ script' = "recorded"
  /\ exit_type' = IF exit_type = "unknown" THEN "error" ELSE exit_type
  /\ record' = IF record = "none" THEN exit_type' ELSE record
  /\ UNCHANGED <<backend, cancel_halt, meta, dialog, reply, told, code, app, manifest, status>>

manifest_finish ==
  /\ Alive /\ script = "recorded"
  /\ script' = "finished"
  /\ manifest' = code
  /\ UNCHANGED <<backend, cancel_halt, meta, dialog, reply, told, code, app, exit_type, record, status>>

RaiseScriptExit ==
  /\ Alive /\ script = "finished"
  /\ script' = "raised"
  /\ UNCHANGED <<backend, cancel_halt, meta, dialog, reply, told, code, app, Fates>>

-----------------------------------------------------------------------------
(***************************************************************************)
(* The end of a run.                                                       *)
(***************************************************************************)
\* The application exits at once, and a SystemExit is set in the script's thread ...
action_request_quit ==
  /\ Alive /\ app = "up"
  /\ app' = "quit"
  /\ UNCHANGED <<backend, cancel_halt, script, meta, dialog, reply, told, code, Fates>>

\* ... which finds it there, unless it is blocked on the return queue.
SystemExitRaised ==
  /\ Alive /\ app = "quit" /\ script \notin {"asking", "raised", "ended"}
  /\ script' = "raised" /\ code' = 0
  /\ UNCHANGED <<backend, cancel_halt, meta, dialog, reply, told, app, Fates>>

\* Ctrl-C at a statement or in a dialog's wait, where it is no key of Textual's.
Interrupt ==
  /\ Alive /\ script \in {"running", "asking"} /\ backend \in {"thread", "tkinter"}
  /\ script' = "raised" /\ code' = 1 /\ dialog' = "none" /\ reply' = NoReply /\ told' = "none"
  /\ exit_type' = "interrupted"
  /\ UNCHANGED <<backend, cancel_halt, meta, app, record, manifest, status>>

EndOfScript ==
  /\ Alive /\ script = "running"
  /\ script' = "ended"
  /\ meta' = "none" /\ reply' = NoReply /\ told' = "none"
  /\ UNCHANGED <<backend, cancel_halt, dialog, code, app, Fates>>

\* What atexit writes: the exit record and the manifest, unless they are written.
Exit(type, finish, s) ==
  /\ exit_type' = type
  /\ record' = IF record = "none" THEN type ELSE record
  /\ manifest' = IF manifest = -1 THEN finish ELSE manifest
  /\ status' = s
  /\ UNCHANGED <<backend, cancel_halt, script, meta, dialog, reply, told, code, app>>

\* Mutant: the handler does not exit with the status it caught.
_execute_script_ast_noStatus ==
  /\ Alive /\ backend # "app"
  /\ \/ script = "raised" /\ Exit(exit_type, -2, IF code > 1 THEN 1 ELSE code)
     \/ script = "ended" /\ Exit("end_of_script", 0, 0)

\* The main thread ran the script: by an exception, or to its end. The
\* manifest of a run that never finished it has no exit_status: -2.
_execute_script_ast ==
  /\ Alive /\ backend # "app"
  /\ \/ script = "raised" /\ Exit(exit_type, -2, code)
     \/ script = "ended" /\ Exit("end_of_script", 0, 0)

\* The application is over: because the script is, or by the user's request,
\* when its exception, if it has one, may not have been noted yet.
_execute_script_textual_console ==
  /\ Alive /\ backend = "app"
  /\ \/ script = "raised" /\ Exit(exit_type, -2, code)
     \/ (script = "ended" \/ app = "quit") /\ Exit("end_of_script", 0, 0)

Over == ~Alive /\ UNCHANGED vars

Statement ==
  \/ x_cancel_halt \/ x_ask \/ x_halt \/ Fail \/ EndOfScript
  \/ \E m \in Meta : Prompt(m)
  \/ \E r \in console_show_pause : x_pause(r)

Machinery ==
  \/ Show \/ Proceed
  \/ FlushAtHalt \/ log_exit \/ manifest_finish \/ RaiseScriptExit
  \/ _execute_script_ast \/ _execute_script_textual_console

User == \E r \in Results(meta) : Respond(r)

Next == Statement \/ Machinery \/ (Asking /\ User) \/ action_request_quit \/ SystemExitRaised
        \/ Interrupt \/ Over

Spec == Init /\ [][Next]_vars
LiveSpec == Spec /\ WF_vars(Machinery) /\ WF_vars(Asking /\ User)

-----------------------------------------------------------------------------
(***************************************************************************)
(* Properties.                                                             *)
(***************************************************************************)
TypeOK ==
  /\ backend \in Backend /\ cancel_halt \in BOOLEAN
  /\ script \in {"running", "asking", "answered"} \cup Ending
  /\ meta \in Meta \cup {"none", "pause"}
  /\ dialog \in {"none", "queued", "shown"}
  /\ reply.act \in Acts /\ reply.choice \in {"yes", "no", "cancel", "none"}
  /\ told \in {"none", "done", "stored", "yes", "no", "cancelled", "error"}
  /\ code \in Nat /\ app \in {"none", "up", "quit"}
  /\ exit_type \in {"unknown", "end_of_script", "halt", "error", "interrupted"}
  /\ record \in {"none", "unknown", "end_of_script", "halt", "error", "interrupted"}
  /\ manifest \in Nat \cup {-1, -2} /\ status \in Nat \cup {-1}

\* What the user answered reaches the script, and nothing else does.  A question
\* is answered Yes or No only as its user pressed Yes or No, and a variable or a
\* connection gets a value only from a dialog that was accepted: no dialog of any
\* backend returns a cancel, a closed window, a timeout or a failure in a form
\* that its metacommand reads as an answer.  (A password falls back to the
\* terminal.)  And every dialog's result has the keys that every metacommand
\* showing it reads, on every backend, and an answer is neither an error nor a
\* cancel -- but for PROMPT SELECT_SUB, and for the No of Textual's questions
\* (findings).
AnswersReachTheScript ==
  /\ told \in {"yes", "no"} => reply.act = told
  /\ told = "stored" /\ meta # "password" => reply.act = "yes"
  /\ reply.act \in {"yes", "no"} /\ told # "none" /\ meta # "select_sub" => told \notin {"error", "cancelled"}

\* On the terminal a cancelled prompt halts the run with status 2 under
\* CANCEL_HALT ON, and lets it go on under CANCEL_HALT OFF.
CancelIsObeyed ==
  backend = "thread" /\ reply.act = "cancel" =>
    /\ script \in Ending => cancel_halt /\ code = 2 /\ exit_type \in {"halt", "interrupted"}
    /\ script = "running" => ~cancel_halt

\* What the user answered at a prompt is what the script goes on with, and a
\* cancel on the terminal is obeyed: the two above together.
UserIsObeyed == AnswersReachTheScript /\ CancelIsObeyed

\* Unless the user quit the console, the three accounts of how a run ended
\* agree: the log's exit record, the manifest and the process's exit status.
\* A finished manifest has the process's status; a record of a normal end
\* comes with status 0, one of an error with another; and Ctrl-C, which
\* leaves the manifest unfinished, is recorded.
AccountsAgree ==
  ~Alive /\ app # "quit" =>
    /\ manifest # -2 => manifest = status
    /\ (record = "end_of_script") = (script = "ended")
    /\ record = "end_of_script" => status = 0
    /\ record = "error" => status > 0
    /\ manifest = -2 => record \in {"interrupted", "unknown"}

\* A script that waits for an answer gets one or its run ends, with users who
\* answer the dialogs they see: no failure of a dialog, and no quitting of
\* the console, leaves it waiting in a run that never ends.
PromptEnds == Asking ~> (~Asking \/ ~Alive)
=============================================================================
