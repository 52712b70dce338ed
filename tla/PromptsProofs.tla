---------------------------- MODULE PromptsProofs ----------------------------
(***************************************************************************)
(* Theorems about Prompts, for any of the backends and metacommands and    *)
(* any exit statuses that scripts halt with.                               *)
(***************************************************************************)
EXTENDS Prompts, TLAPS

Made == {"done", "stored", "yes", "no", "cancelled", "error"}

ReplyTyped(r) == r.act \in Acts /\ r.choice \in {"yes", "no", "cancel", "none"}

(* What metacommand m makes of r is what its user meant. *)
Meant(m, r) ==
  /\ Reads(m, r) \in Made
  /\ Reads(m, r) \in {"yes", "no"} => r.act = Reads(m, r)
  /\ Reads(m, r) = "stored" /\ m # "password" => r.act = "yes"
  /\ r.act \in {"yes", "no"} /\ m # "select_sub" => Reads(m, r) \notin {"error", "cancelled"}
  /\ backend = "thread" /\ r.act = "cancel" => Reads(m, r) = "cancelled"

(* Whoever shows a dialog, each of its results is read as it was meant, unless it
   ends the run before the metacommand sees it. *)
LEMMA ResultsAreMeant ==
  ASSUME backend \in {"thread", "tkinter", "textual", "app"},
         meta \in AllMetas, NEW r \in Results(meta)
  PROVE  ReplyTyped(r) /\ (Ends(r) \/ Meant(meta, r))
<1> USE DEF Gives, Cancelled, Closed, Raised, Buttons, NoCancel, ReplyTyped, Acts, Results, ConsoleDialog,
      TkinterDialog, TextualDialog, _build_screen_map, _prompt_buttons, _add_buttons, Escaped, _button_row,
      action_cancel, Ends, TkinterEnds, _EXIT_ON_CANCEL, None, Needs, Meant, Made, Reads
<1>1. CASE meta = "display"
  BY <1>1 DEF console_show_display, DisplayDialog, DisplayScreen, x_prompt
<1>2. CASE meta = "enter"
  BY <1>2 DEF console_show_display, DisplayDialog, DisplayScreen, x_prompt_enter
<1>3. CASE meta = "ask"
  BY <1>3 DEF console_show_display, DisplayDialog, DisplayScreen, x_prompt_ask
<1>4. CASE meta = "password"
  BY <1>4 DEF console_show_display, DisplayDialog, DisplayScreen, get_password
<1>5. CASE meta = "compare"
  BY <1>5 DEF console_show_compare, CompareDialog, CompareScreen, prompt_compare
<1>6. CASE meta = "ask_compare"
  BY <1>6 DEF console_show_compare, CompareDialog, CompareScreen, x_prompt_ask_compare, prompt_compare
<1>7. CASE meta = "entry_form"
  BY <1>7 DEF console_show_entry_form, EntryFormDialog, EntryFormScreen, x_prompt_entryform
<1>8. CASE meta = "pause"
  BY <1>8 DEF console_show_pause, PauseDialog, PauseScreen, x_prompt_pause
<1>9. CASE meta = "map"
  BY <1>9 DEF console_show_map, MapDialog, MapScreen, x_prompt_map
<1>10. CASE meta = "action"
  BY <1>10 DEF console_show_action, ActionDialog, ActionScreen, x_prompt_action
<1>11. CASE meta = "select_rows"
  BY <1>11 DEF console_show_select_rows, SelectRowsDialog, SelectRowsScreen, prompt_select_rows
<1>12. CASE meta = "select_sub"
  BY <1>12 DEF console_show_select_sub, SelectSubDialog, SelectSubScreen, x_prompt_selectsub
<1>13. CASE meta = "open_file"
  BY <1>13 DEF console_show_file, FileDialog, FilePathScreen, x_prompt_openfile
<1>14. CASE meta = "save_file"
  BY <1>14 DEF console_show_file, FileDialog, FilePathScreen, x_prompt_savefile
<1>15. CASE meta = "directory"
  BY <1>15 DEF console_show_file, FileDialog, FilePathScreen, x_prompt_directory
<1>16. CASE meta = "connect"
  BY <1>16 DEF console_show_connect, ConnectDialog, ConnectScreen, gui_connect
<1>17. CASE meta = "msg"
  BY <1>17 DEF console_show_halt, MsgDialog, MsgScreen
<1>18. CASE meta = "halt"
  BY <1>18 DEF console_show_halt, MsgDialog, MsgScreen
<1>19. QED
  BY <1>1, <1>2, <1>3, <1>4, <1>5, <1>6, <1>7, <1>8, <1>9, <1>10, <1>11, <1>12, <1>13, <1>14, <1>15, <1>16, <1>17, <1>18 DEF AllMetas

(* Every reply that PAUSE reads on the terminal. *)
LEMMA PauseReplies ==
  ASSUME NEW r \in console_show_pause
  PROVE  ReplyTyped(r) /\ r.act \in {"yes", "cancel", "timeout"}
BY DEF console_show_pause, Gives, ReplyTyped, Acts

-----------------------------------------------------------------------------
(* What the user did at a prompt *)

(* A metacommand waits for the result of a dialog of its own, and makes of it what
   its user meant; a prompt that is not answered yet has nothing to be told. *)
AnsweredInv ==
  /\ backend = "thread" => app = "none"
  /\ script \in {"asking", "answered"} => meta \in AllMetas /\ told = "none"
  /\ script \in {"asking", "ended"} => reply = NoReply
  /\ script = "answered" => Meant(meta, reply)

PromptInv == TypeOK /\ AnsweredInv /\ UserIsObeyed

LEMMA PromptInit ==
  ASSUME Init
  PROVE  PromptInv
BY PromptsAssumption DEF Init, enable_gui, PromptInv, TypeOK, AnsweredInv, UserIsObeyed, AnswersReachTheScript,
   CancelIsObeyed, NoReply, Gives, Acts, Ending

(* Every step of the run keeps its types. *)
LEMMA ProceedIs ==
  ASSUME Proceed
  PROVE  /\ script = "answered" /\ told' = Reads(meta, reply)
         /\ \/ told' = "cancelled" /\ cancel_halt = TRUE /\ script' = "halting" /\ code' = 2 /\ exit_type' = "halt"
            \/ meta = "halt" /\ script' = "halting" /\ code' \in Status /\ exit_type' = "halt"
            \/ script' = "running" /\ code' = code /\ exit_type' = exit_type
               /\ ~(told' = "cancelled" /\ cancel_halt = TRUE)
            \/ told' = "error" /\ script' = "halting" /\ code' = 1 /\ exit_type' = exit_type
         /\ UNCHANGED <<backend, cancel_halt, meta, dialog, reply, app, record, manifest, status>>
<1>1. CASE cancel_halt = TRUE
  BY <1>1 DEF Proceed
<1>2. CASE cancel_halt # TRUE
  BY <1>2 DEF Proceed
<1>3. QED
  BY <1>1, <1>2

LEMMA TypeStep ==
  ASSUME TypeOK, AnsweredInv, Next
  PROVE  TypeOK'
<1> USE PromptsAssumption DEF TypeOK, Ending, Fates, NoReply, Gives, Acts
<1>1. CASE Statement
  <2>1. CASE \E r \in console_show_pause : x_pause(r)
    BY <2>1, PauseReplies DEF x_pause, ReplyTyped
  <2>2. CASE \E m \in Meta : Prompt(m)
    BY <2>2 DEF Prompt
  <2>3. CASE x_cancel_halt
    <3>1. cancel_halt' \in BOOLEAN
      BY <2>3 DEF x_cancel_halt
    <3>2. /\ meta' = "none" /\ reply' = NoReply /\ told' = "none"
          /\ UNCHANGED <<backend, script, dialog, code, app, Fates>>
      BY <2>3 DEF x_cancel_halt
    <3>3. QED
      BY <3>1, <3>2
  <2>4. CASE x_ask \/ x_halt
    <3>1. /\ script' \in {script, "halting"} /\ code' \in Status \cup {code, 2} /\ exit_type' \in {exit_type, "halt"}
          /\ meta' = "none" /\ reply' = NoReply /\ told' = "none"
          /\ UNCHANGED <<backend, cancel_halt, dialog, app, record, manifest, status>>
      BY <2>4 DEF x_ask, x_halt
    <3>2. QED
      BY <3>1
  <2>5. CASE Fail \/ EndOfScript
    BY <2>5 DEF Fail, EndOfScript
  <2>6. QED
    BY <1>1, <2>1, <2>2, <2>3, <2>4, <2>5 DEF Statement
<1>2. CASE Proceed
  <2>1. Reads(meta, reply) \in Made
    BY <1>2 DEF Proceed, AnsweredInv, Meant
  <2>2. /\ script' \in {"halting", "running"} /\ code' \in Status \cup {code, 1, 2}
        /\ exit_type' \in {exit_type, "halt"} /\ told' = Reads(meta, reply)
        /\ UNCHANGED <<backend, cancel_halt, meta, dialog, reply, app, record, manifest, status>>
    BY <1>2, ProceedIs
  <2>3. QED
    BY <2>1, <2>2 DEF Made
<1>3. CASE Asking /\ User
  <2>1. PICK r \in Results(meta) : Respond(r)
    BY <1>3 DEF User
  <2>2. ReplyTyped(r)
    BY <1>3, ResultsAreMeant DEF Asking, AnsweredInv
  <2>3. /\ script' \in {"raised", "answered"} /\ code' \in {0, 2, code} /\ dialog' = "none" /\ reply' = r
        /\ UNCHANGED <<backend, cancel_halt, meta, told, app, exit_type, record, manifest, status>>
    BY <2>1 DEF Respond
  <2>4. QED
    BY <2>2, <2>3 DEF ReplyTyped
<1>4. CASE Show \/ FlushAtHalt \/ log_exit \/ manifest_finish \/ RaiseScriptExit
  BY <1>4 DEF Show, FlushAtHalt, log_exit, manifest_finish, RaiseScriptExit
<1>5. CASE _execute_script_ast \/ _execute_script_textual_console
  BY <1>5 DEF _execute_script_ast, _execute_script_textual_console, Exit
<1>6. CASE action_request_quit \/ SystemExitRaised \/ Interrupt \/ Over
  BY <1>6 DEF action_request_quit, SystemExitRaised, Interrupt, Over, vars
<1>7. QED
  BY <1>1, <1>2, <1>3, <1>4, <1>5, <1>6 DEF Next, Machinery

(* What a metacommand would make of a reply depends on nothing else. *)
LEMMA MeantStays ==
  ASSUME UNCHANGED <<backend, meta, reply>>
  PROVE  Meant(meta, reply)' <=> Meant(meta, reply)
BY DEF Meant, Reads

(* A step that asks nothing and leaves the reply alone tells nothing new. *)
LEMMA NothingTold ==
  ASSUME AnsweredInv, AnswersReachTheScript, UNCHANGED <<backend, meta, reply, told>>,
         app' = app \/ app = "up",
         script' = script \/ script' \notin {"asking", "answered", "ended"}
  PROVE  AnsweredInv' /\ AnswersReachTheScript'
BY MeantStays DEF AnsweredInv, AnswersReachTheScript, NoReply, Gives

(* A step that leaves CANCEL_HALT and the reply alone obeys the cancel as before it. *)
LEMMA CancelStays ==
  ASSUME CancelIsObeyed, UNCHANGED <<backend, cancel_halt, reply, code, exit_type>>,
         script' = script \/ (script \in Ending /\ script' \in Ending)
  PROVE  CancelIsObeyed'
<1>1. CASE cancel_halt = TRUE
  BY <1>1 DEF CancelIsObeyed, Ending
<1>2. CASE cancel_halt # TRUE
  BY <1>2 DEF CancelIsObeyed, Ending
<1>3. QED
  BY <1>1, <1>2

(* Nor does any step make of an answer what it is not. *)
LEMMA AnswerStep ==
  ASSUME PromptInv, Next
  PROVE  AnsweredInv' /\ UserIsObeyed'
<1> USE DEF Ending, Fates, NoReply, Gives, AnsweredInv, UserIsObeyed, AnswersReachTheScript
<1>1. TypeOK /\ AnsweredInv /\ UserIsObeyed
  BY DEF PromptInv
<1>2. CASE Statement
  <2>1. CASE \E r \in console_show_pause : x_pause(r)
    BY <1>1, <2>1, PauseReplies DEF x_pause, CancelIsObeyed
  <2>2. CASE \E m \in Meta : Prompt(m)
    BY <1>1, <2>2, PromptsAssumption DEF Prompt, CancelIsObeyed
  <2>3. CASE x_cancel_halt \/ x_ask \/ x_halt \/ Fail \/ EndOfScript
    BY <1>1, <2>3 DEF x_cancel_halt, x_ask, x_halt, Fail, EndOfScript, CancelIsObeyed
  <2>4. QED
    BY <1>2, <2>1, <2>2, <2>3 DEF Statement
<1>3. CASE Proceed
  <2>1. /\ script' \in {"halting", "running"} /\ told' = Reads(meta, reply)
        /\ UNCHANGED <<backend, cancel_halt, meta, reply, app>>
        /\ Meant(meta, reply)
    BY <1>1, <1>3 DEF Proceed
  <2>2. AnsweredInv' /\ AnswersReachTheScript'
    BY <1>1, <2>1 DEF Meant
  <2>3. CancelIsObeyed'
    <3>1. CASE backend = "thread" /\ reply.act = "cancel"
      <4>1. told' = "cancelled" /\ meta # "halt"
        BY <2>1, <3>1 DEF Meant, Reads
      <4>2. CASE cancel_halt = TRUE
        <5>1. script' = "halting" /\ code' = 2 /\ exit_type' = "halt" /\ cancel_halt' = TRUE
          BY <1>3, <4>1, <4>2, ProceedIs
        <5>2. QED
          BY <5>1 DEF CancelIsObeyed
      <4>3. CASE cancel_halt # TRUE
        <5>1. script' = "running" /\ cancel_halt' = FALSE
          BY <1>1, <1>3, <4>1, <4>3, ProceedIs DEF TypeOK
        <5>2. QED
          BY <5>1 DEF CancelIsObeyed
      <4>4. QED
        BY <4>2, <4>3
    <3>2. QED
      BY <2>1, <3>1 DEF CancelIsObeyed
  <2>4. QED
    BY <2>2, <2>3
<1>4. CASE Asking /\ User
  <2>1. PICK r \in Results(meta) : Respond(r)
    BY <1>4 DEF User
  <2>2. Ends(r) \/ Meant(meta, r)
    BY <1>1, <1>4, ResultsAreMeant, PromptsAssumption DEF Asking, TypeOK
  <2>3. backend = "thread" => ~Ends(r)
    BY DEF Ends
  <2>4. Meant(meta, r) => Meant(meta, r)'
    BY <2>1 DEF Respond, Meant, Reads
  <2>5. QED
    BY <1>1, <1>4, <2>1, <2>2, <2>3, <2>4 DEF Respond, Asking, CancelIsObeyed
<1>5. CASE Show \/ FlushAtHalt \/ log_exit \/ manifest_finish \/ RaiseScriptExit
  <2>1. AnsweredInv' /\ AnswersReachTheScript'
    BY <1>1, <1>5, NothingTold DEF Show, FlushAtHalt, log_exit, manifest_finish, RaiseScriptExit, Asking
  <2>2. CASE Show
    BY <1>1, <2>2 DEF Show, Asking, CancelIsObeyed
  <2>3. CASE FlushAtHalt \/ log_exit \/ manifest_finish \/ RaiseScriptExit
    BY <1>1, <2>3 DEF FlushAtHalt, log_exit, manifest_finish, RaiseScriptExit, CancelIsObeyed
  <2>4. QED
    BY <1>5, <2>1, <2>2, <2>3
<1>6. CASE _execute_script_ast \/ _execute_script_textual_console
  <2>1. UNCHANGED <<backend, cancel_halt, script, meta, reply, told, code, app>>
    BY <1>6 DEF _execute_script_ast, _execute_script_textual_console, Exit
  <2>2. AnsweredInv' /\ AnswersReachTheScript'
    BY <1>1, <2>1, NothingTold
  <2>3. CASE backend = "thread" /\ script = "raised"
    <3>1. exit_type' = exit_type
      BY <1>6, <2>3 DEF _execute_script_ast, _execute_script_textual_console, Exit
    <3>2. CancelIsObeyed'
      BY <1>1, <2>1, <3>1, CancelStays
    <3>3. QED
      BY <2>2, <3>2
  <2>4. CASE ~(backend = "thread" /\ script = "raised")
    <3>1. backend = "thread" => script = "ended"
      BY <1>6, <2>4 DEF _execute_script_ast, _execute_script_textual_console
    <3>2. backend = "thread" => reply' = NoReply
      BY <1>1, <2>1, <3>1
    <3>3. CancelIsObeyed'
      BY <2>1, <3>2 DEF CancelIsObeyed
    <3>4. QED
      BY <2>2, <3>3
  <2>5. QED
    BY <2>3, <2>4
<1>7. CASE action_request_quit \/ SystemExitRaised \/ Interrupt \/ Over
  BY <1>1, <1>7 DEF action_request_quit, SystemExitRaised, Interrupt, Over, vars, Meant, CancelIsObeyed
<1>8. QED
  BY <1>2, <1>3, <1>4, <1>5, <1>6, <1>7 DEF Next, Machinery

LEMMA PromptStep ==
  ASSUME PromptInv, [Next]_vars
  PROVE  PromptInv'
<1>1. CASE Next
  BY <1>1, TypeStep, AnswerStep DEF PromptInv
<1>2. CASE UNCHANGED vars
  <2>1. AnsweredInv' /\ AnswersReachTheScript'
    BY <1>2, NothingTold DEF vars, PromptInv, UserIsObeyed
  <2>2. CancelIsObeyed'
    BY <1>2, CancelStays DEF vars, PromptInv, UserIsObeyed
  <2>3. TypeOK'
    BY <1>2 DEF vars, PromptInv, TypeOK
  <2>4. QED
    BY <2>1, <2>2, <2>3 DEF PromptInv, UserIsObeyed
<1>3. QED
  BY <1>1, <1>2

(* An answer is told to the script as it was given, and nothing but an answer is told
   as one, whichever of the four backends shows the dialogs (but for PROMPT SELECT_SUB
   and for the No of Textual's questions, whose answers are lost).  A cancel is obeyed
   as CANCEL_HALT says on the terminal; of the other backends nothing is said: they end
   the run at a cancel, whatever it is set to. *)
THEOREM UserAlwaysObeyed ==
  Spec => []UserIsObeyed
<1>1. PromptInv => UserIsObeyed
  BY DEF PromptInv
<1>2. QED
  BY <1>1, PromptInit, PromptStep, PTL DEF Spec

-----------------------------------------------------------------------------
(* What is said of how the run ended *)

Untold == exit_type = "unknown" /\ record = "none" /\ manifest = -1

Recorded == record \in {"halt", "error"} /\ (record = "error" => code > 0)

(* How much of the end of the run is told at each point on the way to it, and that a
   halt which is not told as one has an error's status. *)
ToldSoFar ==
  /\ script \in {"running", "asking", "answered", "ended"} => Untold
  /\ script \in {"halting", "flushed"} =>
       /\ record = "none" /\ manifest = -1
       /\ exit_type = "halt" \/ (exit_type = "unknown" /\ code > 0)
  /\ script = "recorded" => Recorded /\ manifest = -1
  /\ script = "finished" => Recorded /\ manifest = code
  /\ script = "raised" =>
       \/ Recorded /\ manifest = code
       \/ record = "none" /\ manifest = -1 /\ exit_type \in {"unknown", "interrupted"}

Progress == Alive /\ app # "quit" => ToldSoFar

EndInv == PromptInv /\ Progress /\ AccountsAgree

LEMMA StepTold ==
  ASSUME PromptInv, ToldSoFar, app # "quit", Next
  PROVE  app' = "quit" \/ ~Alive' \/ ToldSoFar'
<1> USE DEF ToldSoFar, Untold, Recorded, Fates
<1>1. CASE Statement
  <2>1. CASE x_cancel_halt \/ EndOfScript \/ \E m \in Meta : Prompt(m)
    BY <2>1 DEF x_cancel_halt, EndOfScript, Prompt
  <2>2. CASE x_ask \/ x_halt \/ Fail
    BY <2>2 DEF x_ask, x_halt, Fail
  <2>3. CASE \E r \in console_show_pause : x_pause(r)
    <3>1. /\ \/ UNCHANGED <<script, code, exit_type>>
             \/ script' = "halting" /\ exit_type' = "halt"
          /\ script = "running" /\ UNCHANGED <<record, manifest>>
      BY <2>3 DEF x_pause
    <3>2. QED
      BY <3>1
  <2>4. QED
    BY <1>1, <2>1, <2>2, <2>3 DEF Statement
<1>2. CASE Proceed
  <2>1. /\ \/ script' = "halting" /\ exit_type' = "halt"
           \/ script' = "running" /\ exit_type' = exit_type
           \/ script' = "halting" /\ exit_type' = exit_type /\ code' = 1
        /\ script = "answered" /\ UNCHANGED <<record, manifest>>
    BY <1>2, ProceedIs
  <2>2. QED
    BY <2>1
<1>3. CASE Asking /\ User
  BY <1>3 DEF User, Respond, Asking
<1>4. CASE Show \/ RaiseScriptExit
  BY <1>4 DEF Show, RaiseScriptExit
<1>10. CASE FlushAtHalt
  <2>1. code \in Nat
    BY DEF PromptInv, TypeOK
  <2>2. QED
    BY <1>10, <2>1 DEF FlushAtHalt
<1>5. CASE log_exit \/ manifest_finish
  BY <1>5 DEF log_exit, manifest_finish
<1>6. CASE _execute_script_ast \/ _execute_script_textual_console
  <2>1. status' \in {0, code}
    BY <1>6 DEF _execute_script_ast, _execute_script_textual_console, Exit
  <2>2. QED
    BY <2>1 DEF Alive, PromptInv, TypeOK
<1>7. CASE action_request_quit \/ SystemExitRaised \/ Interrupt
  BY <1>7 DEF action_request_quit, SystemExitRaised, Interrupt
<1>8. CASE Over
  BY <1>8 DEF Over, vars, Alive
<1>9. QED
  BY <1>1, <1>2, <1>3, <1>4, <1>5, <1>6, <1>7, <1>8, <1>10 DEF Next, Machinery

LEMMA EndStep ==
  ASSUME EndInv, Next
  PROVE  Progress' /\ AccountsAgree'
<1>1. app = "quit" => app' = "quit"
  BY DEF Next, Statement, Machinery, User, x_cancel_halt, x_ask, x_halt, Fail, EndOfScript, Prompt, x_pause,
     Show, Proceed, FlushAtHalt, log_exit, manifest_finish, RaiseScriptExit, Respond, Exit,
     _execute_script_ast, _execute_script_textual_console, action_request_quit, SystemExitRaised,
     Interrupt, Over, vars
<1>2. CASE app = "quit"
  BY <1>1, <1>2 DEF Progress, AccountsAgree
<1>3. CASE app # "quit" /\ ~Alive
  <2>1. UNCHANGED vars
    BY <1>3 DEF Next, Statement, Machinery, User, x_cancel_halt, x_ask, x_halt, Fail, EndOfScript, Prompt,
       x_pause, Show, Proceed, FlushAtHalt, log_exit, manifest_finish, RaiseScriptExit, Respond,
       _execute_script_ast, _execute_script_textual_console, action_request_quit, SystemExitRaised,
       Interrupt, Over
  <2>2. QED
    BY <1>3, <2>1 DEF vars, EndInv, Progress, AccountsAgree, Alive
<1>4. CASE app # "quit" /\ Alive
  <2>1. PromptInv /\ ToldSoFar
    BY <1>4 DEF EndInv, Progress
  <2>2. CASE Alive' \/ app' = "quit"
    BY <1>4, <2>1, <2>2, StepTold DEF Progress, AccountsAgree
  <2>3. CASE ~Alive' /\ app' # "quit"
    <3>1. _execute_script_ast \/ _execute_script_textual_console
      BY <1>4, <2>3 DEF Next, Statement, Machinery, User, x_cancel_halt, x_ask, x_halt, Fail, EndOfScript,
         Prompt, x_pause, Show, Proceed, FlushAtHalt, log_exit, manifest_finish, RaiseScriptExit, Respond,
         Fates, action_request_quit, SystemExitRaised, Interrupt, Over, Alive
    <3>2. \/ script = "raised" /\ Exit(exit_type, -2, code)
          \/ script = "ended" /\ Exit("end_of_script", 0, 0)
      BY <1>4, <3>1 DEF _execute_script_ast, _execute_script_textual_console
    <3>3. code \in Nat
      BY <2>1 DEF PromptInv, TypeOK
    <3>4. CASE script = "raised" /\ Exit(exit_type, -2, code)
      BY <2>1, <2>3, <3>3, <3>4 DEF Exit, ToldSoFar, Recorded, Progress, AccountsAgree
    <3>5. CASE script = "ended" /\ Exit("end_of_script", 0, 0)
      BY <2>1, <2>3, <3>5 DEF Exit, ToldSoFar, Untold, Progress, AccountsAgree
    <3>6. QED
      BY <3>2, <3>4, <3>5
  <2>4. QED
    BY <2>2, <2>3
<1>5. QED
  BY <1>2, <1>3, <1>4

(* Unless the user quit the console, the log's exit record, the manifest and the exit
   status agree on how the run ended, for any statuses that HALT names: what exit_now
   and atexit write, each only where nothing is written yet. *)
THEOREM AccountsAlwaysAgree ==
  Spec => []AccountsAgree
<1>1. Init => EndInv
  <2>1. Init => ToldSoFar /\ Alive
    BY DEF Init, ToldSoFar, Untold, Alive
  <2>2. QED
    BY <2>1, PromptInit DEF EndInv, Progress, AccountsAgree
<1>2. EndInv /\ [Next]_vars => EndInv'
  <2> SUFFICES ASSUME EndInv, [Next]_vars PROVE EndInv'
    OBVIOUS
  <2>1. PromptInv'
    BY PromptStep DEF EndInv
  <2>2. CASE Next
    BY <2>1, <2>2, EndStep DEF EndInv
  <2>3. CASE UNCHANGED vars
    BY <2>1, <2>3 DEF vars, EndInv, Progress, ToldSoFar, Untold, Recorded, AccountsAgree, Alive
  <2>4. QED
    BY <2>2, <2>3
<1>3. EndInv => AccountsAgree
  BY DEF EndInv
<1>4. QED
  BY <1>1, <1>2, <1>3, PTL DEF Spec
=============================================================================
