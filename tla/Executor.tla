------------------------------ MODULE Executor ------------------------------
(***************************************************************************)
(* The tree walker of script/executor.py: the runners that a script's      *)
(* blocks, SCRIPTs, included files and BREAKPOINT prompts nest, and the    *)
(* three structures of the RuntimeContext they keep beside Python's own    *)
(* stack: ast_exec_stack, include_chain and ast_scripts.                   *)
(*                                                                         *)
(* The script itself is left open: whatever statement may come next in a   *)
(* body is chosen when it is reached, so a behaviour of this module is a   *)
(* run of some script, and a property of it holds for every script.        *)
(***************************************************************************)
EXTENDS Integers, Sequences

CONSTANTS
  File,      \* script files, by their resolved path
  Main,      \* the file of the main script
  Outside,   \* those outside include_root
  Script,    \* names of SCRIPTs
  Defs,      \* Defs[f]: the SCRIPTs that file f defines where _pre_register_scripts looks
  MaxCalls   \* bound on the runners open at once

ASSUME FilesAssumption ==
  /\ Main \in File
  /\ Outside \subseteq File
  /\ Defs \in [File -> SUBSET Script]

VARIABLES
  calls,           \* the runners on Python's stack, outermost first
  ast_exec_stack,  \* the ExecFrames: their kind, and the index of their scope frame
  include_chain,   \* the files being run, main script first
  ast_scripts,     \* the SCRIPTs that are registered
  halt_exec,       \* which of ON ERROR_HALT / ON CANCEL_HALT EXECUTE SCRIPT are set
  raised           \* the exception on its way out, or "none"

vars == <<calls, ast_exec_stack, include_chain, ast_scripts, halt_exec, raised>>

\* Runners that push an ExecFrame, and those that push none: BEGIN SQL, the
\* halt sequence of an error and of a cancelled prompt, a BREAKPOINT prompt,
\* and the input it is running.
FrameKinds == {"main", "if", "loop", "batch", "script", "include"}
Kinds == FrameKinds \cup {"sqlblock", "halt", "cancel", "prompt", "input"}

(***************************************************************************)
(* Where a runner is: its include_chain entry is pushed; its frame is      *)
(* pushed too; it is inside its try; in its finally clause; its frame is   *)
(* popped, its include_chain entry not yet.                                *)
(***************************************************************************)
Places == {"chained", "pushed", "body", "finally", "popped"}

\* A runner remembers how many frames there were, and how many files in the
\* chain, when it was called.
Runner(kind, file, at) ==
  [kind |-> kind, file |-> file, at |-> at,
   depth |-> Len(ast_exec_stack), links |-> Len(include_chain)]

Top == calls[Len(calls)]
Below(s) == SubSeq(s, 1, Len(s) - 1)
Moved(at) == [calls EXCEPT ![Len(calls)].at = at]

\* A statement may run: the innermost runner is in its body and nothing is raised.
Running == raised = "none" /\ calls # <<>> /\ Top.at = "body"
InBody == Running /\ Top.kind \notin {"prompt", "halt", "cancel"}
RoomFor(n) == Len(calls) + n <= MaxCalls

\* exit_now raises an error, instead of halting, while typed input runs.
prompt_input == \E i \in 1 .. Len(calls) : calls[i].kind = "input"

-----------------------------------------------------------------------------
(***************************************************************************)
(* The stack of frames.                                                    *)
(***************************************************************************)
ScopeKinds == {"main", "script"}

\* Mutant: a block caches the main frame, whichever SCRIPT it is in.
current_scope_main == IF ast_exec_stack = <<>> THEN 0 ELSE 1

\* The index of the innermost SCRIPT or main frame, read off the top frame; 0 for none.
current_scope ==
  IF ast_exec_stack = <<>> THEN 0 ELSE ast_exec_stack[Len(ast_exec_stack)].scope

\* A scope frame is its own scope; any other frame caches the enclosing one.
Pushed(kind) ==
  Append(ast_exec_stack,
         [kind |-> kind,
          scope |-> IF kind \in ScopeKinds THEN Len(ast_exec_stack) + 1 ELSE current_scope])

\* Mutant: the walk down the frames does not stop at <main>.
_break_has_target_main ==
  \E j \in 1 .. Len(ast_exec_stack) : ast_exec_stack[j].kind \in {"loop", "script", "include", "main"}

\* The frames that _break_has_target takes for something BREAK can leave ...
BreakTargets == {"loop", "script", "include"}
_break_has_target ==
  \E j \in 1 .. Len(ast_exec_stack) :
    /\ ast_exec_stack[j].kind \in BreakTargets
    /\ \A k \in j + 1 .. Len(ast_exec_stack) : ast_exec_stack[k].kind # "main"

\* ... and the runners with an "except _BreakLoop" around their body.
CatchesBreak == {"loop", "script", "include"}

-----------------------------------------------------------------------------
Init ==
  /\ calls = <<[kind |-> "main", file |-> Main, at |-> "pushed", depth |-> 0, links |-> 1]>>
  /\ ast_exec_stack = <<[kind |-> "main", scope |-> 1]>>
  /\ include_chain = <<Main>>
  /\ ast_scripts = Defs[Main]
  /\ halt_exec = {}
  /\ raised = "none"

(***************************************************************************)
(* Entering a block.                                                       *)
(***************************************************************************)
\* IF, LOOP and BEGIN BATCH push a frame; BEGIN SQL runs its body as it is.
EnterBlock(kind) ==
  /\ InBody /\ RoomFor(1)
  /\ calls' = Append(calls, Runner(kind, Top.file, IF kind = "sqlblock" THEN "body" ELSE "pushed"))
  /\ ast_exec_stack' = IF kind = "sqlblock" THEN ast_exec_stack ELSE Pushed(kind)
  /\ UNCHANGED <<include_chain, ast_scripts, halt_exec, raised>>

\* EXECUTE SCRIPT of a registered SCRIPT.
ExecuteScript ==
  /\ InBody /\ RoomFor(1)
  /\ ast_scripts # {}
  /\ calls' = Append(calls, Runner("script", Top.file, "pushed"))
  /\ ast_exec_stack' = Pushed("script")
  /\ UNCHANGED <<include_chain, ast_scripts, halt_exec, raised>>

\* Mutant: the file is not looked up in the chain.
Include_again(f) ==
  /\ InBody /\ RoomFor(1)
  /\ f \notin Outside
  /\ ast_scripts' = ast_scripts \cup Defs[f]
  /\ include_chain' = Append(include_chain, f)
  /\ calls' = Append(calls, Runner("include", f, "chained"))
  /\ UNCHANGED <<ast_exec_stack, halt_exec, raised>>

\* INCLUDE of a file that exists, parses and is not being run already.
Include(f) ==
  /\ InBody /\ RoomFor(1)
  /\ f \notin Outside
  /\ \A i \in 1 .. Len(include_chain) : include_chain[i] # f
  /\ ast_scripts' = ast_scripts \cup Defs[f]
  /\ include_chain' = Append(include_chain, f)
  /\ calls' = Append(calls, Runner("include", f, "chained"))
  /\ UNCHANGED <<ast_exec_stack, halt_exec, raised>>

PushIncludeFrame ==
  /\ raised = "none" /\ calls # <<>> /\ Top.at = "chained"
  /\ ast_exec_stack' = Pushed("include")
  /\ calls' = Moved("pushed")
  /\ UNCHANGED <<include_chain, ast_scripts, halt_exec, raised>>

EnterTry ==
  /\ raised = "none" /\ calls # <<>> /\ Top.at = "pushed"
  /\ calls' = Moved("body")
  /\ UNCHANGED <<ast_exec_stack, include_chain, ast_scripts, halt_exec, raised>>

\* A BEGIN SCRIPT ... END SCRIPT reached while running registers its SCRIPT.
DefineScript(s) ==
  /\ InBody
  /\ ast_scripts' = ast_scripts \cup {s}
  /\ UNCHANGED <<calls, ast_exec_stack, include_chain, halt_exec, raised>>

\* ON ERROR_HALT / ON CANCEL_HALT EXECUTE SCRIPT of a registered SCRIPT, and its CLEAR.
OnHaltExecute(cause) ==
  /\ InBody
  /\ ast_scripts # {}
  /\ halt_exec' \in {halt_exec \cup {cause}, halt_exec \ {cause}}
  /\ UNCHANGED <<calls, ast_exec_stack, include_chain, ast_scripts, raised>>

-----------------------------------------------------------------------------
(***************************************************************************)
(* Leaving the normal flow.                                                *)
(***************************************************************************)
\* An error in typed input ends the input, not the run. Otherwise the halt
\* sequence runs the SCRIPT set for its cause on top of the paused stack, once,
\* and then raises ScriptExit. A SCRIPT whose required arguments are missing
\* is an error instead; where exit_now is called by a metacommand, as in a
\* cancel, it is that metacommand's error, and the script may carry on.
exit_now(cause) ==
  IF cause = "error" /\ prompt_input
  THEN /\ raised' = "error"
       /\ UNCHANGED <<calls, ast_exec_stack, halt_exec>>
  ELSE IF cause \notin halt_exec
  THEN /\ raised' = "exit"
       /\ UNCHANGED <<calls, ast_exec_stack, halt_exec>>
  ELSE /\ halt_exec' = halt_exec \ {cause}
       /\ \/ /\ RoomFor(2)
             /\ calls' = calls \o <<Runner(IF cause = "error" THEN "halt" ELSE "cancel", Top.file, "body"),
                                   Runner("script", Top.file, "pushed")>>
             /\ ast_exec_stack' = Pushed("script")
             /\ UNCHANGED raised
          \/ /\ raised' = IF cause = "error" THEN "error" ELSE "none"
             /\ UNCHANGED <<calls, ast_exec_stack>>

\* A statement or directive that fails under a halting setting: a failed
\* INCLUDE, an unknown SCRIPT, a BREAK with nothing to leave and a file
\* outside include_root among them.
Fail ==
  /\ InBody
  /\ exit_now("error")
  /\ UNCHANGED <<include_chain, ast_scripts>>

\* A cancelled prompt, or HALT with its exit status; HALT with another status.
Halt ==
  /\ InBody
  /\ exit_now("cancel") \/ exit_now("none")
  /\ UNCHANGED <<include_chain, ast_scripts>>

\* An unknown metacommand, or a condition that cannot be evaluated, is raised as it is.
RaiseError ==
  /\ InBody
  /\ raised' = "error"
  /\ UNCHANGED <<calls, ast_exec_stack, include_chain, ast_scripts, halt_exec>>

\* BREAK, refused as a failing metacommand when there is nothing to leave.
Break ==
  /\ InBody
  /\ _break_has_target
  /\ raised' = "break"
  /\ UNCHANGED <<calls, ast_exec_stack, include_chain, ast_scripts, halt_exec>>

-----------------------------------------------------------------------------
(***************************************************************************)
(* A BREAKPOINT prompt.                                                    *)
(***************************************************************************)
Breakpoint ==
  /\ InBody /\ RoomFor(1)
  /\ calls' = Append(calls, Runner("prompt", Top.file, "body"))
  /\ UNCHANGED <<ast_exec_stack, include_chain, ast_scripts, halt_exec, raised>>

\* execute_input: the input runs on the paused stack, its SCRIPTs registered first.
RunInput(scripts) ==
  /\ Running /\ RoomFor(1)
  /\ Top.kind = "prompt"
  /\ ast_scripts' = ast_scripts \cup scripts
  /\ calls' = Append(calls, Runner("input", Top.file, "body"))
  /\ UNCHANGED <<ast_exec_stack, include_chain, halt_exec, raised>>

\* .quit leaves the run without the halt sequence.
Quit ==
  /\ Running
  /\ Top.kind = "prompt"
  /\ raised' = "exit"
  /\ UNCHANGED <<calls, ast_exec_stack, include_chain, ast_scripts, halt_exec>>

-----------------------------------------------------------------------------
(***************************************************************************)
(* Leaving a runner.                                                       *)
(***************************************************************************)
\* The body is done (a LOOP's test says so too), or the prompt is resumed;
\* the halt sequence ends in ScriptExit.
Finish ==
  /\ Running
  /\ IF Top.kind \in FrameKinds THEN calls' = Moved("finally") ELSE calls' = Below(calls)
  /\ raised' = IF Top.kind \in {"halt", "cancel"} THEN "exit" ELSE "none"
  /\ UNCHANGED <<ast_exec_stack, include_chain, ast_scripts, halt_exec>>

\* The finally clause pops the frame, whatever is raised ...
PopFrame ==
  /\ calls # <<>> /\ Top.at = "finally"
  /\ ast_exec_stack' = Below(ast_exec_stack)
  /\ calls' = IF Top.kind = "include" THEN Moved("popped") ELSE Below(calls)
  /\ UNCHANGED <<include_chain, ast_scripts, halt_exec, raised>>

\* ... and INCLUDE's its entry in the chain.
PopChain ==
  /\ calls # <<>> /\ Top.at = "popped"
  /\ include_chain' = Below(include_chain)
  /\ calls' = Below(calls)
  /\ UNCHANGED <<ast_exec_stack, ast_scripts, halt_exec, raised>>

\* Mutant: the prompt's handler catches BaseException.
Swallows_all(kind) == kind = "prompt" \/ (raised = "break" /\ kind \in CatchesBreak)

\* What the handlers around a runner's body swallow.
Swallows(kind) ==
  \/ raised = "break" /\ kind \in CatchesBreak
  \/ raised = "error" /\ kind \in {"prompt", "cancel"}

\* Mutant: a BREAK that a LOOP, SCRIPT or INCLUDE catches leaves without the finally clause.
Unwind_noFinally ==
  /\ raised # "none" /\ calls # <<>> /\ Top.at = "body"
  /\ calls' = IF Top.kind \in FrameKinds /\ ~Swallows(Top.kind) THEN Moved("finally")
              ELSE IF Swallows(Top.kind) /\ Top.kind = "prompt" THEN calls ELSE Below(calls)
  /\ raised' = IF Swallows(Top.kind) THEN "none" ELSE raised
  /\ UNCHANGED <<ast_exec_stack, include_chain, ast_scripts, halt_exec>>

\* A runner's body is left by an exception. A prompt goes on reading; an error
\* in the SCRIPT that a cancel runs is reported as the cancelled metacommand's.
Unwind ==
  /\ raised # "none" /\ calls # <<>> /\ Top.at = "body"
  /\ calls' = IF Top.kind \in FrameKinds THEN Moved("finally")
              ELSE IF Top.kind = "prompt" /\ Swallows("prompt") THEN calls ELSE Below(calls)
  /\ raised' = IF Swallows(Top.kind) THEN "none" ELSE raised
  /\ UNCHANGED <<ast_exec_stack, include_chain, ast_scripts, halt_exec>>

\* The run is over.
Over == calls = <<>> /\ UNCHANGED vars

Statement ==
  \/ \E kind \in {"if", "loop", "batch", "sqlblock"} : EnterBlock(kind)
  \/ ExecuteScript
  \/ \E f \in File : Include(f)
  \/ \E s \in Script : DefineScript(s)
  \/ \E cause \in {"error", "cancel"} : OnHaltExecute(cause)
  \/ Fail \/ Halt \/ RaiseError \/ Break
  \/ Breakpoint
  \/ \E scripts \in SUBSET Script : RunInput(scripts)
  \/ Quit
  \/ Finish

Machinery == PushIncludeFrame \/ EnterTry \/ PopFrame \/ PopChain \/ Unwind

Next == Statement \/ Machinery \/ Over

Spec == Init /\ [][Next]_vars
LiveSpec == Spec /\ WF_vars(Machinery)

-----------------------------------------------------------------------------
(***************************************************************************)
(* Properties.                                                             *)
(***************************************************************************)
TypeOK ==
  /\ calls \in Seq([kind : Kinds, file : File, at : Places, depth : Nat, links : Nat])
  /\ ast_exec_stack \in Seq([kind : FrameKinds, scope : Nat])
  /\ include_chain \in Seq(File)
  /\ ast_scripts \subseteq Script
  /\ halt_exec \subseteq {"error", "cancel"}
  /\ raised \in {"none", "break", "error", "exit"}

\* A _BreakLoop that BREAK raised always has a runner on its way out that
\* catches it: _break_has_target, which reads the frames, and the runners'
\* handlers, which are Python's own stack, never disagree. One that nobody
\* catches would end the run as an uncaught exception.
BreakIsCaught ==
  raised = "break" =>
    \E i \in 1 .. Len(calls) : calls[i].kind \in CatchesBreak /\ calls[i].at = "body"

\* The runners whose frame is pushed and not yet popped.
Framed(c) == c.kind \in FrameKinds /\ c.at \in {"pushed", "body", "finally"}

Frames(c) == IF Framed(c) THEN 1 ELSE 0

\* However blocks are left -- to their end, by BREAK, by an error that a
\* prompt reports, by a halt and the SCRIPT that the halt runs -- the frames
\* that error messages, variable scopes and BREAK consult are those of the
\* runners still open, in order and without a gap.
FramesAreTheOpenRunners ==
  /\ Len(ast_exec_stack) = IF calls = <<>> THEN 0 ELSE Top.depth + Frames(Top)
  /\ \A i \in 1 .. Len(calls) - 1 : calls[i + 1].depth = calls[i].depth + Frames(calls[i])
  /\ \A i \in 1 .. Len(calls) : Framed(calls[i]) => ast_exec_stack[calls[i].depth + 1].kind = calls[i].kind

Links(c) == IF c.kind = "include" THEN 1 ELSE 0

\* The chain that circular INCLUDEs are looked up in holds the main script
\* and the files being included now, no more (a file left by BREAK or by an
\* error can be included again) and no less, and none of them twice, so
\* included files never nest deeper than there are files.
ChainIsTheOpenFiles ==
  /\ include_chain[1] = Main
  /\ Len(include_chain) = IF calls = <<>> THEN 1 ELSE Top.links + Links(Top)
  /\ \A i \in 1 .. Len(calls) - 1 : calls[i + 1].links = calls[i].links + Links(calls[i])
  /\ \A i \in 1 .. Len(calls) : calls[i].kind = "include" => include_chain[calls[i].links + 1] = calls[i].file
  /\ \A i, j \in 1 .. Len(include_chain) : i # j => include_chain[i] # include_chain[j]

\* The scope that a frame cached when it was pushed is the innermost SCRIPT
\* or main frame, the one whose ~variables and #arguments its statements use.
ScopeIsInnermost ==
  \A j \in 1 .. Len(ast_exec_stack) :
    /\ ast_exec_stack[j].scope \in 1 .. j
    /\ ast_exec_stack[ast_exec_stack[j].scope].kind \in ScopeKinds
    /\ \A k \in ast_exec_stack[j].scope + 1 .. j : ast_exec_stack[k].kind \notin ScopeKinds

\* A halt ends the run: no prompt and no runner swallows ScriptExit.
HaltEndsRun == raised = "exit" ~> calls = <<>>
=============================================================================
