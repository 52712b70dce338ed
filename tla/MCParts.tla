------------------------------- MODULE MCParts -------------------------------
(***************************************************************************)
(* Small instances of the parts that need little state, in one run: which  *)
(* of them moves is chosen at the start, and the others stay as they are.  *)
(* They share no state; a property of one is a property of its part.       *)
(* Prompts and TargetTypes are extended; the others are instances.         *)
(***************************************************************************)
EXTENDS Prompts, TargetTypes

VARIABLES
  part,
  commands, by_keyword, unkeyed, plugins, asked,                  \* Dispatch
  filefmt, settings, lines, file,               \* DelimitedFiles
  linted, issues, frames, subvars, locals, ast_scripts, executed, ran, failed  \* Lint

dispatchVars == <<commands, by_keyword, unkeyed, plugins, asked>>
fileVars == <<filefmt, settings, lines, file>>
lintVars == <<linted, issues, frames, subvars, locals, ast_scripts, executed, ran, failed>>

Written == INSTANCE MetacommandForms
Rows == Written!Table
Forms == Written!Documented
Table == INSTANCE Dispatch WITH MaxPlugins <- 1

V(py, form, m, s, zeros, exp, len) ==
  [py |-> py, form |-> form, m |-> m, s |-> s, zeros |-> zeros, exp |-> exp, len |-> len]
SomeFileValues == {
  V("str", "number", 1, 0, 0, FALSE, 1), V("str", "number", 7, 0, 2, FALSE, 3), V("str", "number", -12, 0, 0, FALSE, 3),
  V("str", "number", -250, 0, 0, FALSE, 4), V("str", "number", 15, 1, 0, FALSE, 3), V("str", "number", 5, 2, 0, FALSE, 4),
  V("str", "number", 12345, 2, 0, FALSE, 6), V("str", "number", 500, 0, 0, TRUE, 3), V("str", "truth", 1, 0, 0, FALSE, 3),
  V("str", "letter", 0, 0, 0, FALSE, 1), V("str", "word", 0, 0, 0, FALSE, 6), V("str", "empty", 0, 0, 0, FALSE, 0),
  V("str", "tz", 0, 0, 0, FALSE, 5), V("str", "date", 0, 0, 0, FALSE, 3), V("str", "time", 0, 0, 0, FALSE, 2),
  V("int", "number", 250, 0, 0, FALSE, 3), V("none", "", 0, 0, 0, FALSE, 0)}
SomeCursorValues == {
  V("none", "", 0, 0, 0, FALSE, 0), V("int", "number", 1, 0, 0, FALSE, 1), V("int", "number", -250, 0, 0, FALSE, 4),
  V("float", "number", 15, 1, 0, FALSE, 3), V("float", "number", 20, 1, 0, FALSE, 3),
  V("decimal", "number", 125, 2, 0, FALSE, 4), V("decimal", "number", 3, -2, 0, FALSE, 4),
  V("decimal", "number", 12345, 1, 0, FALSE, 6), V("bool", "number", 1, 0, 0, FALSE, 4),
  V("datetime", "tz", 0, 0, 0, FALSE, 5), V("datetime", "timestamp", 0, 0, 0, FALSE, 4),
  V("time", "time", 0, 0, 0, FALSE, 2), V("bytes", "bytes", 0, 0, 0, FALSE, 4), V("bytearray", "bytes", 0, 0, 0, FALSE, 4),
  V("str", "number", 1, 0, 0, FALSE, 1), V("str", "word", 0, 0, 0, FALSE, 6)}
SomeScales == {-1, 0, 1}

FileExport(fmt, changed, header, first) == [filefmt |-> fmt, header |-> header, first |-> first, settings |->
  [quote_all_text |-> "quote_all_text" \in changed, del_empty_cols |-> "del_empty_cols" \in changed,
   create_col_hdrs |-> "create_col_hdrs" \in changed, dedup_col_hdrs |-> "dedup_col_hdrs" \in changed, empty_strings |-> "empty_strings" \notin changed,
   empty_rows |-> "empty_rows" \notin changed, replace_newlines |-> "replace_newlines" \in changed]]
One == <<<<"h">>>>
Two == <<<<"h">>, <<"i">>>>
Unnamed == <<<<"h">>, <<>>>>
Twice == <<<<"h">>, <<"h">>, <<"h", "_", "2">>>>
FileExports == UNION {
  {FileExport("csv", {"dedup_col_hdrs"}, Twice, <<>>)},
  {FileExport("csv", {}, header, <<>>) : header \in {One, Two, Unnamed}},
  {FileExport(fmt, {}, One, <<"\n">>) : fmt \in {"csv", "tab"}},
  {FileExport("csv", {"quote_all_text", "create_col_hdrs"}, header, <<>>) : header \in {One, Unnamed}},
  {FileExport("csv", {"del_empty_cols"}, header, <<>>) : header \in {One, Unnamed}},
  {FileExport("csv", {setting}, header, <<>>) : header \in {One, Two}, setting \in {"replace_newlines", "empty_strings"}},
  {FileExport("tabq", changed, header, <<>>) : header \in {One, Two},
     changed \in {{"empty_rows"}, {"quote_all_text", "empty_strings", "empty_rows"}}},
  {FileExport("tab", {}, header, <<>>) : header \in {One, Two}},
  {FileExport("us", {"create_col_hdrs"}, header, <<>>) : header \in {One, Unnamed}}}
Text == {<<"NULL">>, <<"x">>, <<",">>, <<"\"">>, <<"\n">>}
LongCells == {<<"\"", ",", "\"">>, <<"\n", "\n">>, <<"\"", "\n", "\"">>, <<"\t", "x">>, <<"x", "\"">>,
             <<"'", "x", "'">>, <<"\\", ",">>, <<"x", "\\">>, <<";">>, <<>>}
Delimited == INSTANCE DelimitedFiles WITH
  Exports <- FileExports,
  Rows <- {<<v>> : v \in Text \cup LongCells} \cup {<<v, w>> : v \in Text, w \in {<<"NULL">>, <<"x">>, <<"\n">>}}
          \cup {<<v, <<"x">>>> : v \in LongCells} \cup {<<<<"x">>, <<"NULL">>, <<",">>>>},
  MaxLines <- 2, ScanLines <- 100

Small == INSTANCE LintScripts
Lints == INSTANCE Lint WITH script <- linted, Scripts <- Small!Scripts, Files <- {"g"}, MaxFrames <- 4

-----------------------------------------------------------------------------
PromptsIdle == Init /\ backend = "thread"
ColumnIdle == ColumnInit /\ conf = Defaults /\ infer_strings
FileIdle == filefmt = "csv" /\ settings = "none" /\ lines = <<>> /\ file = <<>>
LintIdle ==
  /\ linted = <<>> /\ issues = {} /\ frames = <<>> /\ subvars = <<>> /\ locals = <<>>
  /\ ast_scripts = <<>> /\ executed = {} /\ ran = <<>> /\ failed = 0

PartsInit ==
  \/ part = "prompts" /\ Init /\ Table!Init /\ ColumnIdle /\ FileIdle /\ LintIdle
  \/ part = "dispatch" /\ Table!Init /\ PromptsIdle /\ ColumnIdle /\ FileIdle /\ LintIdle
  \/ part = "column" /\ ColumnInit /\ PromptsIdle /\ Table!Init /\ FileIdle /\ LintIdle
  \/ part = "file" /\ Delimited!Init /\ PromptsIdle /\ Table!Init /\ ColumnIdle /\ LintIdle
  \/ part = "lint" /\ Lints!Init /\ PromptsIdle /\ Table!Init /\ ColumnIdle /\ FileIdle

\* A command looked up is all that this part does.
Answered == asked # <<>> /\ UNCHANGED dispatchVars
\* So is a column scanned to its end.
Determined == rowcount = 3 /\ UNCHANGED columnVars
\* A file is exported to its last row.
Exported == Len(lines) = 3 /\ UNCHANGED fileVars
\* A script has run to its end, or nests as deep as it may.
Run == (frames = <<>> \/ Len(frames) = 4) /\ UNCHANGED lintVars

PartsNext ==
  /\ UNCHANGED part
  /\ part # "prompts" => UNCHANGED vars
  /\ part # "dispatch" => UNCHANGED dispatchVars
  /\ part # "column" => UNCHANGED columnVars
  /\ part # "file" => UNCHANGED fileVars
  /\ part # "lint" => UNCHANGED lintVars
  /\ \/ part = "prompts" /\ Next
     \/ part = "dispatch" /\ (Table!Next \/ Answered)
     \/ part = "column" /\ (ColumnNext \/ Determined)
     \/ part = "file" /\ (Delimited!Next \/ Exported)
     \/ part = "lint" /\ (Lints!Next \/ Run)

Rest == <<part, dispatchVars, columnVars, fileVars, lintVars>>
partsVars == <<vars, Rest>>

\* The machinery and the users of Prompts, as its LiveSpec has them.
PartsSpec ==
  /\ PartsInit /\ [][PartsNext]_partsVars
  /\ WF_partsVars(part = "prompts" /\ Machinery /\ UNCHANGED Rest)
  /\ WF_partsVars(part = "prompts" /\ Asking /\ User /\ UNCHANGED Rest)

-----------------------------------------------------------------------------
CommandsAreRead == Table!CommandsAreRead

\* Only the part that exports a file has anything to say of what IMPORT reads in it.
ImportReadsExport == part = "file" => Delimited!ImportReadsExport

\* And the part that runs a script of what lint says of it.
LintAgreesWithRuns == part = "lint" => Lints!LintAgreesWithRuns
=============================================================================
