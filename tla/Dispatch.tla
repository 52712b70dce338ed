------------------------------- MODULE Dispatch -------------------------------
(***************************************************************************)
(* How a metacommand finds its handler (script/engine.py, MetaCommandList):*)
(* a list of patterns, the newest first, of which only those indexed under *)
(* the command's first word are tried, and those that have no word.        *)
(* build_dispatch_table registers the rows of MetacommandTable and plugins *)
(* may add theirs; then commands are looked up.                            *)
(***************************************************************************)
EXTENDS MetacommandTable, Integers, FiniteSets, TLC

CONSTANTS
  Rows,         \* the rows build_dispatch_table registers: Table
  Forms,        \* the commands looked up: Documented
  MaxPlugins    \* bound: how many rows plugins add

VARIABLES
  commands,     \* _commands: numbers of rows, the newest first
  by_keyword,   \* _by_keyword
  unkeyed,      \* _unkeyed
  plugins,      \* rows that plugins registered
  asked         \* the command looked up last, <<>> while the table is built

vars == <<commands, by_keyword, unkeyed, plugins, asked>>

RowOf(row) == IF row <= Len(Rows) THEN Rows[row] ELSE plugins[row - Len(Rows)]

-----------------------------------------------------------------------------
(* Matching: the token is the one the pattern has, or the pattern takes any. *)
Takes(element, token) ==
  \/ element = token \/ element = V \/ element = Rest
  \/ element = "yes/no" /\ token \in {"YES", "NO", "ON", "OFF", "TRUE", "FALSE", "0", "1"}
  \/ element = "switch" /\ token \in {"ON", "OFF", "YES", "NO", "TRUE", "FALSE"}

RECURSIVE Fits(_, _)
Fits(way, command) ==
  IF way = <<>> \/ command = <<>>
  THEN way = command
  ELSE /\ Takes(Head(way), Head(command))
       /\ \/ Fits(Tail(way), Tail(command))
          \/ Head(way) = Rest /\ Fits(way, Tail(command))

Matches(row, command) == \E way \in RowOf(row).pattern : Fits(way, command)

(* 0 when no row matches. *)
RECURSIVE FirstMatch(_, _)
FirstMatch(rows, command) ==
  IF rows = <<>> THEN 0
  ELSE IF Matches(Head(rows), command) THEN Head(rows)
  ELSE FirstMatch(Tail(rows), command)

(* The first word, as split() sees it: "IF(" runs on into the condition. *)
extract_keyword(command) == Head(command)

(* Mutant: patterns without a keyword are not tried when others have one. *)
candidates_keyedOnly(command) ==
  LET kw == extract_keyword(command)
  IN IF kw \in DOMAIN by_keyword THEN by_keyword[kw] ELSE commands

candidates(command) ==
  LET kw == extract_keyword(command)
  IN IF kw \in DOMAIN by_keyword THEN by_keyword[kw] \o unkeyed ELSE commands

get_match(command) == FirstMatch(candidates(command), command)

-----------------------------------------------------------------------------
Init ==
  /\ commands = <<>>
  /\ by_keyword = [kw \in {} |-> <<>>]
  /\ unkeyed = <<>>
  /\ plugins = <<>>
  /\ asked = <<>>

(* A list's three parts, as they are when a row has been registered. *)
Listed(all, index, rest) == [commands |-> all, by_keyword |-> index, unkeyed |-> rest]
Now == Listed(commands, by_keyword, unkeyed)
Has(list) == commands' = list.commands /\ by_keyword' = list.by_keyword /\ unkeyed' = list.unkeyed

Under(index, keyword) == IF keyword \in DOMAIN index THEN index[keyword] ELSE <<>>
Indexed(index, keyword, rows) == (keyword :> rows) @@ index

(* Mutant: the oldest registration is tried first. *)
add_last(list, row, keyword) ==
  IF keyword = ""
  THEN Listed(Append(list.commands, row), list.by_keyword, Append(list.unkeyed, row))
  ELSE Listed(Append(list.commands, row),
              Indexed(list.by_keyword, keyword, Append(Under(list.by_keyword, keyword), row)), list.unkeyed)

add(list, row, keyword) ==
  IF keyword = ""
  THEN Listed(<<row>> \o list.commands, list.by_keyword, <<row>> \o list.unkeyed)
  ELSE Listed(<<row>> \o list.commands,
              Indexed(list.by_keyword, keyword, <<row>> \o Under(list.by_keyword, keyword)), list.unkeyed)

Build ==
  /\ Len(commands) < Len(Rows)
  /\ LET row == Len(commands) + 1 IN Has(add(Now, row, Rows[row].keyword))
  /\ UNCHANGED <<plugins, asked>>

(* What a plugin may register: a command of its own, another HALT, and a
   pattern that begins with no keyword. *)
PluginRow == {
  Row("PUBLISH", "publish", {<<"PUBLISH", V>>}),
  Row("HALT", "plugin_halt", {<<"HALT">>} ** Opt({<<T>>})),
  Row("", "plugin_unkeyed", Opt({<<"PLEASE">>}) ** {<<"CD", V>>}) }

(* discover_metacommand_plugins, after the table is complete. *)
RegisterPlugin ==
  /\ Len(commands) >= Len(Rows)
  /\ Len(plugins) < MaxPlugins
  /\ asked = <<>>
  /\ \E row \in PluginRow :
       /\ plugins' = Append(plugins, row)
       /\ Has(add(Now, Len(commands) + 1, row.keyword))
  /\ UNCHANGED asked

Ask ==
  /\ Len(commands) >= Len(Rows)
  /\ asked = <<>>
  /\ asked' \in Forms \cup {<<"PUBLISH", V>>, <<"PLEASE", "CD", V>>}
  /\ UNCHANGED <<commands, by_keyword, unkeyed, plugins>>

Next == Build \/ RegisterPlugin \/ Ask

Spec == Init /\ [][Next]_vars

-----------------------------------------------------------------------------
(* Properties *)

(* Of all the rows that take a documented command the one registered last
   gets it, though only those with the command's first word are tried: a
   plugin replaces a command of the program by registering it again.  (Its
   pattern without a keyword comes after those that have the keyword.) *)
NewestRowWins ==
  asked # <<>> =>
    LET taking == { row \in 1 .. Len(commands) : Matches(row, asked) }
        newest == { row \in taking : \A other \in taking : other <= row }
        keyed == { row \in taking : row <= Len(Rows) \/ RowOf(row).keyword # "" }
    IN \/ taking = {} /\ get_match(asked) = 0
       \/ get_match(asked) \in newest
       \/ newest \cap keyed = {} /\ get_match(asked) \in { row \in keyed : \A other \in keyed : other <= row }

Value == {V, T, N}

(* A keyword of the command stands where the pattern has that keyword. *)
RECURSIVE ReadsKeywords(_, _)
ReadsKeywords(way, command) ==
  IF way = <<>> \/ command = <<>>
  THEN way = command
  ELSE /\ Takes(Head(way), Head(command))
       /\ Head(command) \notin Value => Head(way) \notin Value \cup {Rest}
       /\ \/ ReadsKeywords(Tail(way), Tail(command))
          \/ Head(way) = Rest /\ ReadsKeywords(way, Tail(command))

(* Every documented command has a handler, and the pattern that gets it has
   each of the command's keywords as a keyword: no name or text in an earlier
   pattern swallows one, whatever was registered in between. *)
KeywordsAreRead ==
  asked # <<>> /\ asked \in Forms =>
    LET row == get_match(asked)
    IN row # 0 /\ \E way \in RowOf(row).pattern : ReadsKeywords(way, asked)

\* What a command is taken for: the newest row, and by its own keywords.
CommandsAreRead == NewestRowWins /\ KeywordsAreRead
=============================================================================
