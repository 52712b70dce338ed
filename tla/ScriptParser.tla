---------------------------- MODULE ScriptParser ----------------------------
(***************************************************************************)
(* script/parser.py: _parse_lines, the line-oriented machine that turns a  *)
(* script into a tree of nodes. A line is what its text is classified as;  *)
(* a node is known by the lines its text was taken from, and a block by    *)
(* the number of its first line.                                           *)
(*                                                                         *)
(* The machine's locals are one record, p; the two ways it is called, with *)
(* and without a list to collect errors in, are p.recover.                 *)
(***************************************************************************)
EXTENDS Integers, FiniteSets, SequencesExt

CONSTANTS
  Line,     \* the kinds of line that scripts are made of, among LineKinds
  MaxLines  \* bound on a script's length

(***************************************************************************)
(* Kinds of line. "sql" is a line of SQL that ends no statement, "sql;"    *)
(* one that does; "--" a comment, "/*" and "*/" the ends of a block        *)
(* comment, "/**/" a whole one; "cmd" any metacommand that opens or closes *)
(* no block, an inline IF, INCLUDE and EXECUTE SCRIPT included. BEGIN      *)
(* SCRIPT may have malformed parameters, END SCRIPT another script's name. *)
(***************************************************************************)
Opens == [IF |-> "if", LOOP |-> "loop", BEGIN_BATCH |-> "batch",
          BEGIN_SCRIPT |-> "script", BEGIN_SCRIPT_bad |-> "script"]
Closes == [ENDIF |-> "if", ENDLOOP |-> "loop", END_BATCH |-> "batch",
           END_SCRIPT |-> "script", END_SCRIPT_other |-> "script"]
Clauses == {"ELSEIF", "ELSE", "ANDIF", "ORIF"}
Metacommands == {"cmd", "BEGIN_SQL", "END_SQL"} \cup Clauses \cup DOMAIN Opens \cup DOMAIN Closes
LineKinds == {"sql", "sql;", "--", "/*", "*/", "/**/", "blank"} \cup Metacommands

VARIABLES
  text,  \* the lines read
  p,     \* the parser's locals
  phase  \* "reading", "raised" or "parsed"

parserVars == <<text, p, phase>>

Start(recover) ==
  [recover |-> recover, tree |-> <<>>, stack |-> <<>>,
   sql |-> {}, sql_start |-> 0,           \* sql_accum's lines
   comments |-> {},                       \* line_comment_lines
   in_comment |-> FALSE, block |-> {},    \* in_block_comment, block_comment_lines
   in_statement |-> FALSE,                \* sql_accum_at_block_comment
   in_sql |-> FALSE,                      \* in_sql_block
   modifiers |-> {},                      \* ANDIF and ORIF: their line, block and clause
   warned |-> {}, ignored |-> {}, doc |-> {}, refused |-> {},  \* lines that are in no node
   errors |-> 0]

TopIs(q, kind) == q.stack # <<>> /\ Last(q.stack).kind = kind
FirstLine(lines) == CHOOSE l \in lines : \A m \in lines : l <= m

-----------------------------------------------------------------------------
(***************************************************************************)
(* The parts of the machine, from a state of the parser to the next.       *)
(***************************************************************************)
\* Mutant: an ELSEIF is still taken for open after ELSE.
Branch_elseifFirst(frame) ==
  IF frame.elseifs > 0 THEN frame.elseifs ELSE IF frame.in_else THEN -1 ELSE 0

\* Which body of an IF the next node goes to: 0 the first, n the n-th ELSEIF's, -1 ELSE's.
Branch(frame) ==
  IF frame.in_else THEN -1
  ELSE IF frame.elseifs > 0 /\ frame.in_elseif THEN frame.elseifs ELSE 0

\* A node of the body that is in the innermost of the first `depth` open blocks.
Node(q, depth, kind, lines, from, to) ==
  [kind |-> kind, lines |-> lines, from |-> from, to |-> to,
   parent |-> IF depth = 0 THEN 0 ELSE q.stack[depth].start,
   branch |-> IF depth = 0 THEN 0 ELSE Branch(q.stack[depth])]

\* _current_body().append(...)
Emit(q, kind, lines, from, to) ==
  [q EXCEPT !.tree = Append(@, Node(q, Len(q.stack), kind, lines, from, to))]

_structural_error(q) == [q EXCEPT !.errors = @ + 1]

Push(q, kind, n) ==
  [q EXCEPT !.stack = Append(@,
     [kind |-> kind, start |-> n, own |-> {n}, elseifs |-> 0,
      in_else |-> FALSE, in_elseif |-> FALSE, collecting_doc |-> kind = "script"])]

\* The `count` innermost frames are popped, the innermost first, and the node
\* of each is added to the body around it.
CloseBlocks(q, count, n) ==
  LET depth == Len(q.stack)
      Closed(i) == Node(q, i - 1, q.stack[i].kind, q.stack[i].own, q.stack[i].start, n)
  IN  [q EXCEPT !.tree = @ \o [k \in 1 .. count |-> Closed(depth + 1 - k)],
                !.stack = SubSeq(@, 1, depth - count)]
_close_block(q, n) == CloseBlocks(q, 1, n)

\* Mutant: the lines of a statement are kept after it.
_flush_sql_kept(q, n) == IF q.sql = {} THEN q ELSE Emit(q, "sql", q.sql, q.sql_start, n)

_flush_sql(q, n) ==
  IF q.sql = {} THEN q
  ELSE [Emit(q, "sql", q.sql, q.sql_start, n) EXCEPT !.sql = {}]

_flush_line_comments(q) ==
  IF q.comments = {} THEN q
  ELSE LET from == FirstLine(q.comments)
       IN  [Emit(q, "comment", q.comments, from, from + Cardinality(q.comments) - 1)
              EXCEPT !.comments = {}]

CollectsDoc(q) == q.stack # <<>> /\ Last(q.stack).collecting_doc
_stop_doc_collection(q) ==
  IF CollectsDoc(q) THEN [q EXCEPT !.stack[Len(q.stack)].collecting_doc = FALSE] ELSE q

\* Mutant: a block left open inside the one that is closed is closed without a word.
CloseOpen_silent(q, count, n) == CloseBlocks(q, count, n)

\* Recovering, the blocks of other kinds left open inside the one that is
\* closed are errors and are closed with it; so are all blocks at the end.
CloseOpen(q, count, n) == [CloseBlocks(q, count, n) EXCEPT !.errors = @ + count]

IsOpen(q, kind) == \E i \in 1 .. Len(q.stack) : q.stack[i].kind = kind
\* How many blocks are open inside the innermost one of that kind.
OpenInside(q, kind) ==
  CHOOSE d \in 0 .. Len(q.stack) - 1 :
    /\ q.stack[Len(q.stack) - d].kind = kind
    /\ \A e \in 0 .. d - 1 : q.stack[Len(q.stack) - e].kind # kind

\* ENDIF, ENDLOOP, END BATCH, END SCRIPT: _pop_block, then _close_block.
CloseKeyword(q, line, n) ==
  LET kind == Closes[line]
      closed == CloseOpen(q, OpenInside(q, kind), n)
      named == IF line = "END_SCRIPT_other" THEN _structural_error(closed) ELSE closed
      owned == [named EXCEPT !.stack[Len(named.stack)].own = @ \cup {n}]
  IN  IF ~IsOpen(q, kind)
      THEN [_structural_error(q) EXCEPT !.refused = @ \cup {n}]
      ELSE _close_block(owned, n)

\* ELSEIF, ELSE, ANDIF, ORIF.
ClauseKeyword(q, line, n) ==
  LET top == Len(q.stack)
      own == [q EXCEPT !.stack[top].own = @ \cup {n}]
      branch == Branch([Last(q.stack) EXCEPT !.in_else = FALSE])
  IN  IF ~TopIs(q, "if") THEN [_structural_error(q) EXCEPT !.refused = @ \cup {n}]
      ELSE IF line = "ELSEIF"
      THEN [own EXCEPT !.stack[top].elseifs = @ + 1,
                       !.stack[top].in_elseif = TRUE, !.stack[top].in_else = FALSE]
      ELSE IF line = "ELSE"
      THEN [own EXCEPT !.stack[top].in_else = TRUE, !.stack[top].in_elseif = FALSE]
      ELSE [own EXCEPT !.modifiers = @ \cup {[line |-> n, block |-> Last(q.stack).start, clause |-> branch]}]

BeginSql(q, n) == Push([_flush_sql(q, n) EXCEPT !.in_sql = TRUE], "sqlblock", n)

EndSql(q, n) ==
  LET flushed == [_flush_sql(q, n) EXCEPT !.in_sql = FALSE]
  IN  IF ~TopIs(q, "sqlblock") THEN [_structural_error(flushed) EXCEPT !.refused = @ \cup {n}]
      ELSE _close_block([flushed EXCEPT !.stack[Len(q.stack)].own = @ \cup {n}], n)

\* A metacommand's line. SQL that no line has ended is dropped with a
\* warning, except before BEGIN SQL and END SQL.
Metacommand(q, line, n) ==
  LET dropped == [q EXCEPT !.warned = @ \cup q.sql, !.sql = {}]
  IN  CASE line = "BEGIN_SQL" -> BeginSql(q, n)
        [] line = "END_SQL" -> EndSql(q, n)
        [] q.in_sql /\ line \notin {"BEGIN_SQL", "END_SQL"} -> [q EXCEPT !.ignored = @ \cup {n}]
        [] ~q.in_sql /\ line \in DOMAIN Opens ->
             Push(IF line = "BEGIN_SCRIPT_bad" THEN _structural_error(dropped) ELSE dropped, Opens[line], n)
        [] ~q.in_sql /\ line \in DOMAIN Closes -> CloseKeyword(dropped, line, n)
        [] ~q.in_sql /\ line \in Clauses -> ClauseKeyword(dropped, line, n)
        [] ~q.in_sql /\ line = "cmd" -> Emit(dropped, "cmd", {n}, n, n)

\* A line inside /* ... */.
InBlockComment(q, line, n) ==
  LET all == q.block \cup {n}
      out == [q EXCEPT !.in_comment = FALSE, !.block = {}, !.in_statement = FALSE]
  IN  IF line \notin {"*/", "/**/"} THEN [q EXCEPT !.block = all]
      ELSE IF CollectsDoc(q) THEN [out EXCEPT !.doc = @ \cup all]
      ELSE IF q.in_statement THEN [out EXCEPT !.sql = @ \cup all]
      ELSE Emit(_flush_sql(out, n), "comment", all, FirstLine(all), n)

\* A comment's only line, or the first of several.
OpenBlockComment(q, line, n) ==
  IF line = "/*"
  THEN [q EXCEPT !.in_comment = TRUE, !.block = {n}, !.in_statement = q.sql # {}]
  ELSE IF q.sql # {} THEN [q EXCEPT !.sql = @ \cup {n}]
  ELSE Emit(q, "comment", {n}, n, n)

LineComment(q, n) ==
  IF q.sql # {} THEN [q EXCEPT !.sql = @ \cup {n}] ELSE [q EXCEPT !.comments = @ \cup {n}]

\* A line of SQL; only outside BEGIN SQL does a semicolon end the statement.
SqlLine(q, line, n) ==
  LET more == [q EXCEPT !.sql = @ \cup {n}, !.sql_start = IF q.sql = {} THEN n ELSE @]
  IN  IF line = "sql;" /\ ~q.in_sql THEN _flush_sql(more, n) ELSE more

\* A line that is no part of a SCRIPT's docstring.
OrdinaryLine(q, line, n) ==
  LET flushed == _flush_line_comments(q)
  IN  IF line = "blank" THEN flushed
      ELSE IF q.in_comment THEN InBlockComment(q, line, n)
      ELSE IF line = "--" /\ ~q.in_sql THEN LineComment(q, n)
      ELSE IF line \in {"/*", "/**/"} THEN OpenBlockComment(flushed, line, n)
      ELSE IF line \in Metacommands THEN Metacommand(flushed, line, n)
      ELSE SqlLine(flushed, line, n)

\* The comments right after BEGIN SCRIPT are its docstring.
ParseLine(q, line, n) ==
  IF ~CollectsDoc(q) \/ q.in_comment THEN OrdinaryLine(q, line, n)
  ELSE IF line = "blank" THEN _flush_line_comments(_stop_doc_collection(q))
  ELSE IF line \in {"--", "/**/"} THEN [q EXCEPT !.doc = @ \cup {n}]
  ELSE IF line = "/*" THEN [q EXCEPT !.in_comment = TRUE, !.block = {n}, !.in_statement = FALSE]
  ELSE OrdinaryLine(_stop_doc_collection(q), line, n)

\* The end of the script: blocks still open and SQL not ended are errors, kept when recovering.
ParseEnd(q, n) ==
  LET flushed == _flush_line_comments(q)
      trailing == IF q.sql # {} THEN _structural_error(flushed) ELSE flushed
  IN  CloseOpen(_flush_sql(trailing, n), Len(q.stack), n)

-----------------------------------------------------------------------------
ParserInit ==
  /\ text = <<>>
  /\ p \in {Start(TRUE), Start(FALSE)}
  /\ phase = "reading"

\* Without a list to collect them in, the first error is raised.
Raises(q) == q.errors > 0 /\ ~q.recover

ReadLine(line) ==
  /\ phase = "reading" /\ Len(text) < MaxLines
  /\ text' = Append(text, line)
  /\ p' = ParseLine(p, line, Len(text) + 1)
  /\ phase' = IF Raises(p') THEN "raised" ELSE "reading"

EndOfScript ==
  /\ phase = "reading"
  /\ p' = ParseEnd(p, Len(text))
  /\ phase' = IF Raises(p') THEN "raised" ELSE "parsed"
  /\ UNCHANGED text

Parsed == phase # "reading" /\ UNCHANGED parserVars

ParserNext == (\E line \in Line : ReadLine(line)) \/ EndOfScript \/ Parsed

ParserSpec == ParserInit /\ [][ParserNext]_parserVars

-----------------------------------------------------------------------------
(***************************************************************************)
(* The grammar of a script, for lines that no comment swallows: blocks     *)
(* nest, an IF's parts are separated by its clauses, BEGIN SQL takes       *)
(* everything up to END SQL.                                               *)
(***************************************************************************)
Single == LineKinds \ ({"BEGIN_SQL", "END_SQL"} \cup Clauses \cup DOMAIN Opens \cup DOMAIN Closes)

\* Derives[i, j, c]: lines i to j are a body, or with c the parts of an IF.
Derives(lines) ==
  LET n == Len(lines)
      D[i \in 1 .. n + 1, j \in 0 .. n, c \in BOOLEAN] ==
        \/ i > j
        \/ /\ lines[i] \in Single \/ (c /\ lines[i] \in Clauses)
           /\ D[i + 1, j, c]
        \/ \E k \in i + 1 .. j :
             /\ \/ /\ lines[i] \in DOMAIN Opens \ {"BEGIN_SCRIPT_bad"}
                   /\ lines[k] \in DOMAIN Closes \ {"END_SCRIPT_other"}
                   /\ Opens[lines[i]] = Closes[lines[k]]
                   /\ D[i + 1, k - 1, lines[i] = "IF"]
                \/ /\ lines[i] = "BEGIN_SQL" /\ lines[k] = "END_SQL"
                   /\ \A m \in i + 1 .. k - 1 : lines[m] # "END_SQL"
             /\ D[k + 1, j, c]
  IN  D[1, n, FALSE]

\* SQL after which neither a semicolon nor a metacommand comes.
EndsInsideStatement(lines) ==
  \E i \in 1 .. Len(lines) :
    lines[i] \in {"sql", "*/"} /\ \A k \in i .. Len(lines) : lines[k] \notin Metacommands \cup {"sql;"}

NoBlockComment == \A i \in 1 .. Len(text) : text[i] # "/*"
SqlBlocksAreApart ==
  \A i, k \in 1 .. Len(text) :
    i < k /\ text[i] = "BEGIN_SQL" /\ text[k] = "BEGIN_SQL" =>
      \E m \in i + 1 .. k - 1 : text[m] = "END_SQL"

\* A script is accepted exactly when its blocks nest and its last statement
\* ends: no unmatched or unclosed block gets past the stack of open blocks,
\* and none that nests is refused, whatever comments, docstrings, dropped
\* SQL and ignored metacommands lie between.
AcceptsTheGrammar ==
  phase = "parsed" /\ NoBlockComment /\ SqlBlocksAreApart =>
    ((p.errors = 0) = (Derives(text) /\ ~EndsInsideStatement(text)))

NodeLines == [i \in 1 .. Len(p.tree) |-> p.tree[i].lines]
FrameLines == [i \in 1 .. Len(p.stack) |-> p.stack[i].own]
Buckets ==
  NodeLines \o FrameLines \o <<p.sql, p.comments, p.block, p.warned, p.ignored, p.doc, p.refused>>

\* Every line that is not blank is in one place and one only: a node's text,
\* a block's own lines, what is being accumulated, a docstring, SQL dropped
\* with a warning, a metacommand that BEGIN SQL ignores, or an error.
NothingLostOrDoubled ==
  phase # "raised" =>
    /\ UNION {Buckets[i] : i \in 1 .. Len(Buckets)} = {n \in 1 .. Len(text) : text[n] # "blank"}
    /\ \A i, j \in 1 .. Len(Buckets) : i # j => Buckets[i] \cap Buckets[j] = {}

\* The clause lines of block b before line n.
ClausesBefore(b, n, which) ==
  {l \in 1 .. n - 1 : text[l] \in which /\ \E i \in 1 .. Len(p.tree) : p.tree[i].from = b /\ l \in p.tree[i].lines
                        /\ p.tree[i].kind = "if"}

\* A block encloses what is in it, recovering too, and a statement is in the
\* branch of the last ELSEIF or ELSE before it.
TreeFollowsTheText ==
  phase = "parsed" =>
    \A i \in 1 .. Len(p.tree) :
      LET node == p.tree[i]
          blocks == {b \in 1 .. Len(p.tree) : p.tree[b].kind \in {"if", "loop", "batch", "script", "sqlblock"}}
      IN  node.parent # 0 =>
            \E b \in blocks :
              LET block == p.tree[b]
                  branches == ClausesBefore(block.from, node.from, {"ELSEIF", "ELSE"})
              IN  /\ block.from = node.parent
                  /\ block.from < node.from /\ node.to <= block.to
                  /\ block.kind = "if" =>
                       node.branch =
                         IF branches = {} THEN 0
                         ELSE LET last == CHOOSE l \in branches : \A m \in branches : m <= l
                              IN  IF text[last] = "ELSE" THEN -1
                                  ELSE Cardinality({l \in branches : text[l] = "ELSEIF"})
=============================================================================
