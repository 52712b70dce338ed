-------------------------- MODULE DelimitedFiles --------------------------
(***************************************************************************)
(* Delimited files (exporters/delimited.py): the text EXPORT writes, and   *)
(* what IMPORT makes of it: the diagnosis of its format, the reader over   *)
(* Python's csv module, the reader that goes character by character, and   *)
(* the text handed to PostgreSQL's COPY and MySQL's LOAD DATA.  Between    *)
(* two EXPORTs another program may add a line with its last values left    *)
(* off, a blank one when all of them are.  A text is a sequence of         *)
(* characters, "\037" standing for the unit separator; the letters of a    *)
(* word, which nothing here tells apart, are one character.                *)
(***************************************************************************)
EXTENDS Integers, FiniteSetsExt, SequencesExt

CONSTANTS
  Exports,    \* EXPORT's formats, the settings it and IMPORT are run with, the
              \* columns' names, and what the file holds before them: nothing or newlines
  Rows,       \* the rows: sequences of values, each a text or NULL
  MaxLines,   \* lines after the header
  ScanLines   \* the setting scan_lines

VARIABLES
  filefmt,    \* EXPORT's format
  settings,   \* quote_all_text; of IMPORT del_empty_cols, create_col_hdrs, dedup_col_hdrs,
              \* empty_strings, empty_rows, replace_newlines
  lines,      \* what the file holds: its header, and rows of which the last values may be left off
  file        \* its text

vars == <<filefmt, settings, lines, file>>

nl == "\n"
dq == "\""
sq == "'"
escchar == "\\"
none == ""                \* no delimiter, no quote or no escape character
NULL == <<"NULL">>
Nullable(text) == IF text = <<>> THEN NULL ELSE text

-----------------------------------------------------------------------------
(* EXPORT. *)

Format(fmt) ==
  CASE fmt = "csv" -> [delim |-> ",", quote |-> dq, esc |-> none]
    [] fmt = "tab" -> [delim |-> "\t", quote |-> none, esc |-> none]
    [] fmt = "tabq" -> [delim |-> "\t", quote |-> dq, esc |-> none]
    [] fmt = "us" -> [delim |-> "\\037", quote |-> none, esc |-> none]

Doubled(text, q) == FlattenSeq([i \in DOMAIN text |-> IF text[i] = q THEN <<q, q>> ELSE <<text[i]>>])

Needs_quoting(text, f) == \E c \in {f.quote, f.delim, nl} : Contains(text, c)
Field(value, f) ==
  IF value = NULL THEN <<>>
  ELSE IF f.quote # none /\ (settings.quote_all_text \/ Needs_quoting(value, f))
       THEN <<f.quote>> \o Doubled(value, f.quote) \o <<f.quote>>
       ELSE value

delimited(row, f) ==
  FlattenSeq([i \in DOMAIN row |-> Field(row[i], f) \o <<IF i < Len(row) THEN f.delim ELSE nl>>])

-----------------------------------------------------------------------------
(* Python's csv module, and the parsers of COPY and LOAD DATA.  COPY lets a
   quote open a quoted stretch in the middle of a field, csv and LOAD DATA
   only at its start; csv alone reads a blank line as a record of no fields. *)

Opened == [in |-> "record", field |-> <<>>, fields |-> <<>>, records |-> <<>>]
Add(s, c, in) == [s EXCEPT !.field = Append(@, c), !.in = in]
EndField(s) == [s EXCEPT !.fields = Append(@, s.field), !.field = <<>>, !.in = "field"]
EndRecord(s) == [s EXCEPT !.records = Append(@, s.fields), !.fields = <<>>, !.in = "record"]

parse_step(s, c, f, parser) ==
  CASE s.in = "quoted" -> IF c = f.quote THEN [s EXCEPT !.in = "quote"] ELSE Add(s, c, "quoted")
    [] s.in = "quote" /\ c = f.quote -> Add(s, c, "quoted")
    [] c = f.quote /\ s.in \in {"record", "field"} \cup (IF parser = "copy" THEN {"unquoted"} ELSE {}) ->
         [s EXCEPT !.in = "quoted"]
    [] c = nl -> IF parser = "csv" /\ s.in = "record" THEN EndRecord(s) ELSE EndRecord(EndField(s))
    [] c = f.delim -> EndField(s)
    [] OTHER -> Add(s, c, "unquoted")
parse(text, f, parser) ==
  LET s == FoldLeft(LAMBDA t, c : parse_step(t, c, f, parser), Opened, text)
  IN (IF s.in = "record" THEN s ELSE EndRecord(EndField(s))).records

NullFields(records) == [i \in DOMAIN records |-> [j \in DOMAIN records[i] |-> Nullable(records[i][j])]]
csv_reader(text, f) == NullFields(parse(text, f, "csv"))

-----------------------------------------------------------------------------
(* The reader that goes character by character: one call of
   read_and_parse_line for a record, which ends at a newline or the file's
   end.  `prev` is the state before the last character, as the code has it. *)

Start == [in |-> "start", prev |-> "none", esc |-> <<>>, current |-> <<>>, elements |-> <<>>, error |-> FALSE]

Keep(s, c, in) == [s EXCEPT !.current = @ \o s.esc \o <<c>>, !.esc = <<>>, !.in = in]
Unescaped(s, c, in) == [s EXCEPT !.current = Append(@, c), !.esc = <<>>, !.in = in]
Ends(s, element, in) ==
  [s EXCEPT !.elements = Append(@, element), !.current = <<>>, !.esc = <<>>, !.in = in]

in_quoted(s, c, f) ==
  CASE c = f.esc -> [s EXCEPT !.esc = <<c>>, !.in = "escaped"]
    [] c = f.quote -> [s EXCEPT !.esc = <<c>>, !.in = "quote_in_quoted"]
    [] OTHER -> Keep(s, c, "in_quoted")
escaped(s, c, f) == IF c = f.quote THEN Unescaped(s, c, "in_quoted") ELSE Keep(s, c, "in_quoted")
quote_in_quoted(s, c, f) ==
  CASE c = f.quote -> Unescaped(s, c, "in_quoted")
    [] c = f.delim -> Ends(s, s.current, "delimited")
    [] c = nl -> Ends(s, s.current, "end")
    [] OTHER -> [s EXCEPT !.elements = Append(@, Nullable(s.current)), !.current = Append(@, c), !.esc = <<>>,
                          !.in = "in_unquoted", !.error = TRUE]
in_unquoted(s, c, f) ==
  CASE c = f.delim -> Ends(s, Nullable(s.current), "delimited")
    [] c = nl -> Ends(s, Nullable(s.current), "end")
    [] c = f.quote -> Ends(s, Nullable(s.current), "in_quoted")
    [] OTHER -> Keep(s, c, "in_unquoted")
\* At the start of a line and after a delimiter.
at_field(s, c, f) ==
  CASE c = f.quote -> [s EXCEPT !.in = "in_quoted"]
    [] c = f.delim -> Ends(s, NULL, "delimited")
    [] c = nl -> [s EXCEPT !.in = "end"]
    [] OTHER -> Keep(s, c, "in_unquoted")

read_step(s, c, f) ==
  LET t == CASE s.in = "in_quoted" -> in_quoted(s, c, f)
             [] s.in = "escaped" -> escaped(s, c, f)
             [] s.in = "quote_in_quoted" -> quote_in_quoted(s, c, f)
             [] s.in = "in_unquoted" -> in_unquoted(s, c, f)
             [] s.in \in {"start", "delimited"} -> at_field(s, c, f)
  IN [t EXCEPT !.prev = s.in]

end(s) ==
  LET current == IF s.prev = "escaped" THEN s.current \o s.esc ELSE s.current
  IN s.elements
     \o (IF current = <<>> THEN <<>> ELSE <<IF s.prev = "quote_in_quoted" THEN Front(current) ELSE current>>)
     \o (IF s.prev = "delimited" THEN <<NULL>> ELSE <<>>)

\* Its records, and whether one of them is an error.
slow_reader(text, f) ==
  LET next(r, c) ==
        LET s == read_step(r.line, c, f)
        IN IF s.in = "end" THEN [line |-> Start, records |-> Append(r.records, end(s)), error |-> r.error \/ s.error]
           ELSE [r EXCEPT !.line = s]
      r == FoldLeft(next, [line |-> Start, records |-> <<>>, error |-> FALSE], text)
      rest == end(r.line)
  IN [records |-> IF rest = <<>> THEN r.records ELSE Append(r.records, rest), error |-> r.error \/ r.line.error]

-----------------------------------------------------------------------------
(* The diagnosis of a file's format. *)

possible_delimiters == <<"\t", ",", ";", "|", "\\037">>
possible_quotechars == <<dq, sq>>

Count(text, c) == Cardinality({ i \in DOMAIN text : text[i] = c })

\* The lines of a text, each with its newline.
PhysicalLines(text) ==
  LET add(ls, c) == IF ls = <<>> \/ Last(Last(ls)) = nl THEN Append(ls, <<c>>)
                    ELSE Append(Front(ls), Append(Last(ls), c))
  IN FoldLeft(add, <<>>, text)
\* Without their newlines and the blank ones.
Stripped(line) == SubSeq(line, 1, Max({0} \cup { i \in DOMAIN line : line[i] # nl }))
TextLines(ls) == SelectSeq([i \in DOMAIN ls |-> Stripped(ls[i])], LAMBDA l : l # <<>>)
FirstLines(ls) == SubSeq(ls, 1, Min({ScanLines, Len(ls)}))
LogicalLines_physical(text) == TextLines(FirstLines(PhysicalLines(text)))
\* Lines are joined until their double quotes balance.
LogicalLines(text) ==
  LET join(ls, l) == IF ls # <<>> /\ Count(Last(ls), dq) % 2 = 1 THEN Append(Front(ls), Last(ls) \o l)
                     ELSE Append(ls, l)
  IN TextLines(FirstLines(FoldLeft(join, <<>>, PhysicalLines(text))))

\* A line split at the delimiters outside quotes; the quotes are kept.
Item == [in |-> "between", esc |-> <<>>, current |-> <<>>, elements |-> <<>>, error |-> FALSE]
item_step(s, c, d, q) ==
  CASE s.in = "in_quoted" /\ c \in {escchar, q} ->
         [s EXCEPT !.esc = <<c>>, !.in = IF c = escchar THEN "escaped" ELSE "quote_in_quoted"]
    [] s.in \in {"escaped", "quote_in_quoted"} /\ c = d ->
         Ends(s, s.current \o s.esc, IF s.in = "escaped" THEN "between" ELSE "delimited")
    [] s.in = "quote_in_quoted" /\ c # q -> [Keep(s, c, "in_quoted") EXCEPT !.error = TRUE]
    [] s.in \in {"in_unquoted", "between", "delimited"} /\ c = d -> Ends(s, s.current, "delimited")
    [] s.in = "in_unquoted" \/ (s.in \in {"between", "delimited"} /\ c # q) -> Keep(s, c, "in_unquoted")
    [] OTHER -> Keep(s, c, "in_quoted")
item_end(s) ==
  LET last == s.current \o s.esc
  IN [elements |-> IF last = <<>> THEN s.elements ELSE Append(s.elements, last), error |-> s.error]
items(line, d, q) == item_end(FoldLeft(LAMBDA t, c : item_step(t, c, d, q), Item, line))

QuotesBefore(text, q, i) == Cardinality({ j \in 1 .. i : \A k \in j .. i : text[k] = q })
OnlyDoubled(text, q) ==
  \A i \in DOMAIN text : text[i] = q /\ (i = Len(text) \/ text[i + 1] # q) => QuotesBefore(text, q, i) % 2 = 0
OnlyEscaped(text, q) == \A i \in DOMAIN text : text[i] = q => i > 1 /\ text[i - 1] = escchar
\* Whether an element is well quoted, and by a doubled or an escaped quote.
well_quoted(e, q) ==
  LET inner == SubSeq(e, 2, Len(e) - 1)
  IN CASE ~Contains(e, q) -> "unquoted"
       [] e[1] # q \/ e[Len(e)] # q -> "wrong"
       [] OnlyDoubled(inner, q) -> "quoted"
       [] OnlyEscaped(inner, q) -> "escaped"
       [] OTHER -> "wrong"

\* What quote q makes of the lines split: an error, or not all elements well
\* quoted, or how many are quoted and whether one has an escape.
LinesElements(split) == FlattenSeq([i \in DOMAIN split |-> split[i].elements])
well_quoted_line(es, q) == [i \in DOMAIN es |-> well_quoted(es[i], q)]
Use(wq, error) ==
  [error |-> error, ok |-> ~Contains(wq, "wrong"), uses |-> Cardinality({ i \in DOMAIN wq : wq[i] # "unquoted" }),
   esc |-> IF Contains(wq, "escaped") THEN escchar ELSE none]
QuoteUse(split, q) == Use(well_quoted_line(LinesElements(split), q), \E i \in DOMAIN split : split[i].error)
all_well_quoted(ls, d, q) == QuoteUse([i \in DOMAIN ls |-> items(ls[i], d, q)], q)

\* The quote used most; of two used alike the first.
Refused == [delim |-> "error", quote |-> none, esc |-> none]
MostUsed(d, wq, used) ==
  LET i == CHOOSE i \in used : \A j \in used : wq[j].uses < wq[i].uses \/ (wq[j].uses = wq[i].uses /\ j >= i)
  IN [delim |-> d, quote |-> possible_quotechars[i], esc |-> wq[i].esc]
QuoteOf(d, wq) ==
  LET used == { i \in DOMAIN wq : wq[i].ok /\ wq[i].uses > 0 }
  IN CASE \E i \in DOMAIN wq : wq[i].error -> Refused
       [] used = {} -> [delim |-> d, quote |-> none, esc |-> none]
       [] OTHER -> MostUsed(d, wq, used)
eval_quotes(ls, d) ==
  QuoteOf(d, [i \in DOMAIN possible_quotechars |-> all_well_quoted(ls, d, possible_quotechars[i])])

\* The delimiters that every line has, those of most weight first.
delim_order(ls) ==
  LET least(d) == Min({ Count(ls[i], d) : i \in DOMAIN ls })
      weight(d) == least(d) * least(d) * Cardinality({ i \in DOMAIN ls : Count(ls[i], d) = least(d) })
      before(i, j) == LET wi == weight(possible_delimiters[i]) wj == weight(possible_delimiters[j])
                      IN wi > wj \/ (wi = wj /\ i < j)
      order == SetToSortSeq({ i \in DOMAIN possible_delimiters : least(possible_delimiters[i]) > 0 }, before)
  IN [i \in DOMAIN order |-> possible_delimiters[order[i]]]

\* The first delimiter that a quote goes with, or the one of most weight.
Decided(tried) ==
  LET decided == { i \in DOMAIN tried : tried[i] = Refused \/ tried[i].quote # none }
  IN IF decided = {} THEN tried[1] ELSE tried[Min(decided)]
FormatOf(ls, order) ==
  IF order = <<>> THEN eval_quotes(ls, none) ELSE Decided([i \in DOMAIN order |-> eval_quotes(ls, order[i])])
diagnose_delim(text) ==
  LET ls == LogicalLines(text) IN IF ls = <<>> THEN Refused ELSE FormatOf(ls, delim_order(ls))

\* IMPORT is told the format or finds it.
Unset == [delim |-> "unset", quote |-> none, esc |-> none]
evaluate_line_format(text, given) == IF given = Unset THEN diagnose_delim(text) ELSE given

-----------------------------------------------------------------------------
(* What IMPORT loads: the column names and then the rows, or Nothing when it
   refuses the file. *)

Nothing == <<>>
Empty(columns) == [i \in 1 .. columns |-> NULL]

\* A blank line inside the data is an empty row, one after it is not.
WithWidth(records) ==
  [i \in DOMAIN records |-> IF records[i] = <<>> THEN Empty(Len(records[1])) ELSE records[i]]
FilledRows(records) ==
  LET data == { i \in DOMAIN records : records[i] # <<>> }
  IN IF data = {} THEN <<>> ELSE WithWidth(SubSeq(records, Min(data), Max(data)))

Blank(names) == { i \in DOMAIN names : names[i] \in {NULL, <<>>} }
without_blank_cols(row, blanks) ==
  LET kept == SetToSortSeq(DOMAIN row \ blanks, <) IN [i \in DOMAIN kept |-> row[kept[i]]]
Filled(names) ==
  CASE Blank(names) = {} -> names
    [] settings.del_empty_cols -> without_blank_cols(names, Blank(names))
    [] settings.create_col_hdrs ->
         [i \in DOMAIN names |-> IF i \in Blank(names) THEN <<"Col", ToString(i)>> ELSE names[i]]
    [] OTHER -> Nothing
\* Duplicates get their position as a suffix, until there are none.
Suffixed(words) ==
  [i \in DOMAIN words |-> IF \E j \in 1 .. (i - 1) : words[j] = words[i] THEN words[i] \o <<"_", ToString(i)>> ELSE words[i]]
dedup_words(words) == FoldLeft(LAMBDA ws, round : Suffixed(ws), words, [round \in 1 .. Len(words) * Len(words) |-> round])
colhdrs(names) == IF settings.dedup_col_hdrs THEN dedup_words(Filled(names)) ELSE Filled(names)

can_use_fast_csv_reader(f) == f.delim # none /\ f.esc = none
TableOf(rows, names, blanks) ==
  IF names = Nothing \/ \E i \in DOMAIN rows : ~(blanks \subseteq DOMAIN rows[i]) THEN Nothing
  ELSE [i \in DOMAIN rows |-> IF i = 1 THEN names ELSE without_blank_cols(rows[i], blanks)]
WithHeader(rows) ==
  IF rows = <<>> THEN Nothing
  ELSE TableOf(rows, colhdrs(rows[1]), IF settings.del_empty_cols THEN Blank(rows[1]) ELSE {})
Tabled(records) == WithHeader(FilledRows(records))
BySlowReader(text, f) ==
  LET read == slow_reader(text, f) IN IF read.error THEN Nothing ELSE Tabled(read.records)
reader(text, f) ==
  CASE f = Refused -> Nothing
    [] can_use_fast_csv_reader(f) -> Tabled(csv_reader(text, f))
    [] OTHER -> BySlowReader(text, f)

blank_lines_as_empty_rows_quotesUnseen(text, f, columns) ==
  LET empty_row == [i \in 1 .. columns |-> IF i < columns THEN f.delim ELSE nl]
      add(s, line) == IF line = <<nl>> THEN [s EXCEPT !.pending = @ \o empty_row]
                      ELSE [text |-> s.text \o s.pending \o line, pending |-> <<>>]
  IN FoldLeft(add, [text |-> <<>>, pending |-> <<>>], PhysicalLines(text)).text
\* Runs of newlines, each made a blank.
Squeezed(text) ==
  LET kept == SetToSortSeq({ i \in DOMAIN text : text[i] # nl \/ i = 1 \/ text[i - 1] # nl }, <)
  IN [i \in DOMAIN kept |-> IF text[kept[i]] = nl THEN " " ELSE text[kept[i]]]
Adjusted(value) ==
  LET v == IF settings.replace_newlines /\ value # NULL THEN Squeezed(value) ELSE value
  IN IF ~settings.empty_strings /\ Range(v) \subseteq {nl, " "} THEN NULL ELSE v
\* The rows inserted one by one: values left off a line are NULL.
InsertedRows(table) ==
  LET columns == Len(table[1])
      row(line) == [i \in 1 .. columns |-> IF i <= Len(line) THEN Adjusted(line[i]) ELSE NULL]
      read == SelectSeq(Tail(table), LAMBDA line : line # <<NULL>>)
      rows == [i \in DOMAIN read |-> row(read[i])]
  IN <<table[1]>> \o SelectSeq(rows, LAMBDA r : settings.empty_rows \/ r # Empty(columns))
\* Values beyond the columns are an error, unless blank columns are deleted and
\* none is a value.
TooLong(table) ==
  \E i \in DOMAIN table : \E j \in DOMAIN table[i] :
    j > Len(table[1]) /\ ~(settings.del_empty_cols /\ Adjusted(table[i][j]) = NULL)
populate_table(table) == IF TooLong(table) THEN Nothing ELSE InsertedRows(table)
\* SQLite drops them.
SQLite_populate_table(table) == InsertedRows(table)

\* The text given to COPY: each blank line inside the data made an empty row.
blank_lines_as_empty_rows(text, f, columns) ==
  LET empty_row == [i \in 1 .. columns |-> IF i < columns THEN f.delim ELSE nl]
      add(s, line) ==
        IF ~s.in_quotes /\ line = <<nl>> THEN [s EXCEPT !.pending = @ \o empty_row]
        ELSE [text |-> s.text \o s.pending \o line, pending |-> <<>>,
              in_quotes |-> s.in_quotes # (Count(line, f.quote) % 2 = 1)]
  IN FoldLeft(add, [text |-> <<>>, pending |-> <<>>, in_quotes |-> FALSE], PhysicalLines(text)).text

\* A DBMS's own loader takes rows of the header's length alone.
LoadedBy(text, f, names, parser) ==
  LET records == parse(text, f, parser)
  IN IF \A i \in DOMAIN records : Len(records[i]) = Len(names) THEN <<names>> \o records ELSE Nothing
WithDelimiter(f, d) == IF f.delim = none THEN [f EXCEPT !.delim = d] ELSE f
AfterHeader(text) == FlattenSeq(Tail(PhysicalLines(text)))

AsTheyAre == settings.empty_strings /\ settings.empty_rows /\ ~settings.del_empty_cols
             /\ ~settings.create_col_hdrs /\ ~settings.replace_newlines
copies(f) == f.quote # none /\ f.esc = none /\ AsTheyAre
Copied(text, f, names) ==
  LET c == WithDelimiter(f, "\\037")
  IN LoadedBy(blank_lines_as_empty_rows(AfterHeader(text), c, Len(names)), c, names, "copy")

\* LOAD DATA is given the file without its blank lines at the end.
data_length(text) ==
  LET content == Max({0} \cup { i \in DOMAIN text : text[i] # nl })
  IN IF content < Len(text) THEN content + 1 ELSE content
loads_data(f) == f.esc = none /\ AsTheyAre
copy_head(text) == SubSeq(text, 1, data_length(text))
LoadedData(text, f, names) ==
  LoadedBy(AfterHeader(copy_head(text)), WithDelimiter(f, "\t"), names, "load data")

\* Of a file with format f that the reader makes a table of.
PostgreSQL_import(text, f, table) == IF copies(f) THEN Copied(text, f, table[1]) ELSE populate_table(table)
MySQL_import(text, f, table) == IF loads_data(f) THEN LoadedData(text, f, table[1]) ELSE populate_table(table)
import_tabular_file(dbms, text, f, table) ==
  CASE table = Nothing -> Nothing
    [] dbms = "PostgreSQL" -> PostgreSQL_import(text, f, table)
    [] dbms = "MySQL" -> MySQL_import(text, f, table)
    [] dbms = "SQLite" -> SQLite_populate_table(table)

-----------------------------------------------------------------------------
Init ==
  \E export \in Exports :
    /\ filefmt = export.filefmt /\ settings = export.settings
    /\ lines = <<export.header>>
    /\ file = export.first \o delimited(export.header, Format(filefmt))

Add_line(line) ==
  /\ Len(lines) <= MaxLines
  /\ lines' = Append(lines, line)
  /\ file' = file \o (IF line = <<>> THEN <<nl>> ELSE delimited(line, Format(filefmt)))
  /\ UNCHANGED <<filefmt, settings>>

\* EXPORT APPEND of one row, which writes no header.
write_delimited_file(row) == Len(row) = Len(lines[1]) /\ Add_line(row)
\* Another program's row.
Short_line(row) == \E n \in 0 .. (Min({Len(row) + 1, Len(lines[1])}) - 1) : Add_line(SubSeq(row, 1, n))

Next == \E row \in Rows : write_delimited_file(row) \/ Short_line(row)
Spec == Init /\ [][Next]_vars

-----------------------------------------------------------------------------
(* What the file should be read as. *)

format == Format(filefmt)
columns == Len(lines[1])

\* The rows of the file: a line with values left off ends with NULLs, one with
\* none at the file's end is no row.  NULL and '' are one text in a file.
Written ==
  LET isblank(l) == l = <<>> \/ delimited(l, format) = <<nl>>
      last == Max({ i \in DOMAIN lines : i = 1 \/ ~isblank(lines[i]) })
  IN [i \in 1 .. last |-> [j \in 1 .. columns |-> IF j <= Len(lines[i]) THEN Nullable(lines[i][j]) ELSE NULL]]
Named == { j \in 1 .. columns : lines[1][j] # <<>> \/ ~settings.del_empty_cols }
Projected(row) == [j \in 1 .. Cardinality(Named) |->
  row[CHOOSE k \in Named : Cardinality({ n \in Named : n < k }) = j - 1]]
NamesOf(row) == [j \in 1 .. columns |-> IF row[j] = NULL THEN <<"Col", ToString(j)>> ELSE row[j]]
Exported ==
  IF Blank(lines[1]) # {} /\ ~settings.del_empty_cols /\ ~settings.create_col_hdrs THEN Nothing
  ELSE LET rows == [i \in DOMAIN Written |-> Projected(IF i = 1 THEN NamesOf(Written[1]) ELSE Written[i])]
           values == [i \in DOMAIN rows |-> IF i = 1 THEN rows[1] ELSE [j \in DOMAIN rows[i] |-> Adjusted(rows[i][j])]]
       IN <<values[1]>> \o SelectSeq(Tail(values), LAMBDA r : settings.empty_rows \/ r # Empty(Len(r)))

\* NULL and '' alike, and rows of one NULL left out.
Comparable(table) ==
  LET alike == [i \in DOMAIN table |-> [j \in DOMAIN table[i] |-> Nullable(table[i][j])]]
  IN SelectSeq(alike, LAMBDA r : r # <<NULL>>)
\* Of two columns of one name one is given another, which no third has.
NamesAgree(names, given) ==
  IF settings.dedup_col_hdrs THEN IsInjective(names) /\ \A i \in DOMAIN given : IsPrefix(given[i], names[i])
  ELSE names = given
Agree(table, expected) ==
  IF table = Nothing \/ expected = Nothing THEN table = expected
  ELSE NamesAgree(table[1], expected[1]) /\ Tail(table) = Tail(expected)
Short == \E i \in DOMAIN Written : lines[i] # <<>> /\ Len(lines[i]) < columns
LoneEmpty == \E i \in DOMAIN lines : columns > 1 /\ lines[i] = <<<<>>>>
BlankInside == \E i \in DOMAIN Written : lines[i] = <<>>

\* A format with no quote cannot hold a value with its delimiter or a newline.
Holds == format.quote # none \/ \A i \in DOMAIN lines, j \in 1 .. columns :
  i > 1 /\ j <= Len(lines[i]) => \A c \in {format.delim, nl} : ~Contains(lines[i][j], c)
\* Of an apostrophe, a backslash, another format's delimiter and, in a format
\* that does not quote, a double quote the diagnosis makes something else.
Plain == \A i \in DOMAIN file :
  /\ file[i] \notin {sq, escchar, ";"} /\ (file[i] \in Range(possible_delimiters) => file[i] = format.delim)
  /\ format.quote = none => file[i] # dq

\* What EXPORT writes, IMPORT reads back, whichever of its ways a DBMS, a format
\* and the settings take: rows inserted one by one, COPY or LOAD DATA, told the
\* format or left to find it; and the reader that goes character by character
\* reads what the csv module reads.  Quotes, delimiters and newlines in a value,
\* empty values, blank lines and values left off do not move a value to another
\* row or column, no two columns are given one name, nor do the settings decide differently on one of the ways.
\* Only a DBMS's own loader refuses lines with values left off.  (Findings: ''
\* and NULL are told apart on some ways; a row of one NULL is lost on others; a
\* blank line before the header, or one with values left off when blank columns
\* are deleted; a value's other characters.)
ImportReadsExport ==
  LET loader(dbms) == dbms # "SQLite" /\ AsTheyAre
      refuses(dbms) == \/ loader(dbms) /\ (Short \/ (dbms = "MySQL" /\ BlankInside))
                       \/ settings.del_empty_cols /\ Short
      expected == Comparable(Exported)
      readAs(f) ==
        LET table == reader(file, f)
            imported(dbms) == import_tabular_file(dbms, file, f, table)
        IN \A dbms \in {"SQLite", "PostgreSQL", "MySQL"} : ~(loader(dbms) /\ file[1] = nl) =>
             Agree(Comparable(imported(dbms)), expected) \/ (imported(dbms) = Nothing /\ refuses(dbms))
      given == {format} \cup (IF Plain /\ ~Short THEN {Unset} ELSE {})
  IN Holds /\ ~LoneEmpty =>
       /\ Comparable(BySlowReader(file, format)) = Comparable(reader(file, format))
       /\ \A f \in given : readAs(evaluate_line_format(file, f))
=============================================================================
