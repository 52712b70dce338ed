--------------------------- MODULE MetacommandTable ---------------------------
(***************************************************************************)
(* The metacommands' dispatch table (metacommands/dispatch.py): a row for  *)
(* each registration, in the order of registration.                        *)
(*                                                                         *)
(* A metacommand is a sequence of tokens: keywords in capitals, "value" (a *)
(* name, a file, a condition, with its schema and its brackets), "text" (a *)
(* quoted one) and "number".  A pattern is the set of the ways its regular *)
(* expression can be spelled out, each a sequence of what takes a token:   *)
(* the token itself, V that takes any one token, Rest that takes one or    *)
(* more, and "yes/no" and "switch".  Punctuation and case are left out,    *)
(* and registrations that differ only in their quotes are one row.         *)
(***************************************************************************)
EXTENDS Sequences

V == "value"        \* a name, an unquoted value
T == "text"         \* a quoted text
N == "number"
Rest == "rest"      \* .+

One(W) == { <<w>> : w \in W }
P ** Q == { p \o q : p \in P, q \in Q }
Opt(P) == {<<>>} \cup P

Row(keyword, handler, pattern) == [keyword |-> keyword, handler |-> handler, pattern |-> pattern]

-----------------------------------------------------------------------------
(* Parts of patterns.  ins_fn_rxs puts a file name into a pattern, bare or
   quoted, and ins_table_rxs a table's. *)

File == {<<V>>}
AppendTo == Opt(Opt({<<"APPEND">>}) ** {<<"TO">>} ** File)
TeeTo == Opt(Opt({<<"TEE">>}) ** {<<"TO">>} ** File)
Tee == Opt({<<"TEE", "TO">>} ** File)
Output == Opt({<<"TEE">>}) ** Opt({<<"APPEND">>}) ** {<<"TO">>} ** File
Zipped == Opt({<<"IN", "ZIPFILE">>} ** File)
Described == Opt(One({"DESCRIP", "DESCRIPTION"}) ** {<<T>>})
JsonSchema == {<<"AS">>} ** One({"JSON_TS", "JSON_TABLESCHEMA"}) ** Opt({<<"NOTYPE">>})
NewTable == Opt(One({"NEW", "REPLACEMENT"}))
Skip == Opt({<<"SKIP", N>>})
Encoding == Opt({<<"ENCODING", V>>})
Delimited == {<<"QUOTE", V, "DELIMITER", V>>}
Display == Opt({<<"DISPLAY", V>>})
Help == Opt({<<"HELP", V>>})
InAlias == Opt({<<"IN", V>>})
Login == Opt({<<"USER", V, "NEED_PWD">>} ** One({"TRUE", "FALSE"}))
Port == Opt({<<"PORT", N>>})
Password == Opt({<<"PASSWORD", V>>})
Alias == {<<"AS", V>>}
Server == {<<"SERVER", V, "DB", V>>}
Message == Opt(Opt({<<"MESSAGE">>}) ** {<<T>>})
Called == Opt({<<"IF", "EXISTS">>}) ** {<<V>>}
  ** Opt(Opt({<<"WITH">>}) ** Opt(One({"ARG", "ARGS", "ARGUMENT", "ARGUMENTS"})) ** {<<V>>})
  ** Opt(One({"WHILE", "UNTIL"}) ** {<<Rest>>})
Emailed == {<<"EMAIL", "FROM", V, "TO", V, "SUBJECT", T, "MESSAGE", T>>}
  ** Opt({<<"MESSAGE_FILE", T>>}) ** Opt(One({"ATTACH_FILE", "ATTACHMENT_FILE"}) ** {<<T>>})
Timeout == Opt(One({"HALT", "CONTINUE"}) ** {<<"AFTER", N>>} ** One({"SECONDS", "MINUTES"}))
Compared == {<<"COMPARE", V>>} ** InAlias ** One({"AND", "BESIDE"}) ** {<<V>>} ** InAlias
  ** One({"PK", "KEY"}) ** {<<V>>}

QueryFormats == {"CSV", "TAB", "TSV", "TABQ", "TSVQ", "UNITSEP", "US", "TXT", "TXT-AND", "PLAIN",
  "ODS", "XLSX", "JSON", "JSONL", "HTML", "CGI-HTML", "VALUES", "LATEX", "RAW", "B64", "FEATHER",
  "YAML", "MARKDOWN", "MD", "PARQUET"}
TableFormats == (QueryFormats \ {"ODS"}) \cup {"XML", "SQLITE", "DUCKDB", "HDF5"}
ServeFormats == {"BINARY", "CSV", "TXT", "TEXT", "ODS", "JSON", "HTML", "PDF", "ZIP"}
MetadataFormats == {"CSV", "TAB", "TSV", "TABQ", "TSVQ", "TXT", "TEXT"}

-----------------------------------------------------------------------------
(* The rows. *)

DebugRows == <<
  Row("DEBUG", "debug_write_metacommands", {<<"DEBUG", "WRITE", "METACOMMANDLIST", "TO", V>>}),
  Row("DEBUG", "debug_commandliststack", {<<"DEBUG", "WRITE", "COMMANDLISTSTACK">>}),
  Row("DEBUG", "debug_iflevels", {<<"DEBUG", "WRITE", "IFLEVELS">>}),
  Row("DEBUG", "debug_write_odbc_drivers", {<<"DEBUG", "WRITE", "ODBC_DRIVERS">>} ** AppendTo),
  Row("DEBUG", "debug_log_subvars", {<<"DEBUG", "LOG">>} ** Opt({<<"LOCAL">>}) ** Opt({<<"USER">>}) ** {<<"SUBVARS">>}),
  Row("DEBUG", "debug_log_config", {<<"DEBUG", "LOG", "CONFIG">>}),
  Row("DEBUG", "debug_write_subvars",
      {<<"DEBUG", "WRITE">>} ** Opt({<<"LOCAL">>}) ** Opt({<<"USER">>}) ** {<<"SUBVARS">>} ** AppendTo),
  Row("DEBUG", "debug_write_config", {<<"DEBUG", "WRITE", "CONFIG">>} ** AppendTo),
  Row("SERVE", "serve", {<<"SERVE", V, "AS">>} ** One(ServeFormats)),
  Row("RESET", "reset_dialog_canceled", {<<"RESET", "DIALOG_CANCELED">>}),
  Row("SUB_QUERYSTRING", "sub_querystring", {<<"SUB_QUERYSTRING", Rest>>}),
  Row("BREAK", "break", {<<"BREAK">>}) >>

ExportRows == <<
  Row("EXPORT", "export_query", {<<"EXPORT", "QUERY", Rest>>} ** Output ** Zipped ** {<<"AS">>} ** One(QueryFormats) ** Described),
  Row("EXPORT", "export_query", {<<"EXPORT", "QUERY", Rest>>} ** Output ** JsonSchema ** Described),
  Row("EXPORT", "export_query_with_template", {<<"EXPORT", "QUERY", Rest>>} ** Output ** Zipped ** {<<"WITH", "TEMPLATE", V>>}),
  Row("EXPORT", "export_with_template", {<<"EXPORT", V>>} ** Output ** Zipped ** {<<"WITH", "TEMPLATE", V>>}),
  Row("EXPORT", "export", {<<"EXPORT", V>>} ** Output ** Zipped ** {<<"AS">>} ** One(TableFormats) ** Described),
  Row("EXPORT", "export", {<<"EXPORT", V>>} ** Output ** Zipped ** JsonSchema ** Described),
  Row("EXPORT", "export_ods_multiple", {<<"EXPORT", V>>} ** Output ** {<<"AS", "ODS">>} ** Described),
  Row("EXPORT", "export_xlsx_multiple", {<<"EXPORT", V>>} ** Output ** {<<"AS", "XLSX">>} ** Described) >>

ImportRows == <<
  Row("IMPORT_FILE", "import_file", {<<"IMPORT_FILE", "TO", "TABLE", V, "COLUMN", V, "FROM", V>>}),
  Row("", "import_ods_pattern", {<<"IMPORT", "TO">>} ** NewTable ** {<<"TABLES", "IN">>} ** Opt({<<"SCHEMA">>})
      ** {<<V, "FROM", V, "SHEETS", "MATCHING", V>>} ** Skip),
  Row("CD", "cd", {<<"CD", Rest>>}),
  Row("IMPORT", "import_ods", {<<"IMPORT", "TO">>} ** NewTable ** {<<V, "FROM", V, "SHEET", V>>} ** Skip),
  Row("", "import_xls_pattern", {<<"IMPORT", "TO">>} ** NewTable ** {<<"TABLES", "IN">>} ** Opt({<<"SCHEMA">>})
      ** {<<V, "FROM", "EXCEL", V, "SHEETS", "MATCHING", V>>} ** Skip ** Encoding),
  Row("IMPORT", "import_xls", {<<"IMPORT", "TO">>} ** NewTable ** {<<V, "FROM", "EXCEL", V, "SHEET", V>>} ** Skip ** Encoding),
  Row("IMPORT", "import_parquet", {<<"IMPORT", "TO">>} ** NewTable ** {<<V, "FROM", "PARQUET", V>>}),
  Row("IMPORT", "import_feather", {<<"IMPORT", "TO">>} ** NewTable ** {<<V, "FROM", "FEATHER", V>>}),
  Row("IMPORT", "import_json", {<<"IMPORT", "TO">>} ** NewTable ** {<<V, "FROM", "JSON", V>>}) >>

ChoiceRows == <<
  Row("PROMPT", "prompt_action", {<<"PROMPT", "ACTION", V, "MESSAGE", T>>} ** Display ** Opt({<<"COMPACT", N>>})
      ** Opt({<<"CONTINUE">>}) ** Help),
  Row("PROMPT", "prompt_savefile", {<<"PROMPT", "SAVEFILE", "SUB", V>>}
      ** Opt({<<V>>}) ** Opt({<<V>>}) ** Opt({<<V>>}) ** Opt({<<V>>}) ** Opt({<<"FROM", V>>})),
  Row("PROMPT", "prompt_openfile", {<<"PROMPT", "OPENFILE", "SUB", V>>}
      ** Opt({<<V>>}) ** Opt({<<V>>}) ** Opt({<<V>>}) ** Opt({<<V>>}) ** Opt({<<"FROM", V>>})),
  Row("PROMPT", "prompt_directory", {<<"PROMPT", "DIRECTORY", "SUB", V>>} ** Opt({<<"FULLPATH">>}) ** Opt({<<"FROM", V>>})),
  Row("PROMPT", "prompt_select_rows", {<<"PROMPT", "SELECT_ROWS", "FROM", V>>} ** InAlias ** {<<"INTO", V>>} ** InAlias
      ** Help ** {<<"MESSAGE", T>>}),
  Row("SUB_LOCAL", "sub_local", {<<"SUB_LOCAL", V, Rest>>}),
  Row("SUB_ENCRYPT", "sub_encrypt", {<<"SUB_ENCRYPT", V, Rest>>}),
  Row("SUB_DECRYPT", "sub_decrypt", {<<"SUB_DECRYPT", V, Rest>>}),
  Row("WAIT_UNTIL", "wait_until", {<<"WAIT_UNTIL", Rest>>} ** One({"HALT", "CONTINUE"}) ** {<<"AFTER", N, "SECONDS">>}) >>

(* CONFIG <option> YES|NO, with its older form without CONFIG where there is one. *)
Switched(handler, option) == Row("CONFIG", handler, {<<"CONFIG", option, "yes/no">>})
Unprefixed(handler, option) == Row(option, handler, {<<option, "yes/no">>})
Numbered(handler, option) == Row("CONFIG", handler, {<<"CONFIG", option, N>>})

ConfigRows == <<
  Unprefixed("logwritemessages", "LOG_WRITE_MESSAGES"), Switched("logwritemessages", "LOG_WRITE_MESSAGES"),
  Switched("quote_all_text", "QUOTE_ALL_TEXT"), Numbered("max_int", "MAX_INT"),
  Numbered("input_limit", "ODS_MAX_XML_MB"), Numbered("input_limit", "ODS_MAX_COMPRESSION_RATIO"),
  Numbered("input_limit", "IMPORT_MAX_ROWS"), Numbered("input_limit", "IMPORT_MAX_COLUMNS"),
  Numbered("input_limit", "IMPORT_MAX_CELLS"), Numbered("input_limit", "IMPORT_MAX_CELL_CHARS"),
  Numbered("input_limit", "IMPORT_MAX_TEXT_CHARS"), Numbered("import_row_buffer", "IMPORT_ROW_BUFFER"),
  Switched("show_progress", "SHOW_PROGRESS"), Numbered("export_row_buffer", "EXPORT_ROW_BUFFER"),
  Numbered("zip_buffer_mb", "ZIP_BUFFER_MB"), Unprefixed("empty_strings", "EMPTY_STRINGS"),
  Switched("empty_strings", "EMPTY_STRINGS"), Unprefixed("trim_strings", "TRIM_STRINGS"),
  Switched("trim_strings", "TRIM_STRINGS"), Switched("replace_newlines", "REPLACE_NEWLINES"),
  Switched("empty_rows", "EMPTY_ROWS"), Switched("exact_decimals", "EXACT_DECIMALS"),
  Switched("only_strings", "ONLY_STRINGS"),
  Row("", "boolean_int", Opt({<<"CONFIG">>}) ** {<<"BOOLEAN_INT", "yes/no">>}),
  Unprefixed("boolean_words", "BOOLEAN_WORDS"), Switched("boolean_words", "BOOLEAN_WORDS"),
  Row("CONFIG", "fold_col_hdrs", {<<"CONFIG", "FOLD_COLUMN_HEADERS">>} ** One({"NO", "LOWER", "UPPER"})),
  Row("CONFIG", "trim_col_hdrs", {<<"CONFIG", "TRIM_COLUMN_HEADERS">>} ** One({"NONE", "BOTH", "LEFT", "RIGHT"})),
  Unprefixed("clean_col_hdrs", "CLEAN_COLUMN_HEADERS"), Switched("clean_col_hdrs", "CLEAN_COLUMN_HEADERS") >>

MoreConfigRows == <<
  Switched("del_empty_cols", "DELETE_EMPTY_COLUMNS"), Switched("create_col_hdrs", "CREATE_COLUMN_HEADERS"),
  Switched("dedup_col_hdrs", "DEDUP_COLUMN_HEADERS"),
  Unprefixed("import_common_cols_only", "IMPORT_ONLY_COMMON_COLUMNS"),
  Unprefixed("import_common_cols_only", "IMPORT_COMMON_COLUMNS_ONLY"),
  Switched("import_common_cols_only", "IMPORT_ONLY_COMMON_COLUMNS"),
  Unprefixed("make_export_dirs", "MAKE_EXPORT_DIRS"), Switched("make_export_dirs", "MAKE_EXPORT_DIRS"),
  Unprefixed("write_warnings", "WRITE_WARNINGS"), Switched("write_warnings", "WRITE_WARNINGS"),
  Numbered("gui_level", "GUI_LEVEL"),
  Row("CONFIG", "write_prefix", {<<"CONFIG", "WRITE_PREFIX", Rest>>}),
  Row("CONFIG", "write_suffix", {<<"CONFIG", "WRITE_SUFFIX", Rest>>}),
  Numbered("scan_lines", "SCAN_LINES"), Numbered("hdf5_text_len", "HDF5_TEXT_LEN"),
  Switched("log_datavars", "LOG_DATAVARS"), Switched("log_sql", "LOG_SQL"),
  Numbered("daoflushdelay", "DAO_FLUSH_DELAY_SECS"),
  Row("CONSOLE", "consolewait_onerror", {<<"CONSOLE", "WAIT_WHEN_ERROR", "yes/no">>}),
  Row("CONFIG", "consolewait_onerror", {<<"CONFIG", "CONSOLE", "WAIT_WHEN_ERROR", "yes/no">>}),
  Row("CONSOLE", "consolewait_whendone", {<<"CONSOLE", "WAIT_WHEN_DONE", "yes/no">>}),
  Row("CONFIG", "consolewait_whendone", {<<"CONFIG", "CONSOLE", "WAIT_WHEN_DONE", "yes/no">>}) >>

ConnectRows == <<
  Row("CONNECT", "connect_access", {<<"CONNECT", "TO", "ACCESS", "FILE", V>>} ** Opt({<<"NEED_PWD">>} ** One({"TRUE", "FALSE"}))
      ** Password ** Encoding ** Alias),
  Row("CONNECT", "connect_user_fb", {<<"CONNECT", "USER", "TO", "FIREBIRD">>} ** Server ** Port ** Encoding ** Alias),
  Row("CONNECT", "connect_fb", {<<"CONNECT", "TO", "FIREBIRD">>} ** Server ** Login ** Port ** Encoding ** Alias),
  Row("CONNECT", "connect_user_ora", {<<"CONNECT", "USER", "TO", "ORACLE">>} ** Server ** Port ** Encoding ** Alias),
  Row("CONNECT", "connect_ora", {<<"CONNECT", "TO", "ORACLE">>} ** Server ** Login ** Port ** Password ** Encoding ** Alias),
  Row("EXEC", "executescript", One({"EXEC", "EXECUTE"}) ** {<<"SCRIPT">>} ** Called),
  Row("RUN", "executescript", {<<"RUN", "SCRIPT">>} ** Called),
  Row("", "execute", One({"RUN", "EXECUTE"}) ** {<<V>>}) >>

(* ON ERROR_HALT and ON CANCEL_HALT take the same clauses. *)
OnHalt(event, write_clear, write, email_clear, email, exec_clear, exec) == <<
  Row("ON", write_clear, {<<"ON", event, "WRITE", "CLEAR">>}),
  Row("ON", write, {<<"ON", event, "WRITE", T>>} ** TeeTo),
  Row("ON", email_clear, {<<"ON", event, "EMAIL", "CLEAR">>}),
  Row("ON", email, {<<"ON", event>>} ** Emailed),
  Row("ON", exec_clear, {<<"ON", event, "EXEC", "CLEAR">>}),
  Row("ON", exec, {<<"ON", event>>} ** One({"EXEC", "EXECUTE"}) ** {<<"SCRIPT">>} ** Called) >>

OnHaltRows ==
  OnHalt("ERROR_HALT", "error_halt_write_clear", "error_halt_write", "error_halt_email_clear",
         "error_halt_email", "error_halt_exec_clear", "error_halt_exec")
  \o OnHalt("CANCEL_HALT", "cancel_halt_write_clear", "cancel_halt_write", "cancel_halt_email_clear",
            "cancel_halt_email", "cancel_halt_exec_clear", "cancel_halt_exec")

Commented == Opt({<<"COMMENT", T>>}) ** Opt({<<"TO", V>>})

CreateTableRows == <<
  Row("SUB_TEMPFILE", "sub_tempfile", {<<"SUB_TEMPFILE", V>>}),
  Row("WRITE", "write_create_table_ods", {<<"WRITE", "CREATE_TABLE", V, "FROM", V, "SHEET", V>>} ** Skip ** Commented),
  Row("WRITE", "write_create_table_xls", {<<"WRITE", "CREATE_TABLE", V, "FROM", "EXCEL", V, "SHEET", V>>}
      ** Skip ** Encoding ** Commented),
  Row("WRITE", "write_create_table_alias", {<<"WRITE", "CREATE_TABLE", V, "FROM", V, "IN", V>>} ** Commented),
  Row("WRITE", "write_create_table", {<<"WRITE", "CREATE_TABLE", V, "FROM", V>>} ** Opt({<<"WITH">>} ** Delimited)
      ** Encoding ** Skip ** Commented),
  Row("RESET", "reset_counter", {<<"RESET", "COUNTER", N>>}),
  Row("RESET", "reset_counters", {<<"RESET", "COUNTERS">>}),
  Row("SET", "set_counter", {<<"SET", "COUNTER", N, "TO", N>>}),
  Row("PROMPT", "prompt_credentials", {<<"PROMPT">>} ** Message ** {<<"CREDENTIALS", V, V>>}),
  Row("PROMPT", "prompt_connect", {<<"PROMPT">>} ** Message ** {<<"CONNECT", "AS", V>>} ** Help),
  Row("CONNECT", "prompt_connect", {<<"CONNECT", "PROMPT">>} ** Message ** {<<"AS", V>>} ** Help) >>

ConsoleRows == <<
  Row("TIMER", "timer", {<<"TIMER">>} ** One({"ON", "OFF"})),
  Row("LOG", "log", {<<"LOG", T>>}),
  Row("SUB_INI", "sub_ini", {<<"SUB_INI">>} ** Opt({<<"FILE">>}) ** {<<V>>} ** Opt({<<"SECTION">>}) ** {<<V>>}),
  Row("CONSOLE", "console_hideshow", {<<"CONSOLE">>} ** One({"HIDE", "SHOW"})),
  Row("CONSOLE", "consolewidth", {<<"CONSOLE", "WIDTH", N>>}),
  Row("CONSOLE", "consoleheight", {<<"CONSOLE", "HEIGHT", N>>}),
  Row("CONSOLE", "consolestatus", {<<"CONSOLE", "STATUS", T>>}),
  Row("CONSOLE", "consolesave", {<<"CONSOLE", "SAVE">>} ** Opt({<<"APPEND">>}) ** {<<"TO", V>>}),
  Row("CONSOLE", "consolewait", {<<"CONSOLE", "WAIT">>} ** Opt({<<T>>})),
  Row("CONSOLE", "consoleprogress", {<<"CONSOLE", "PROGRESS", N>>} ** Opt({<<N>>})),
  Row("CONSOLE", "console", {<<"CONSOLE">>} ** One({"ON", "OFF"})),
  Row("DISCONNECT", "disconnect", {<<"DISCONNECT">>} ** Opt(Opt({<<"FROM">>}) ** {<<V>>})),
  Row("AUTOCOMMIT", "autocommit_off", {<<"AUTOCOMMIT", "OFF">>}),
  Row("AUTOCOMMIT", "autocommit_on", {<<"AUTOCOMMIT", "ON">>} ** Opt({<<"WITH">>} ** One({"COMMIT", "ROLLBACK"}))),
  Row("", "writescript", Opt({<<"DEBUG">>}) ** {<<"WRITE", "SCRIPT", V>>} ** AppendTo),
  Row("MAX_INT", "max_int", {<<"MAX_INT", N>>}),
  Row("PG_VACUUM", "pg_vacuum", {<<"PG_VACUUM">>} ** Opt({<<Rest>>})),
  Row("ZIP", "zip", {<<"ZIP", V>>} ** Opt({<<"APPEND">>}) ** {<<"TO", "ZIPFILE", V>>}) >>

ControlRows == <<
  Row("HALT", "halt", {<<"HALT">>} ** Opt({<<"MESSAGE">>}) ** Opt({<<T>>} ** Tee) ** Opt({<<"EXIT_STATUS", N>>})),
  Row("HALT", "halt_msg", {<<"HALT">>} ** Opt({<<"MESSAGE">>}) ** {<<T>>} ** Tee ** Display ** Opt({<<"EXIT_STATUS", N>>})),
  Row("BEGIN", "begin_batch", {<<"BEGIN", "BATCH">>}),
  Row("END", "end_batch", {<<"END", "BATCH">>}),
  Row("ROLLBACK", "rollback", {<<"ROLLBACK">>} ** Opt({<<"BATCH">>})),
  Row("", "error_halt", {<<"ERROR_HALT", "switch">>}),
  Row("", "metacommand_error_halt", {<<"METACOMMAND_ERROR_HALT", "switch">>}),
  Row("CANCEL_HALT", "cancel_halt", {<<"CANCEL_HALT", "switch">>}),
  Row("LOOP", "loop", {<<"LOOP">>} ** One({"WHILE", "UNTIL"}) ** {<<Rest>>}),
  Row("PAUSE", "pause", {<<"PAUSE", T>>} ** Timeout),
  Row("PROMPT", "prompt_enter", {<<"PROMPT", "ENTER_SUB", V>>} ** Opt({<<"PASSWORD">>}) ** {<<"MESSAGE", T>>} ** Display
      ** Opt({<<"TYPE">>} ** One({"INT", "FLOAT", "BOOL", "IDENT"})) ** Opt(One({"LCASE", "UCASE"}))
      ** Opt({<<"INITIALLY", T>>}) ** Help),
  Row("PROMPT", "prompt_entryform", {<<"PROMPT", "ENTRY_FORM", V>>} ** Help ** {<<"MESSAGE", T>>} ** Display) >>

PromptRows == <<
  Row("PROMPT", "prompt_selectsub", {<<"PROMPT", "SELECT_SUB", V, "MESSAGE", T>>} ** Opt({<<"CONTINUE">>}) ** Help),
  Row("PROMPT", "prompt_pause", {<<"PROMPT", "PAUSE", T>>} ** Timeout),
  Row("ASK", "ask", {<<"ASK", T, "SUB", V>>}),
  Row("PROMPT", "prompt_compare", {<<"PROMPT">>} ** Compared ** Help ** {<<"MESSAGE", T>>}),
  Row("PROMPT", "prompt_compare", {<<"PROMPT">>} ** Compared ** {<<"MESSAGE", T, "HELP", V>>}),
  Row("PROMPT", "prompt_ask_compare", {<<"PROMPT", "ASK", T, "SUB", V>>} ** Compared ** Help),
  Row("PROMPT", "prompt_map", {<<"PROMPT", "MESSAGE", T, "MAP", V, "LAT", V, "LON", V>>}
      ** Opt({<<"LABEL", V>>}) ** Opt({<<"COLOR", V>>}) ** Opt({<<"SYMBOL", V>>})),
  Row("EMAIL", "email", Emailed) >>

ScriptRows == <<
  Row("EXPORT_METADATA", "export_metadata", {<<"EXPORT_METADATA">>} ** Opt({<<"APPEND">>}) ** Opt({<<"ALL">>}) ** {<<"TO", V>>}
      ** Zipped ** {<<"AS">>} ** One(MetadataFormats)),
  Row("EXPORT_METADATA", "export_metadata_table", {<<"EXPORT_METADATA">>} ** Opt({<<"ALL">>}) ** {<<"INTO">>} ** NewTable ** {<<"TABLE", V>>}),
  Row("SUB_EMPTY", "sub_empty", {<<"SUB_EMPTY", V>>}),
  Row("SUB_ADD", "sub_add", {<<"SUB_ADD", V, N>>}),
  Row("SUB_APPEND", "sub_append", {<<"SUB_APPEND", V>>} ** Opt({<<Rest>>})),
  Row("ASSERT", "assert", {<<"ASSERT", Rest>>}),
  Row("ASSERT", "assert", {<<"ASSERT", Rest, T>>}),
  Row("BREAKPOINT", "breakpoint", {<<"BREAKPOINT">>}),
  Row("SHOW", "show_scripts", {<<"SHOW", "SCRIPTS">>} ** Opt({<<V>>})),
  Row("ORIF", "if_orif", {<<"ORIF(", Rest>>}),
  Row("ELSEIF", "if_elseif", {<<"ELSEIF(", Rest>>}),
  Row("ANDIF", "if_andif", {<<"ANDIF(", Rest>>}),
  Row("ELSE", "if_else", {<<"ELSE">>}),
  Row("IF", "if", {<<"IF(", Rest, "{", Rest>>}),
  Row("IF", "if_block", {<<"IF(", Rest>>}),
  Row("ENDIF", "if_end", {<<"ENDIF">>}) >>

CopyRows == <<
  Row("CONNECT", "connect_user_ssvr", {<<"CONNECT", "USER", "TO", "SQLSERVER">>} ** Server ** Port ** Encoding ** Alias),
  Row("CONNECT", "connect_ssvr", {<<"CONNECT", "TO", "SQLSERVER">>} ** Server ** Login ** Port ** Password ** Encoding ** Alias),
  Row("COPY", "copy_query", {<<"COPY", "QUERY", Rest, "FROM", V, "TO">>} ** NewTable ** {<<V, "IN", V>>}),
  Row("COPY", "copy", {<<"COPY", V, "FROM", V, "TO">>} ** NewTable ** {<<V, "IN", V>>}),
  Row("", "extendscript", {<<"EXTEND", "SCRIPT", V, "WITH", "SCRIPT", V>>}),
  Row("", "extendscript", {<<"APPEND", "SCRIPT", V, "TO", V>>}),
  Row("", "extendscript_metacommand", {<<"EXTEND", "SCRIPT", V, "WITH", "METACOMMAND", Rest>>}),
  Row("", "extendscript_sql", {<<"EXTEND", "SCRIPT", V, "WITH", "SQL", Rest>>}),
  Row("CONNECT", "connect_duckdb", {<<"CONNECT", "TO", "DUCKDB", "FILE", V>>} ** Opt({<<"NEW">>}) ** Alias),
  Row("CONNECT", "connect_sqlite", {<<"CONNECT", "TO", "SQLITE", "FILE", V>>} ** Opt({<<"NEW">>}) ** Alias) >>

LateRows == <<
  Row("CONNECT", "connect_user_pg", {<<"CONNECT", "USER", "TO", "POSTGRESQL">>} ** Server ** Port ** Encoding ** Alias),
  Row("CONNECT", "connect_pg", {<<"CONNECT", "TO", "POSTGRESQL">>} ** Server ** Login ** Port ** Password ** Encoding
      ** Opt({<<"NEW">>}) ** Alias),
  Row("CONNECT", "connect_user_mysql", {<<"CONNECT", "USER", "TO">>} ** One({"MYSQL", "MARIADB"}) ** Server ** Port ** Encoding ** Alias),
  Row("CONNECT", "connect_mysql", {<<"CONNECT", "TO">>} ** One({"MYSQL", "MARIADB"}) ** Server ** Login ** Port ** Password
      ** Encoding ** Alias),
  Row("CONNECT", "connect_dsn", {<<"CONNECT", "TO", "DSN", "DSN", V>>} ** Login ** Password ** Encoding ** Alias),
  Row("USE", "use", {<<"USE", V>>}),
  Row("SYSTEM_CMD", "system_cmd", {<<"SYSTEM_CMD", Rest>>} ** Opt({<<"CONTINUE">>})),
  Row("INCLUDE", "include", {<<"INCLUDE">>} ** Opt({<<"IF">>} ** One({"EXIST", "EXISTS"})) ** {<<V>>}),
  Row("IMPORT", "import", {<<"IMPORT", "TO">>} ** NewTable ** {<<V, "FROM", V>>} ** Opt({<<"WITH">>}) ** Opt(Delimited)
      ** Encoding ** Skip),
  Row("RM_FILE", "rm_file", {<<"RM_FILE", Rest>>}),
  Row("RM_SUB", "rm_sub", {<<"RM_SUB", V>>}),
  Row("SELECT_SUB", "selectsub", {<<"SELECT_SUB", Rest>>}),
  Row("SUBDATA", "subdata", {<<"SUBDATA", V, Rest>>}) >>

LastRows == <<
  Row("PROMPT", "prompt_ask", {<<"PROMPT", "ASK", T, "SUB", V>>} ** Display ** Help),
  Row("PROMPT", "prompt", {<<"PROMPT", "MESSAGE", T, "DISPLAY", V>>} ** Help),
  Row("PROMPT", "prompt", {<<"PROMPT", "DISPLAY", V, "MESSAGE", T>>} ** Help),
  Row("PROMPT", "msg", {<<"PROMPT">>} ** Opt({<<"MESSAGE">>}) ** {<<T>>}),
  Row("WRITE", "write", {<<"WRITE", T>>} ** TeeTo),
  Row("PG_UPSERT", "pg_upsert_check", {<<"PG_UPSERT", "CHECK", "FROM", V, "TO", V, "TABLES", Rest>>}),
  Row("PG_UPSERT", "pg_upsert_qa", {<<"PG_UPSERT", "QA", "FROM", V, "TO", V, "TABLES", Rest>>}),
  Row("PG_UPSERT", "pg_upsert", {<<"PG_UPSERT", "FROM", V, "TO", V, "TABLES", Rest>>}),
  Row("SUB", "sub", {<<"SUB", V, Rest>>}) >>

(* build_dispatch_table *)
Table == DebugRows \o ExportRows \o ImportRows \o ChoiceRows \o ConfigRows \o MoreConfigRows \o ConnectRows
  \o OnHaltRows \o CreateTableRows \o ConsoleRows \o ControlRows \o PromptRows \o ScriptRows \o CopyRows
  \o LateRows \o LastRows
=============================================================================
