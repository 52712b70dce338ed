--------------------------- MODULE MetacommandForms ---------------------------
(***************************************************************************)
(* The syntax that the reference promises for each metacommand             *)
(* (metacommands/reference.py), in the notation of MetacommandTable: here  *)
(* each sequence is one way to write the command, "value", "text" and      *)
(* "number" standing for what a script's author puts in.                   *)
(*                                                                         *)
(* Left out: BEGIN and END SCRIPT and SQL, which the parser takes before   *)
(* the table is asked, the examples among the forms, IF with a command on  *)
(* the same line, and HALT DISPLAY without a message, which no row takes.  *)
(* A list is one value, a format is CSV, and stdout is a file.              *)
(***************************************************************************)
EXTENDS MetacommandTable

YesNo == One({"YES", "NO"})
OnOff == One({"ON", "OFF"})
Option(names, answer) == {<<"CONFIG">>} ** One(names) ** answer
LoggedIn == Opt({<<"USER", V, "NEED_PWD">>} ** One({"TRUE", "FALSE"}))
After == Opt(One({"HALT", "CONTINUE"}) ** {<<"AFTER", N>>} ** One({"MINUTES", "SECONDS"}))

FormsAToConfig ==
  One({"BREAK", "BREAKPOINT"})
  \cup {<<"ANDIF(", V>>, <<"APPEND", "SCRIPT", V, "TO", V>>, <<"ASK", T, "SUB", V>>, <<"ASSERT", V>>, <<"ASSERT", V, T>>,
        <<"AUTOCOMMIT", "OFF">>, <<"BEGIN", "BATCH">>, <<"CD", V>>}
  \cup {<<"AUTOCOMMIT", "ON">>} ** Opt({<<"WITH">>} ** One({"COMMIT", "ROLLBACK"}))
  \cup {<<"CANCEL_HALT">>} ** OnOff

ConfigForms ==
  Option({"BOOLEAN_INT", "BOOLEAN_WORDS", "CLEAN_COLUMN_HEADERS", "CREATE_COLUMN_HEADERS", "DEDUP_COLUMN_HEADERS",
          "DELETE_EMPTY_COLUMNS", "EMPTY_ROWS", "EMPTY_STRINGS", "EXACT_DECIMALS", "LOG_DATAVARS", "LOG_SQL",
          "LOG_WRITE_MESSAGES", "MAKE_EXPORT_DIRS", "ONLY_STRINGS", "QUOTE_ALL_TEXT", "REPLACE_NEWLINES",
          "SHOW_PROGRESS", "TRIM_STRINGS", "WRITE_WARNINGS"}, YesNo)
  \cup Option({"DAO_FLUSH_DELAY_SECS", "EXPORT_ROW_BUFFER", "GUI_LEVEL", "HDF5_TEXT_LEN", "IMPORT_ROW_BUFFER",
               "ODS_MAX_XML_MB", "ODS_MAX_COMPRESSION_RATIO", "IMPORT_MAX_ROWS", "IMPORT_MAX_COLUMNS",
               "IMPORT_MAX_CELLS", "IMPORT_MAX_CELL_CHARS", "IMPORT_MAX_TEXT_CHARS", "MAX_INT", "SCAN_LINES",
               "ZIP_BUFFER_MB"}, {<<N>>})
  \cup {<<"CONFIG", "CONSOLE">>} ** One({"WAIT_WHEN_DONE", "WAIT_WHEN_ERROR"}) ** YesNo
  \cup Option({"FOLD_COLUMN_HEADERS"}, One({"NO", "LOWER", "UPPER"}))
  \cup Option({"TRIM_COLUMN_HEADERS"}, One({"NONE", "BOTH", "LEFT", "RIGHT"}))
  \cup Option({"WRITE_PREFIX", "WRITE_SUFFIX"}, {<<V>>})

ConnectForms ==
  {<<"CONNECT", "TO", "POSTGRESQL">>} ** Server ** LoggedIn ** Port ** Password ** Encoding ** Opt({<<"NEW">>}) ** Alias
  \cup {<<"CONNECT", "USER", "TO">>} ** One({"POSTGRESQL", "SQLSERVER", "MYSQL", "MARIADB", "FIREBIRD", "ORACLE"}) ** Server
       ** Port ** Encoding ** Alias
  \cup {<<"CONNECT", "TO">>} ** One({"SQLITE", "DUCKDB"}) ** {<<"FILE", V>>} ** Opt({<<"NEW">>}) ** Alias
  \cup {<<"CONNECT", "TO", "ACCESS", "FILE", V>>} ** Opt({<<"NEED_PWD">>} ** One({"TRUE", "FALSE"})) ** Password ** Encoding ** Alias
  \cup {<<"CONNECT", "TO">>} ** One({"SQLSERVER", "MYSQL", "MARIADB", "ORACLE"}) ** Server ** LoggedIn ** Port ** Password
       ** Encoding ** Alias
  \cup {<<"CONNECT", "TO", "FIREBIRD">>} ** Server ** LoggedIn ** Port ** Encoding ** Alias
  \cup {<<"CONNECT", "TO", "DSN", "DSN", V>>} ** LoggedIn ** Password ** Encoding ** Alias

ConsoleToEmailForms ==
  {<<"CONSOLE">>} ** One({"ON", "OFF", "HIDE", "SHOW"}) \cup {<<"CONSOLE">>} ** One({"HEIGHT", "WIDTH"}) ** {<<N>>}
  \cup {<<"CONSOLE", "STATUS", T>>} \cup {<<"CONSOLE", "PROGRESS", N>>} ** Opt({<<N>>})
  \cup {<<"CONSOLE", "SAVE">>} ** Opt({<<"APPEND">>}) ** {<<"TO", V>>} \cup {<<"CONSOLE", "WAIT">>} ** Opt({<<T>>})
  \cup {<<"COPY", V, "FROM", V, "TO">>, <<"COPY", "QUERY", V, "FROM", V, "TO">>} ** NewTable ** {<<V, "IN", V>>}
  \cup {<<"DEBUG", "LOG">>} ** Opt({<<"LOCAL">>}) ** Opt({<<"USER">>}) ** {<<"SUBVARS">>} \cup {<<"DEBUG", "LOG", "CONFIG">>}
  \cup {<<"DEBUG", "WRITE">>} ** Opt({<<"LOCAL">>}) ** Opt({<<"USER">>}) ** {<<"SUBVARS">>} ** AppendTo
  \cup {<<"DEBUG", "WRITE">>} ** One({"CONFIG", "ODBC_DRIVERS"}) ** AppendTo
  \cup {<<"DEBUG", "WRITE", "METACOMMANDLIST", "TO", V>>, <<"DEBUG", "WRITE", "COMMANDLISTSTACK">>, <<"DEBUG", "WRITE", "IFLEVELS">>}
  \cup {<<"DISCONNECT">>} ** Opt(Opt({<<"FROM">>}) ** {<<V>>})
  \cup {<<"ELSE">>, <<"ELSEIF(", V>>} \cup {<<"EMAIL", "FROM", V, "TO", V, "SUBJECT", T, "MESSAGE", T>>}
       ** Opt({<<"MESSAGE_FILE", T>>}) ** Opt({<<"ATTACH_FILE", T>>})

EndToImportForms ==
  {<<"END", "BATCH">>, <<"ENDIF">>, <<"IF(", V>>} \cup {<<"ERROR_HALT">>} ** OnOff
  \cup {<<"EXECUTE", "SCRIPT">>} ** Opt({<<"IF", "EXISTS">>}) ** {<<V>>} ** Opt({<<"WITH", "ARGUMENTS", V>>})
       ** Opt(One({"WHILE", "UNTIL"}) ** {<<V>>})
  \cup {<<"EXPORT", V>>, <<"EXPORT", "QUERY", V>>} ** Output ** Zipped ** ({<<"AS", "CSV">>} ** Opt({<<"DESCRIPTION", T>>}) \cup {<<"WITH", "TEMPLATE", V>>})
  \cup {<<"EXPORT_METADATA">>} ** Opt({<<"APPEND">>}) ** Opt({<<"ALL">>}) ** {<<"TO", V>>} ** Zipped ** {<<"AS", "CSV">>}
  \cup {<<"EXPORT_METADATA">>} ** Opt({<<"ALL">>}) ** {<<"INTO">>} ** NewTable ** {<<"TABLE", V>>}
  \cup {<<"EXTEND", "SCRIPT", V, "WITH">>} ** One({"SQL", "METACOMMAND", "SCRIPT"}) ** {<<V>>}
  \cup {<<"HALT">>} ** Opt(Opt({<<"MESSAGE">>}) ** {<<T>>} ** Opt({<<"TEE", "TO", V>>}) ** Display) ** Opt({<<"EXIT_STATUS", N>>})

ImportForms ==
  {<<"IMPORT", "TO">>} ** NewTable ** {<<V, "FROM", V>>} ** Opt({<<"WITH">>} ** Opt(Delimited) ** Encoding) ** Skip
  \cup {<<"IMPORT", "TO">>} ** NewTable ** {<<V, "FROM", V, "SHEET", V>>} ** Skip
  \cup {<<"IMPORT", "TO">>} ** NewTable ** {<<"TABLES", "IN">>} ** Opt({<<"SCHEMA">>}) ** {<<V, "FROM", V, "SHEETS", "MATCHING", V>>} ** Skip
  \cup {<<"IMPORT", "TO">>} ** NewTable ** {<<V, "FROM", "EXCEL", V, "SHEET", V>>} ** Skip ** Encoding
  \cup {<<"IMPORT", "TO">>} ** NewTable ** {<<"TABLES", "IN">>} ** Opt({<<"SCHEMA">>})
       ** {<<V, "FROM", "EXCEL", V, "SHEETS", "MATCHING", V>>} ** Skip ** Encoding
  \cup {<<"IMPORT", "TO">>} ** NewTable ** {<<V, "FROM">>} ** One({"PARQUET", "FEATHER", "JSON"}) ** {<<V>>}
  \cup {<<"IMPORT_FILE", "TO", "TABLE", V, "COLUMN", V, "FROM", V>>} \cup {<<"INCLUDE">>} ** Opt({<<"IF", "EXISTS">>}) ** {<<V>>}
  \cup {<<"LOG", T>>, <<"MAX_INT", N>>} \cup {<<"LOOP">>} ** One({"WHILE", "UNTIL"}) ** {<<V>>}
  \cup {<<"METACOMMAND_ERROR_HALT">>} ** OnOff
  \cup {<<"ON">>} ** One({"CANCEL_HALT", "ERROR_HALT"}) ** ({<<"EMAIL", "CLEAR">>}
       \cup {<<"EMAIL", "FROM", V, "TO", V, "SUBJECT", T, "MESSAGE", T>>} ** Opt({<<"MESSAGE_FILE", T>>}) ** Opt({<<"ATTACH_FILE", T>>}))
  \cup {<<"ORIF(", V>>, <<"PG_VACUUM", V>>} \cup {<<"PAUSE", T>>} ** After
  \cup {<<"PG_UPSERT">>} ** Opt(One({"CHECK", "QA"})) ** {<<"FROM", V, "TO", V, "TABLES", V>>}

PromptForms ==
  {<<"PROMPT", "ACTION", V, "MESSAGE", T>>} ** Display ** Opt({<<"COMPACT", N>>}) ** Opt({<<"CONTINUE">>}) ** Help
  \cup {<<"PROMPT", "ASK", T, "SUB", V>>} ** (Display \cup {<<"COMPARE", V>>} ** InAlias ** One({"AND", "BESIDE"}) ** {<<V>>} ** InAlias ** {<<"KEY", V>>}) ** Help
  \cup {<<"PROMPT", "COMPARE", V>>} ** InAlias ** One({"AND", "BESIDE"}) ** {<<V>>} ** InAlias ** {<<"KEY", V>>} ** Help ** {<<"MESSAGE", T>>}
  \cup {<<"PROMPT">>} ** Opt({<<"MESSAGE", T>>}) ** ({<<"CONNECT", "AS", V>>} ** Help \cup {<<"CREDENTIALS", V, V>>})
  \cup {<<"PROMPT", "DIRECTORY", "SUB", V>>} ** Opt({<<"FROM", V>>}) \cup {<<"PROMPT", "DISPLAY", V, "MESSAGE", T>>} ** Help
  \cup {<<"PROMPT", "ENTER_SUB", V>>} ** Opt({<<"PASSWORD">>}) ** {<<"MESSAGE", T>>} ** Display
       ** Opt({<<"TYPE">>} ** One({"INT", "FLOAT", "BOOL", "IDENT"})) ** Opt(One({"LCASE", "UCASE"})) ** Opt({<<"INITIALLY", T>>}) ** Help
  \cup {<<"PROMPT", "ENTRY_FORM", V>>} ** Help ** {<<"MESSAGE", T>>} ** Display
  \cup {<<"PROMPT", "MESSAGE", T, "MAP", V, "LAT", V, "LON", V>>} ** Opt({<<"LABEL", V>>}) ** Opt({<<"COLOR", V>>}) ** Opt({<<"SYMBOL", V>>})
  \cup {<<"PROMPT">>} ** Opt({<<"MESSAGE">>}) ** {<<T>>} \cup {<<"PROMPT", "PAUSE", T>>} ** After
  \cup {<<"PROMPT">>} ** One({"OPENFILE", "SAVEFILE"}) ** {<<"SUB", V>>} ** Opt({<<V>>} ** Opt({<<V>>} ** Opt({<<V>>} ** Opt({<<V>>})))) ** Opt({<<"FROM", V>>})
  \cup {<<"PROMPT", "SELECT_ROWS", "FROM", V, "INTO", V>>} ** Help ** {<<"MESSAGE", T>>}
  \cup {<<"PROMPT", "SELECT_SUB", V, "MESSAGE", T>>} ** Opt({<<"CONTINUE">>}) ** Help

ResetToZipForms ==
  {<<"RESET", "COUNTER", N>>, <<"RESET", "COUNTERS">>, <<"RESET", "DIALOG_CANCELED">>, <<"RM_FILE", V>>, <<"RM_SUB", V>>,
   <<"RUN", V>>, <<"SELECT_SUB", V>>, <<"SERVE", V, "AS", "CSV">>, <<"SET", "COUNTER", N, "TO", N>>, <<"SUB", V, V>>,
   <<"SUBDATA", V, V>>, <<"SUB_ADD", V, N>>, <<"SUB_APPEND", V, V>>, <<"SUB_DECRYPT", V, V>>, <<"SUB_EMPTY", V>>,
   <<"SUB_ENCRYPT", V, V>>, <<"SUB_LOCAL", V, V>>, <<"SUB_QUERYSTRING", V>>, <<"SUB_TEMPFILE", V>>, <<"USE", V>>}
  \cup {<<"ROLLBACK">>} ** Opt({<<"BATCH">>}) \cup {<<"SHOW", "SCRIPTS">>} ** Opt({<<V>>})
  \cup {<<"SUB_INI">>} ** Opt({<<"FILE">>}) ** {<<V>>} ** Opt({<<"SECTION">>}) ** {<<V>>}
  \cup {<<"SYSTEM_CMD", V>>} ** Opt({<<"CONTINUE">>}) \cup {<<"TIMER">>} ** OnOff
  \cup {<<"WAIT_UNTIL", V>>} ** One({"HALT", "CONTINUE"}) ** {<<"AFTER", N, "SECONDS">>}
  \cup {<<"WRITE", T>>} ** Opt(Opt({<<"TEE">>}) ** {<<"TO", V>>})
  \cup {<<"WRITE", "CREATE_TABLE", V, "FROM">>} ** ({<<V>>} ** Opt({<<"WITH">>} ** Delimited) ** Encoding ** Skip
         \cup {<<V, "SHEET", V>>} ** Skip \cup {<<"EXCEL", V, "SHEET", V>>} ** Skip ** Encoding \cup {<<V, "IN", V>>})
       ** Opt({<<"COMMENT", T>>}) ** Opt({<<"TO", V>>})
  \cup {<<"WRITE", "SCRIPT", V>>} ** AppendTo \cup {<<"ZIP", V>>} ** Opt({<<"APPEND">>}) ** {<<"TO", "ZIPFILE", V>>}

(* Every metacommand that the reference describes. *)
Documented == FormsAToConfig \cup ConfigForms \cup ConnectForms \cup ConsoleToEmailForms \cup EndToImportForms
  \cup ImportForms \cup PromptForms \cup ResetToZipForms
=============================================================================
