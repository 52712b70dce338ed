CONSTANTS
  Backend = {"thread", "tkinter", "textual", "app"}
  Meta = {"display", "enter", "ask", "compare", "ask_compare", "entry_form", "pause", "map", "action",
          "select_rows", "select_sub", "open_file", "save_file", "directory", "msg", "halt", "connect",
          "password"}
  Status = {0, 2, 3}
  FileValues <- SomeFileValues
  CursorValues <- SomeCursorValues
  MaxValues = 3
  MaxInt = 99
  ExactDigits = 3
  LongText = 5
  Scales <- SomeScales
  BindingDigits = 4
SPECIFICATION PartsSpec
INVARIANTS UserIsObeyed AccountsAgree
PROPERTY PromptEnds
INVARIANT CommandsAreRead
INVARIANTS TypeIsOrderFree ColumnHoldsItsValues ExistingColumnIsExact SecondLoadAgrees
INVARIANT ImportReadsExport
INVARIANT LintAgreesWithRuns
