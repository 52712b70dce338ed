CONSTANTS
  Conn = {c1, c2}
  Initial = c1
  CommitsDdl = {}
  DriverCommits = {}
  Borrowed = {}
  Interrupts = {"term"}
  MaxDepth = 2
  MaxFrames = 3
SPECIFICATION Spec
INVARIANTS NothingOrphaned UsedConnectionsStayOpen NoLevelOutlivesItsBlock
PROPERTIES ScriptsTransactionKept SqlErrorTellsTheTruth BatchWorkIsKept
VIEW WithoutFate
