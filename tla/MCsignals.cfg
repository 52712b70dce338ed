CONSTANTS
  Conn = {c1, c2}
  Initial = c1
  CommitsDdl = {c2}
  DriverCommits = {}
  Borrowed = {c1}
  Interrupts = {"ctrlc", "term"}
  MaxDepth = 2
  MaxFrames = 2
SPECIFICATION Spec
INVARIANTS SettledInv CallerGetsCleanConnection
PROPERTIES CondemnedNeverStored
VIEW WithoutFate
