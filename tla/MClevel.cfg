CONSTANTS
  Conn = {c1}
  Initial = c1
  CommitsDdl = {}
  DriverCommits = {}
  Borrowed = {}
  Interrupts = {"ctrlc"}
  MaxDepth = 1
  MaxFrames = 2
SPECIFICATION Spec
VIEW WithoutFate
INVARIANT NoLevelOutlivesItsBlock
