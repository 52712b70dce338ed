CONSTANTS
  Conn = {c1, c2}
  Initial = c1
  CommitsDdl = {}
  DriverCommits = {}
  Borrowed = {}
  Interrupts = {}
  MaxDepth = 1
  MaxFrames = 3
SPECIFICATION Spec
VIEW WithoutFate
PROPERTY HaltEndsTheRun
