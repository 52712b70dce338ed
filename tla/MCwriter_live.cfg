CONSTANTS
  a = a
  b = b
  link = link
  loop = loop
  None = None
  Names = {a, loop}
  Files = {a}
  Resolve <- LoopResolve
  Loops = {loop}
  MaxWrites = 1
  MaxCalls = 2
  MaxInterrupts = 1
SPECIFICATION LiveSpec
PROPERTIES WaitsEnd WritesSettle
