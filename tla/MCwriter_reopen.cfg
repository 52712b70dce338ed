CONSTANTS
  a = a
  b = b
  link = link
  loop = loop
  None = None
  Names = {a}
  Files = {a}
  Resolve <- OneResolve
  Loops = {}
  MaxWrites = 2
  MaxCalls = 1
  MaxInterrupts = 0
SPECIFICATION Spec
PROPERTIES LockedFileIsTried
