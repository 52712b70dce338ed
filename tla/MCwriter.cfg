CONSTANTS
  a = a
  b = b
  link = link
  loop = loop
  None = None
  Names = {a, b, link}
  Files = {a, b}
  Resolve <- AliasResolve
  Loops = {}
  MaxWrites = 2
  MaxCalls = 2
  MaxInterrupts = 0
SPECIFICATION Spec
INVARIANT PendingExact
PROPERTIES KeepsPromise LateChangeIsNamed FileIsLetGo
