CONSTANTS
  a = a
  b = b
  link = link
  loop = loop
  None = None
  Names = {a}
  Files = {a}
  Resolve <- OneResolve
  Loops = {}
  MaxWrites = 1
  MaxCalls = 2
  MaxInterrupts = 1
SPECIFICATION Spec
INVARIANTS LossesAreTold
