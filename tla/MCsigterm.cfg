CONSTANTS
  Commands = {1, 2}
  Foreign = {2}
  MaxSignals = 2
  MaxInterrupts = 2
  InterruptPoints = {"lock", "check", "fork", "started", "body", "finally", "kill", "unlist", "last"}
SPECIFICATION LiveSpec
INVARIANTS EveryCommandDies NothingHeldBetween
PROPERTIES NoCommandStarts SigtermEndsRun
