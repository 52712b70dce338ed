CONSTANTS
  File <- SomeFiles
  Main = "main"
  Outside = {"outside"}
  Script = {"s", "t"}
  Defs <- SomeDefs
  MaxCalls = 5
  Line <- SomeLines
  MaxLines = 4
  Commands <- SomeCommands
  Declared <- SomeParameters
  CounterNames <- SomeCounters
  Expansions <- Expanded
  MaxScopes = 3
  MaxCommands = 5
SPECIFICATION LanguageSpec
INVARIANTS BreakIsCaught FramesAreTheOpenRunners ChainIsTheOpenFiles ScopeIsInnermost
PROPERTY HaltEndsRun
INVARIANTS AcceptsTheGrammar TreeFollowsTheText NothingLostOrDoubled
INVARIANT ConditionsAreRead
PROPERTIES ScopesStayKept CommandsAreExpanded
