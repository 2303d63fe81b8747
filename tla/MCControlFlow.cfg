SPECIFICATION StackSpec
CHECK_DEADLOCK FALSE
CONSTANTS
  Family = "all"
  Progs <- MCProgs
  Fns <- MCFns
  MainFn <- MCMain
  MaxCalls = 2
  MaxChoices = 4
INVARIANTS
  DepthsKept
  DisciplinedVerified
  Faithful
