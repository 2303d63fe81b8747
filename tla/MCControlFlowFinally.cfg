SPECIFICATION StackSpec
CHECK_DEADLOCK FALSE
CONSTANTS
  Family = "scripts"
  Progs <- MCProgs
  Fns <- MCFns
  MainFn <- MCMain
  MaxCalls = 2
  MaxChoices = 4
INVARIANT FinallyRuns
