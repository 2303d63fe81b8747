SPECIFICATION Spec
CHECK_DEADLOCK FALSE
CONSTANTS
  Family = "functions"
  Progs <- MCProgs
  Names <- MCNames
  MaxSize = 6
  MaxCalls = 3
  MaxNative = 1
  MaxBucket = 2
INVARIANTS
  PoolExclusive
  DepthsCounted
  CompilerMarks
  ClosureSemantics
