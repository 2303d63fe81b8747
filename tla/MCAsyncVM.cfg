SPECIFICATION Spec
CONSTANTS
  v1 = v1
  Array = Array
  NoVal = NoVal
  NoTask = NoTask
  MaxProms = 3
  MaxFibers = 2
  MaxDepth = 3
  MaxWaits = 1
  Vals <- MCVals
INVARIANTS
  TurnsSound
  OneWakeup
  ResumedWithOutcome
  ResultFollowsBody
