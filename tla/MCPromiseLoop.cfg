SPECIFICATION FairSpec
CONSTANTS
  v1 = v1
  v2 = v2
  Array = Array
  NoVal = NoVal
  NoTask = NoTask
  MaxProms = 3
  Vals <- OneVal
  Features <- Loops
  MaxTasks = 2
  MaxWaits = 1
PROPERTIES
  ReactionsRun
