SPECIFICATION FairSpec
CONSTANTS
  v1 = v1
  Array = Array
  NoVal = NoVal
  NoTask = NoTask
  MaxProms = 3
  MaxFibers = 1
  MaxDepth = 2
  MaxWaits = 1
  Vals <- MCVals
PROPERTIES
  AwaitsEnd
