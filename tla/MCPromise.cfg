SPECIFICATION Spec
CONSTANTS
  v1 = v1
  v2 = v2
  Array = Array
  NoVal = NoVal
  NoTask = NoTask
  MaxProms = 3
  Vals <- TwoVals
  Features <- Everything
  MaxTasks = 1
  MaxWaits = 1
SYMMETRY MCSymmetry
INVARIANTS
  ReactionsSound
  ReactionsInOrder
  AllCounts
  FinallyTransparent
PROPERTIES
  SettledForGood
