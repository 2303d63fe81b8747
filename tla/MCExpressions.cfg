SPECIFICATION Spec
CHECK_DEADLOCK FALSE
CONSTANTS
  Families <- MCFamilies
  Globals <- MCGlobals
  Objects <- MCObjects
INVARIANTS
  ParserNeverPanics
  ReadsBack
  OperandsSound
  ExpressionsFollowSource
