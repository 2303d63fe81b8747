SPECIFICATION FairSpec
CONSTANTS
  g1 = g1
  g2 = g2
  a = a
  b = b
  Main = Main
  Undefined = Undefined
  NoGen = NoGen
  Reentrant = FALSE
  Gens <- MCGens
  Vals <- MCVals
INVARIANTS
  OneTurn
  PartnersWait
PROPERTIES
  ClosedForGood
  StoppedBodiesUnwind
  CallersAnswered
  ImplementsProtocol
