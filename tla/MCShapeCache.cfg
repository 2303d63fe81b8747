SPECIFICATION Spec
CONSTANTS
  o1 = o1
  o2 = o2
  a = a
  b = b
  v1 = v1
  v2 = v2
  ga = ga
  sa = sa
  Missing = Missing
  Objs <- MCObjs
  Names <- MCNames
  Vals <- MCVals
  GetSites <- MCGetSites
  SetSites <- MCSetSites
  GetName <- MCGetName
  SetName <- MCSetName
SYMMETRY MCSymmetry
INVARIANTS
  IInv
  CachedReadsExact
  EnumerationExact
PROPERTIES
  ImplementsPropertyStore
