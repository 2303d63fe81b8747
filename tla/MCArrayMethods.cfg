SPECIFICATION Spec
CHECK_DEADLOCK FALSE
CONSTANTS
  Undefined = Undefined
  Absent = Absent
  NaN = NaN
  arr = arr
  obj = obj
  sym = sym
  Maps = {m}
  Sets = {t}
  WeakMaps = {wm}
  WeakSets = {ws}
  Prims = {1}
  Objs = {obj}
  Arrs = {arr}
  Opaque = {sym}
  Vals = {1, 2}
  Inputs <- MCInputs
  MaxCalls = 2
  MaxSteps = 4
  Refs = {arr, obj, sym}
  ArrayIds = {arr}
  Elems <- MCElems
  Written = {1, arr}
  Results = {1, Undefined, arr}
  Indices <- MCIndices
  Rank <- MCRank
  Contents <- MCContents
  MaxLen = 3
INVARIANTS
  CollectionsSound
  MethodsExact
  IterationsExact
PROPERTIES
  ImplementsDictionary
  OrderKept
