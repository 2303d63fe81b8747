SPECIFICATION Spec
CHECK_DEADLOCK FALSE
CONSTANTS
  Undefined = Undefined
  Pending = Pending
  Hung = Hung
  Missing = Missing
  NoFunction = NoFunction
  NoProxy = NoProxy
  NoView = NoView
  NoBytes = NoBytes
  get = get
  set = set
  fun = fun
  gun = gun
  prim = prim
  PlainNames = {x}
  Functions = {fun, gun}
  Getters = {fun}
  Setters = {gun}
  Constructors = {fun}
  Prims = {prim}
  Numbers <- MCNumbers
  Indices <- MCIndices
  Base = 4
  Scripts <- MCScripts
  MaxObjects = 7
  MaxCalls = 2
INVARIANTS
  ObjectsSound
PROPERTIES
  ElementsReadBack
  ImplementsOrdinary
