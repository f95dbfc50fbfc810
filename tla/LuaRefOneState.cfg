SPECIFICATION Spec
CONSTANTS
  a1 = a1
  a2 = a2
  main = main
  thread = thread
  App = {a1, a2}
  Finalizer = fin
  Object = {o1, o2, o3, o4}
  Nil = nil
  v1 = v1
  Value <- Values
  State = {main}
  StateOf <- OneState
SYMMETRY Interchangeable
CHECK_DEADLOCK FALSE
INVARIANTS
  TypeOK
  PushesItsValue
  FreeListWhole
  VMOutlivesCalls
